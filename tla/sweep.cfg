\* Three executions, two versions of the program, crashes and cancellations.
SPECIFICATION FairSpec
CONSTANTS
  Ids = {1, 2, 3}
  Created <- MCCreated
  Versions = {1, 2}
  Definitions <- MCDefinitions
  Unregistered = Unregistered
  Compensable = {1}
  Cautious = {2}
  Poison = {3}
  MaxFaults = 1
INVARIANTS
  TypeOK
  AnswersInOrder
  CompletedMeans
  PanicsByDrift
PROPERTIES
  RollbackHasCause
  KeepsContracts
  EventuallyReached
