\* Idempotent steps, no Locker, no deadlines and no cancellation: nothing is left
\* behind, and what the observers are told of it.
SPECIFICATION ObservedSpec
CONSTANTS
  Workers = {w1}
  w1 = w1
  Free = Free
  Orphan = Orphan
  NSteps = 4
  Compensable = {1, 3}
  MaxAttempts = 1
  HasLocker = FALSE
  Policies = {"RecoverAutomatically"}
  Idempotent = TRUE
  Env = {"crash", "store", "panicStep", "panicObserver", "resweep"}
  MaxFaults = 2
  GhostCap = 0
  NPublishers = 2
  MaxDeaf = 1
INVARIANTS
  AllOrNothing
  EventsAreFinal
  ToldInOrder
  EarlierHearsMore
  LossesAreFaults
