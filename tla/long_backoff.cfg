\* One step whose delay is doubled past the longest duration.
SPECIFICATION Spec
CONSTANTS
  Width = 4
  Menu <- MCPatientMenu
  Unset = Unset
  SagaPolicy <- MCSagaPolicy
  SagaTimeout = 0
  LockTTL = 21
  ActionTime = 2
  MaxSteps = 1
  MaxCrashes = 0
PROPERTIES
  DelaysAreKept
