\* A step named after the compensation of another.
SPECIFICATION Spec
CONSTANTS
  Width = 4
  Menu <- MCMenu
  Unset = Unset
  SagaPolicy <- MCSagaPolicy
  SagaTimeout = 22
  LockTTL = 21
  ActionTime = 2
  MaxSteps = 2
  MaxCrashes = 0
INVARIANTS
  CompensatedIsUndone
