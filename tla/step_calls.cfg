\* One execution of up to three steps, under a clock.
SPECIFICATION Spec
CONSTANTS
  Width = 4
  Menu <- MCMenu
  Unset = Unset
  SagaPolicy <- MCSagaPolicy
  SagaTimeout = 22
  LockTTL = 21
  ActionTime = 2
  MaxSteps = 3
  MaxCrashes = 1
INVARIANTS
  TypeOK
  OncePerOperation
  ReportedIsDone
  BackoffIsExact
  LeaseOutlivesBudget
PROPERTIES
  Timely
  AttemptsSpaced
