\* A step with a timeout, and no fault.
SPECIFICATION Spec
CONSTANTS
  Workers = {w1}
  w1 = w1
  Free = Free
  Orphan = Orphan
  NSteps = 2
  Compensable = {1}
  MaxAttempts = 1
  HasLocker = TRUE
  Policies = {"RecoverAutomatically"}
  Idempotent = TRUE
  Env = {"stepTimeout"}
  MaxFaults = 0
  GhostCap = 0
INVARIANTS
  FailedStepHadNoEffect
