\* Two workers, no fault of any kind and no lapsing lease.
SPECIFICATION Spec
CONSTANTS
  Workers = {w1, w2}
  w1 = w1
  w2 = w2
  Free = Free
  Orphan = Orphan
  NSteps = 2
  Compensable = {1}
  MaxAttempts = 1
  HasLocker = TRUE
  Policies = {"RecoverAutomatically"}
  Idempotent = FALSE
  Env = {"resweep"}
  MaxFaults = 0
  GhostCap = 0
PROPERTIES
  NeverRecompensates
