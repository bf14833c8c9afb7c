\* One crash, and Recover called once, at startup.
SPECIFICATION FairSpec
CONSTANTS
  Workers = {w1}
  w1 = w1
  Free = Free
  Orphan = Orphan
  NSteps = 1
  Compensable = {1}
  MaxAttempts = 1
  HasLocker = TRUE
  Policies = {"RecoverAutomatically"}
  Idempotent = TRUE
  Env = {"crash"}
  MaxFaults = 1
  GhostCap = 0
PROPERTIES
  EventuallySettled
