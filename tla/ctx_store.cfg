\* A caller that cancels, over a store, without a Locker, that honours its context.
SPECIFICATION Spec
CONSTANTS
  Workers = {w1}
  w1 = w1
  Free = Free
  Orphan = Orphan
  NSteps = 2
  Compensable = {1}
  MaxAttempts = 1
  HasLocker = FALSE
  Policies = {"RecoverAutomatically"}
  Idempotent = FALSE
  Env = {"cancel", "ctxStore"}
  MaxFaults = 0
  GhostCap = 0
INVARIANTS
  CancelledCallCompensates
