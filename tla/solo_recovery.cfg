\* One worker, every fault but a lapsing lease, recovery again and again under
\* either policy.
SPECIFICATION Spec
CONSTANTS
  Workers = {w1}
  w1 = w1
  Free = Free
  Orphan = Orphan
  NSteps = 4
  Compensable = {1, 3}
  MaxAttempts = 2
  HasLocker = TRUE
  Policies = {"RecoverAutomatically", "RecoverSkipInFlight"}
  Idempotent = FALSE
  Env = {"crash", "store", "ctxStore", "panicStep", "panicObserver", "cancel", "sagaTimeout", "stepTimeout", "resweep"}
  MaxFaults = 2
  GhostCap = 1
INVARIANTS
  RecordMatchesWorld
  EventIsFinal
PROPERTIES
  NothingGuessed
  AbandonedByContext
  KeepsContract
