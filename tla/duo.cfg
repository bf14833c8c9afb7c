\* Two workers, and one fault: a crash, an error, a panic of a step, or a lease
\* that runs out under the call that holds it.
SPECIFICATION FairSpec
CONSTANTS
  Workers = {w1, w2}
  w1 = w1
  w2 = w2
  Free = Free
  Orphan = Orphan
  NSteps = 2
  Compensable = {1}
  MaxAttempts = 1
  HasLocker = TRUE
  Policies = {"RecoverAutomatically"}
  Idempotent = TRUE
  Env = {"crash", "store", "panicStep", "lapse", "resweep"}
  MaxFaults = 1
  GhostCap = 0
INVARIANTS
  TypeOK
  RecordShape
  NoEnginePanic
  CallsAreReady
  MutualExclusion
  DrivesUnderLease
  NoLeaseLeftBehind
  ToldIsDurable
PROPERTIES
  EventuallySettled
  CallReturns
