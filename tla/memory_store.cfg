SPECIFICATION Spec
CONSTANTS
  c1 = c1
  c2 = c2
  x = x
  Callers = {c1, c2}
  IDs = {x}
  Nil = Nil
  Cells = {1, 2, 3}
  Reachable = {"PENDING", "RUNNING", "COMPLETED"}
  StepReachable = {"PENDING", "RUNNING"}
  TTLs = {1, 2}
  MaxNow = 3
INVARIANTS TypeOK Persisted OneHolder RefusalIsWarranted
PROPERTIES OneRecordMoves LockRefined
