---------------------------- MODULE SagaShapeProofs ---------------------------
(***************************************************************************)
(* Proof that SagaEngine only ever saves well-formed records and never     *)
(* asks for an illegal transition, for any number of workers that crash,   *)
(* fail, race and lose their leases.                                       *)
(*                                                                         *)
(* No lease is used: what a call may rely on (Ready) is a fact about its   *)
(* own copy, which other workers cannot touch, and the store only ever     *)
(* receives such a copy.  The first part is about records alone; the       *)
(* second shows that each step of a worker keeps its copy ready; the third *)
(* puts them together.                                                     *)
(***************************************************************************)
EXTENDS SagaEngineProofs

USE StepsAssumption, LeaseAssumption, EngineAssumption DEF Steps

\* A record that differs from r in its status only, or in one step only.
WithStatus(r, q, s) ==
  q.status = s /\ q.steps = r.steps /\ q.attempts = r.attempts

WithStep(r, q, i, s) ==
  /\ q.status = r.status /\ q.attempts = r.attempts
  /\ q.steps = [r.steps EXCEPT ![i] = s]

\* A record that counts one attempt more of step i than r does.
WithAttempt(r, q, i) ==
  /\ q.status = r.status /\ q.steps = r.steps
  /\ q.attempts = [r.attempts EXCEPT ![i] = @ + 1]

\* What Execute builds is well formed (execute.go:84-95).
LEMMA NewIsReady ==
  ReadyAt("create", NewExecution, 0, 0, 0)
BY DEF ReadyAt, NewExecution, WellFormed, Sequential, ForwardOnly,
   ReverseOrder, Truthful, Counted, Unattempted, Reached, InCompensation,
   Settled, RollingBack, IsTerminal, Terminal, Status, Stepping, Undoing

\* A PENDING record may become RUNNING (execute.go:173-177).
LEMMA BeginReady ==
  ASSUME NEW r \in Records, NEW q \in Records, WithStatus(r, q, "RUNNING"),
         r.status = "PENDING", WellFormed(r), NEW i, NEW n, NEW a
  PROVE  ReadyAt("resume", q, i, n, a) /\ Unattempted(q)
BY DEF ReadyAt, Records, WithStatus, WellFormed, Sequential, ForwardOnly,
   ReverseOrder, Truthful, Counted, Unattempted, Reached, InCompensation,
   Settled, RollingBack, IsTerminal, Terminal, Status, Stepping, Undoing

\* With every step SUCCEEDED a run may complete (execute.go:249-254).
LEMMA CompleteReady ==
  ASSUME NEW r \in Records, NEW q \in Records, WithStatus(r, q, "COMPLETED"),
         NEW n, NEW a, NEW i, i = NSteps + 1, ReadyAt("forward", r, i, n, a)
  PROVE  ReadyAt("release", q, i, n, a) /\ Unattempted(q)
BY DEF ReadyAt, Records, WithStatus, WellFormed, Sequential, ForwardOnly,
   ReverseOrder, Truthful, Counted, Unattempted, Reached, InCompensation,
   IsFrontier, Settled, RollingBack, IsTerminal, Terminal, Status, Stepping,
   Undoing

\* The frontier may be started if it is PENDING (execute.go:223-227).
LEMMA StartReady ==
  ASSUME NEW r \in Records, NEW q \in Records, NEW i \in Steps,
         WithStep(r, q, i, "RUNNING"),
         NEW n, NEW a, ReadyAt("forward", r, i, n, a), r.steps[i] = "PENDING"
  PROVE  ReadyAt("attempt", q, i, n, 0) /\ Unattempted(q)
BY DEF ReadyAt, Records, WithStep, WellFormed, Sequential, ForwardOnly,
   ReverseOrder, Truthful, Counted, Unattempted, Reached, InCompensation,
   IsFrontier, Settled, RollingBack, IsTerminal, Terminal, Status, Stepping,
   Undoing

\* A success moves the frontier on by one (execute.go:242-246).
LEMMA SucceedReady ==
  ASSUME NEW r \in Records, NEW q \in Records, NEW i \in Steps,
         WithStep(r, q, i, "SUCCEEDED"),
         NEW n, NEW a, ReadyAt("acting", r, i, n, a), a \in 0..MaxAttempts
  PROVE  ReadyAt("forward", q, i + 1, n, a) /\ Unattempted(q)
<1>1. /\ q.status = "RUNNING" /\ r.status = "RUNNING"
      /\ q.attempts = r.attempts
      /\ q.steps \in [Steps -> StepStatus] /\ q.steps[i] = "SUCCEEDED"
      /\ \A j \in Steps : j # i => q.steps[j] = r.steps[j]
  BY DEF ReadyAt, Stepping, Records, WithStep
<1>2. /\ WellFormed(r) /\ r.steps[i] = "RUNNING"
      /\ r.attempts[i] = a /\ a > 0
      /\ \A j \in 1..(i - 1) : r.steps[j] = "SUCCEEDED"
  BY DEF ReadyAt, Stepping, IsFrontier
<1>3. \A j \in Steps : j > i => r.steps[j] = "PENDING"
  BY <1>2 DEF WellFormed, Sequential, Reached
<1>4. /\ \A j \in Steps : j =< i => q.steps[j] = "SUCCEEDED"
      /\ \A j \in Steps : j > i => q.steps[j] = "PENDING"
  BY <1>1, <1>2, <1>3
<1>5. Sequential(q) /\ ForwardOnly(q) /\ ReverseOrder(q) /\ Truthful(q)
  BY <1>1, <1>4
  DEF Sequential, ForwardOnly, ReverseOrder, Truthful, Reached,
      InCompensation, Settled, RollingBack
<1>6. Counted(q)
  <2>1. \A j \in Steps :
          /\ r.attempts[j] <= MaxAttempts
          /\ r.steps[j] = "PENDING" => r.attempts[j] = 0
          /\ Reached(r.steps[j]) => r.attempts[j] > 0
    BY <1>2 DEF WellFormed, Counted
  <2> QED
    BY <1>1, <1>2, <2>1 DEF Counted, Reached
<1>7. WellFormed(q) /\ Unattempted(q)
  BY <1>1, <1>4, <1>5, <1>6 DEF WellFormed, Unattempted, Status
<1>8. IsFrontier(q, i + 1) /\ (i + 1 \in Steps => q.steps[i + 1] # "FAILED")
  BY <1>4 DEF IsFrontier
<1> QED
  BY <1>1, <1>7, <1>8 DEF ReadyAt, Stepping, Undoing

\* A failed step leaves a record that abort can take (execute.go:234-240).
LEMMA FailReady ==
  ASSUME NEW r \in Records, NEW q \in Records, NEW i \in Steps,
         WithStep(r, q, i, "FAILED"),
         NEW n, NEW a, NEW l \in Stepping, ReadyAt(l, r, i, n, a),
         a \in 0..MaxAttempts
  PROVE  ReadyAt("abort", q, i, n, a) /\ Unattempted(q)
BY DEF ReadyAt, Records, WithStep, WellFormed, Sequential, ForwardOnly,
   ReverseOrder, Truthful, Counted, Unattempted, Reached, InCompensation,
   IsFrontier, Settled, RollingBack, IsTerminal, Terminal, Status, Stepping,
   Undoing

\* Counting an attempt keeps the step within its budget (execute.go:291).
LEMMA InvokeReady ==
  ASSUME NEW r \in Records, NEW q \in Records, NEW i \in Steps,
         WithAttempt(r, q, i),
         NEW n, NEW a \in Nat, ReadyAt("attempt", r, i, n, a), a < MaxAttempts
  PROVE  ReadyAt("acting", q, i, n, a + 1)
<1>1. /\ WellFormed(r) /\ r.status = "RUNNING" /\ IsFrontier(r, i)
      /\ r.steps[i] = "RUNNING" /\ r.attempts[i] = a
  BY DEF ReadyAt, Stepping
<1>2. /\ q.status = "RUNNING" /\ q.steps = r.steps
      /\ q.attempts[i] = a + 1
      /\ \A j \in Steps : j # i => q.attempts[j] = r.attempts[j]
  BY <1>1 DEF WithAttempt, Records
<1>3. Sequential(q) /\ ForwardOnly(q) /\ ReverseOrder(q) /\ Truthful(q)
  BY <1>1, <1>2
  DEF WellFormed, Sequential, ForwardOnly, ReverseOrder, Truthful, RollingBack
<1>4. Counted(q)
  <2>1. \A j \in Steps :
          /\ r.attempts[j] <= MaxAttempts
          /\ r.steps[j] = "PENDING" => r.attempts[j] = 0
          /\ Reached(r.steps[j]) => r.attempts[j] > 0
    BY <1>1 DEF WellFormed, Counted
  <2> QED
    BY <1>1, <1>2, <2>1 DEF Counted, Reached
<1>5. WellFormed(q) /\ IsFrontier(q, i)
  BY <1>1, <1>2, <1>3, <1>4 DEF WellFormed, IsFrontier, Status
<1> QED
  BY <1>1, <1>2, <1>5 DEF ReadyAt, Stepping, Undoing

\* FAILED is only reached with nothing to undo (execute.go:393-398).
LEMMA AbortFailedReady ==
  ASSUME NEW r \in Records, NEW q \in Records, NEW i \in Steps,
         WithStatus(r, q, "FAILED"), ~AnySucceeded(r, i - 1),
         NEW n, NEW a, ReadyAt("abort", r, i, n, a)
  PROVE  ReadyAt("release", q, i, n, a) /\ Unattempted(q)
BY DEF ReadyAt, Records, WithStatus, WellFormed, Sequential, ForwardOnly,
   ReverseOrder, Truthful, Counted, Unattempted, Reached, InCompensation,
   IsFrontier, AnySucceeded, Settled, RollingBack, IsTerminal, Terminal,
   Status, Stepping, Undoing

\* COMPENSATING is only reached with something to undo, and the step before the
\* failed one is where failedAt would be rebuilt (execute.go:400-403).
LEMMA AbortCompensatingReady ==
  ASSUME NEW r \in Records, NEW q \in Records, NEW i \in Steps,
         WithStatus(r, q, "COMPENSATING"), AnySucceeded(r, i - 1),
         NEW n, NEW a, ReadyAt("abort", r, i, n, a)
  PROVE  ReadyAt("rollback", q, i - 1, n, a) /\ Unattempted(q)
BY DEF ReadyAt, Records, WithStatus, WellFormed, Sequential, ForwardOnly,
   ReverseOrder, Truthful, Counted, Unattempted, Reached, InCompensation,
   IsFrontier, AnySucceeded, IsFailedAt, Settled, RollingBack, IsTerminal,
   Terminal, Status, Stepping, Undoing

\* Compensation may begin at the last step that is not dealt with: every later
\* one is (execute.go:499-514).
LEMMA UndoReady ==
  ASSUME NEW r \in Records, NEW q \in Records, NEW n \in 0..NSteps,
         NEW i \in 0..NSteps, NEW j \in Steps, NEW a,
         j \in Undoable(r, i), \A k \in Undoable(r, i) : k <= j,
         r.steps[j] = "SUCCEEDED", WithStep(r, q, j, "COMPENSATING"),
         ReadyAt("undo", r, i, n, a)
  PROVE  ReadyAt("compensate", q, j, n, a) /\ Unattempted(q)
<1>1. /\ WellFormed(r) /\ Unattempted(r) /\ r.status = "COMPENSATING"
      /\ IsFailedAt(r, n) /\ i <= n
      /\ \A k \in (i + 1)..n : k \in Compensable => Settled(r.steps[k])
  BY DEF ReadyAt, Stepping, Undoing
<1>2. j \in Compensable /\ j <= i
  BY DEF Undoable
<1>3. /\ q.status = "COMPENSATING" /\ q.attempts = r.attempts
      /\ q.steps[j] = "COMPENSATING"
      /\ \A k \in Steps \ {j} : q.steps[k] = r.steps[k]
  BY <1>1 DEF WithStep, Records
<1>4. \A k \in Steps : Reached(q.steps[k]) <=> Reached(r.steps[k])
  BY <1>3 DEF Reached
<1>5. \A k \in (j + 1)..n :
        k \in Compensable => Settled(q.steps[k]) /\ Settled(r.steps[k])
  <2>1. ASSUME NEW k \in (j + 1)..n, k \in Compensable
        PROVE  Settled(r.steps[k]) /\ k # j /\ k \in Steps
    <3>1. k \in Steps /\ k > j
      OBVIOUS
    <3>2. CASE k > i
      BY <1>1, <2>1, <3>1, <3>2
    <3>3. CASE k <= i
      <4>1. k \notin Undoable(r, i)
        BY <3>1
      <4>2. r.steps[k] \notin {"SUCCEEDED", "COMPENSATING"}
        BY <2>1, <3>1, <3>3, <4>1 DEF Undoable
      <4>3. Reached(r.steps[k])
        BY <1>1, <3>1, <3>3 DEF WellFormed, Sequential, IsFailedAt, Reached
      <4> QED
        BY <3>1, <4>2, <4>3 DEF Reached, Settled
    <3> QED
      BY <3>1, <3>2, <3>3
  <2> QED
    BY <2>1, <1>3
<1>6. Sequential(q) /\ IsFailedAt(q, n)
  <2>1. \A k \in Steps : q.steps[k] # "PENDING" => r.steps[k] # "PENDING"
    BY <1>3
  <2> QED
    BY <1>1, <1>4, <2>1 DEF WellFormed, Sequential, IsFailedAt
<1>7. ForwardOnly(q)
  BY <1>1, <1>2, <1>3 DEF WellFormed, ForwardOnly, RollingBack, InCompensation
<1>8. ReverseOrder(q)
  <2> SUFFICES ASSUME NEW k \in Steps, NEW m \in Steps, k < m,
                      InCompensation(q.steps[k]), m \in Compensable,
                      Reached(q.steps[m])
               PROVE  Settled(q.steps[m])
    BY DEF ReverseOrder
  <2>1. m <= n
    BY <1>1, <1>4 DEF IsFailedAt
  <2>2. CASE m > j
    BY <1>5, <2>1, <2>2
  <2>3. CASE m <= j
    <3>1. InCompensation(r.steps[k])
      BY <1>3, <2>3
    <3>2. Settled(r.steps[j])
      BY <1>1, <1>2, <2>3, <3>1 DEF WellFormed, ReverseOrder, Reached
    <3> QED
      BY <3>2 DEF Settled
  <2> QED
    BY <2>2, <2>3
<1>9. Truthful(q) /\ Counted(q) /\ Unattempted(q)
  BY <1>1, <1>3, <1>4 DEF WellFormed, Truthful, Counted, Unattempted,
     RollingBack, Reached
<1> QED
  BY <1>1, <1>2, <1>3, <1>5, <1>6, <1>7, <1>8, <1>9 DEF ReadyAt, WellFormed,
     Stepping, Undoing, Status

\* The same for a compensation that was interrupted (execute.go:515-520).
LEMMA UndoAgainReady ==
  ASSUME NEW r \in Records, NEW n \in 0..NSteps, NEW i \in 0..NSteps,
         NEW j \in Steps, j \in Undoable(r, i),
         \A k \in Undoable(r, i) : k <= j,
         r.steps[j] # "SUCCEEDED",
         NEW a, ReadyAt("undo", r, i, n, a)
  PROVE  ReadyAt("compensate", r, j, n, a)
BY DEF ReadyAt, Records, WithStep, WellFormed, Sequential, ForwardOnly,
   ReverseOrder, Truthful, Counted, Unattempted, Reached, InCompensation,
   IsFailedAt, Undoable, Settled, RollingBack, IsTerminal, Terminal, Status,
   Stepping, Undoing

\* Whatever Compensate returned, the loop goes on with the step before
\* (execute.go:520-530).
LEMMA UndoneReady ==
  ASSUME NEW r \in Records, NEW q \in Records, NEW n \in 0..NSteps,
         NEW i \in Steps, NEW s \in {"COMPENSATED", "COMPENSATION_FAILED"},
         NEW a, WithStep(r, q, i, s), ReadyAt("undoing", r, i, n, a)
  PROVE  ReadyAt("undo", q, i - 1, n, a) /\ Unattempted(q)
<1>1. /\ WellFormed(r) /\ Unattempted(r) /\ r.status = "COMPENSATING"
      /\ IsFailedAt(r, n) /\ i <= n
      /\ \A k \in (i + 1)..n : k \in Compensable => Settled(r.steps[k])
      /\ i \in Compensable /\ r.steps[i] = "COMPENSATING"
  BY DEF ReadyAt, Stepping, Undoing
<1>2. /\ q.status = "COMPENSATING" /\ q.attempts = r.attempts
      /\ q.steps[i] = s
      /\ \A k \in Steps \ {i} : q.steps[k] = r.steps[k]
  BY <1>1 DEF WithStep, Records
<1>3. \A k \in Steps : /\ Reached(q.steps[k]) <=> Reached(r.steps[k])
                       /\ Settled(r.steps[k]) => Settled(q.steps[k])
                       /\ InCompensation(q.steps[k])
                            <=> InCompensation(r.steps[k])
                       /\ q.steps[k] # "PENDING" => r.steps[k] # "PENDING"
  BY <1>1, <1>2 DEF Reached, Settled, InCompensation
<1>4. \A k \in i..n : k \in Compensable => Settled(q.steps[k])
  BY <1>1, <1>2, <1>3 DEF Settled
<1>5. Sequential(q) /\ IsFailedAt(q, n)
  BY <1>1, <1>3 DEF WellFormed, Sequential, IsFailedAt
<1>6. ForwardOnly(q) /\ ReverseOrder(q)
  BY <1>1, <1>2, <1>3 DEF WellFormed, ForwardOnly, ReverseOrder, RollingBack
<1>7. Truthful(q) /\ Counted(q) /\ Unattempted(q)
  BY <1>1, <1>2, <1>3 DEF WellFormed, Truthful, Counted, Unattempted,
     RollingBack, Reached
<1> QED
  BY <1>1, <1>2, <1>4, <1>5, <1>6, <1>7 DEF ReadyAt, WellFormed, Stepping,
     Undoing, Status

\* When the loop ends, the verdict over steps 1..failedAt is the verdict over
\* all of them (execute.go:532-539).
LEMMA SettleReady ==
  ASSUME NEW r \in Records, NEW q \in Records, NEW n \in 0..NSteps,
         NEW i \in 0..NSteps, NEW a, Undoable(r, i) = {},
         WithStatus(r, q, RollbackOutcome(r, n)), ReadyAt("undo", r, i, n, a)
  PROVE  ReadyAt("release", q, i, n, a) /\ Unattempted(q)
<1>1. /\ WellFormed(r) /\ Unattempted(r) /\ r.status = "COMPENSATING"
      /\ IsFailedAt(r, n) /\ i <= n
      /\ \A k \in (i + 1)..n : k \in Compensable => Settled(r.steps[k])
  BY DEF ReadyAt, Stepping, Undoing
<1>2. /\ q.status \in {"COMPENSATED", "COMPENSATION_FAILED"}
      /\ q.steps = r.steps /\ q.attempts = r.attempts
  BY DEF WithStatus, RollbackOutcome
<1>3. \A k \in Compensable : Reached(r.steps[k]) => Settled(r.steps[k])
  <2> SUFFICES ASSUME NEW k \in Compensable, Reached(r.steps[k])
               PROVE  Settled(r.steps[k])
    OBVIOUS
  <2>1. k \in 1..n
    BY <1>1 DEF IsFailedAt
  <2>2. CASE k > i
    BY <1>1, <2>1, <2>2
  <2>3. CASE k <= i
    BY <2>1, <2>3 DEF Undoable, Reached, Settled
  <2> QED
    BY <2>1, <2>2, <2>3
<1>4. /\ q.status = "COMPENSATED" =>
           \A k \in Steps : q.steps[k] # "COMPENSATION_FAILED"
      /\ q.status = "COMPENSATION_FAILED" =>
           \E k \in Steps : q.steps[k] = "COMPENSATION_FAILED"
  BY <1>1, <1>2 DEF WithStatus, RollbackOutcome, IsFailedAt, Reached
<1>5. Truthful(q)
  BY <1>1, <1>2, <1>3, <1>4 DEF WellFormed, Truthful, RollingBack
<1>6. Sequential(q) /\ ForwardOnly(q) /\ ReverseOrder(q) /\ Counted(q)
      /\ Unattempted(q)
  BY <1>1, <1>2 DEF WellFormed, Sequential, ForwardOnly, ReverseOrder,
     Counted, Unattempted, RollingBack
<1> QED
  BY <1>2, <1>5, <1>6 DEF ReadyAt, WellFormed, Stepping, Undoing, Status

-------------------------------------------------------------------------------
(***************************************************************************)
(* Steps of a worker.                                                      *)
(***************************************************************************)
\* With TypeInv, the inductive invariant.
ShapeInv ==
  /\ RecordShape /\ Unattempted(store)
  /\ NoEnginePanic
  /\ \A w \in Workers : Ready(w)

\* What each step of w owes: its own readiness, no refused transition, and a
\* store that is as it was or now holds w's copy.
Sound(w) ==
  /\ Ready(w)'
  /\ result'[w] # "enginePanic"
  /\ store' = store \/ (WellFormed(store') /\ Unattempted(store'))

\* A legal change of a step is persisted (execute.go:571-580).
LEMMA StepAdvances ==
  ASSUME TypeInv, NEW w \in Workers, NEW i \in Steps, NEW to \in StepStatus,
         NEW l \in Continuations, TransitionStep(w, i, to, l),
         CanTransitionStepStatus(exec[w].steps[i], to)
  PROVE  /\ pc'[w] \in {"renew", "save"} /\ Stage(w)' = l
         /\ exec[w] \in Records /\ exec'[w] \in Records
         /\ WithStep(exec[w], exec'[w], i, to)
         /\ result'[w] = result[w]
<1>1. Persist(w, [exec[w] EXCEPT !.steps[i] = to], l)
  BY DEF TransitionStep, MoveStep
<1>2. exec[w] \in Records
  BY DEF TypeInv, TypeOK, HandTypes
<1>3. exec'[w] = [exec[w] EXCEPT !.steps[i] = to]
  BY <1>1 DEF Persist, TypeInv, TypeOK, HandTypes
<1>4. exec'[w] \in Records /\ WithStep(exec[w], exec'[w], i, to)
  BY <1>2, <1>3, StepUpdate DEF WithStep
<1> QED
  BY <1>1, <1>2, <1>4 DEF Persist, Goto, Stage, TypeInv, TypeOK, ControlTypes

\* A legal change of the execution's status is persisted (execute.go:559-568).
LEMMA ExecAdvances ==
  ASSUME TypeInv, NEW w \in Workers, NEW to \in Status,
         NEW l \in Continuations, TransitionExec(w, to, l),
         CanTransitionStatus(exec[w].status, to)
  PROVE  /\ pc'[w] \in {"renew", "save"} /\ Stage(w)' = l
         /\ exec[w] \in Records /\ exec'[w] \in Records
         /\ WithStatus(exec[w], exec'[w], to)
         /\ result'[w] = result[w]
<1>1. Persist(w, [exec[w] EXCEPT !.status = to], l)
  BY DEF TransitionExec, MoveStatus
<1>2. exec[w] \in Records
  BY DEF TypeInv, TypeOK, HandTypes
<1>3. exec'[w] = [exec[w] EXCEPT !.status = to]
  BY <1>1 DEF Persist, TypeInv, TypeOK, HandTypes
<1>4. exec'[w] \in Records /\ WithStatus(exec[w], exec'[w], to)
  BY <1>2, <1>3, StatusUpdate DEF WithStatus
<1> QED
  BY <1>1, <1>2, <1>4 DEF Persist, Goto, Stage, TypeInv, TypeOK, ControlTypes

\* resume starts a PENDING execution (execute.go:173-177).
LEMMA BeginRunSound ==
  ASSUME TypeInv, ShapeInv, NEW w \in Workers, BeginRun(w)
  PROVE  Sound(w)
<1>1. ReadyAt("resume", exec[w], cur[w], failedAt[w], attempt[w])
  BY DEF BeginRun, ShapeInv, Ready, Stage, At
<1>2. CanTransitionStatus(exec[w].status, "RUNNING") /\ WellFormed(exec[w])
  BY <1>1 DEF BeginRun, ReadyAt, Stepping, Undoing, CanTransitionStatus,
     StatusTransitions
<1>3. /\ pc'[w] \in {"renew", "save"} /\ Stage(w)' = "resume"
      /\ exec[w] \in Records /\ exec'[w] \in Records
      /\ WithStatus(exec[w], exec'[w], "RUNNING")
      /\ result'[w] = result[w]
  BY <1>2, ExecAdvances DEF BeginRun, StepStatus, Status, Continuations
<1>4. cur'[w] = cur[w] /\ failedAt'[w] = failedAt[w]
      /\ attempt'[w] = attempt[w]
  BY <1>1 DEF BeginRun, TypeInv, TypeOK, ControlTypes, HandTypes
<1>5. ReadyAt(Stage(w)', exec'[w], cur'[w], failedAt'[w],
         attempt'[w]) /\ Unattempted(exec'[w])
  BY <1>1, <1>3, <1>4, BeginReady DEF BeginRun, TypeInv, TypeOK, ControlTypes,
     HandTypes, ReadyAt
<1> QED
  BY <1>3, <1>5 DEF BeginRun, Sound, Ready, ShapeInv, NoEnginePanic, outside

\* resumeRunning's last transition (execute.go:249-254).
LEMMA FinishRunSound ==
  ASSUME TypeInv, ShapeInv, NEW w \in Workers, FinishRun(w)
  PROVE  Sound(w)
<1>1. ReadyAt("forward", exec[w], cur[w], failedAt[w], attempt[w])
  BY DEF FinishRun, ShapeInv, Ready, Stage, At
<1>2. CanTransitionStatus(exec[w].status, "COMPLETED")
  BY <1>1 DEF FinishRun, ReadyAt, Stepping, Undoing, CanTransitionStatus,
     StatusTransitions
<1>3. /\ pc'[w] \in {"renew", "save"} /\ Stage(w)' = "release"
      /\ exec[w] \in Records /\ exec'[w] \in Records
      /\ WithStatus(exec[w], exec'[w], "COMPLETED")
      /\ result'[w] = result[w]
  BY <1>2, ExecAdvances DEF FinishRun, StepStatus, Status, Continuations
<1>4. cur'[w] = cur[w] /\ failedAt'[w] = failedAt[w]
      /\ attempt'[w] = attempt[w]
  BY <1>1 DEF FinishRun, TypeInv, TypeOK, ControlTypes, HandTypes
<1>5. ReadyAt(Stage(w)', exec'[w], cur'[w], failedAt'[w],
         attempt'[w]) /\ Unattempted(exec'[w])
  BY <1>1, <1>3, <1>4, CompleteReady DEF FinishRun, TypeInv, TypeOK,
     ControlTypes, HandTypes
<1> QED
  BY <1>3, <1>5 DEF FinishRun, Sound, Ready, ShapeInv, NoEnginePanic, outside

\* A PENDING step is recorded RUNNING (execute.go:221-227).
LEMMA StartStepSound ==
  ASSUME TypeInv, ShapeInv, NEW w \in Workers, StartStep(w)
  PROVE  Sound(w)
<1>1. ReadyAt("forward", exec[w], cur[w], failedAt[w], attempt[w])
  BY DEF StartStep, ShapeInv, Ready, Stage, At
<1>2. CanTransitionStepStatus(exec[w].steps[cur[w]], "RUNNING")
  BY <1>1 DEF StartStep, ReadyAt, Stepping, Undoing, CanTransitionStepStatus,
     StepStatusTransitions
<1>3. /\ pc'[w] \in {"renew", "save"} /\ Stage(w)' = "attempt"
      /\ exec[w] \in Records /\ exec'[w] \in Records
      /\ WithStep(exec[w], exec'[w], cur[w], "RUNNING")
      /\ result'[w] = result[w]
  BY <1>2, StepAdvances DEF StartStep, StepStatus, Status, Continuations
<1>4. cur'[w] = cur[w] /\ failedAt'[w] = failedAt[w] /\ attempt'[w] = 0
  BY <1>1 DEF StartStep, TypeInv, TypeOK, ControlTypes, HandTypes
<1>5. ReadyAt(Stage(w)', exec'[w], cur'[w], failedAt'[w],
         attempt'[w]) /\ Unattempted(exec'[w])
  BY <1>1, <1>3, <1>4, StartReady DEF StartStep, TypeInv, TypeOK,
     ControlTypes, HandTypes
<1> QED
  BY <1>3, <1>5 DEF StartStep, Sound, Ready, ShapeInv, NoEnginePanic, outside

\* abort with nothing to undo (execute.go:393-398).
LEMMA AbortFailedSound ==
  ASSUME TypeInv, ShapeInv, NEW w \in Workers, AbortFailed(w)
  PROVE  Sound(w)
<1>1. ReadyAt("abort", exec[w], cur[w], failedAt[w], attempt[w])
  BY DEF AbortFailed, ShapeInv, Ready, Stage, At
<1>0. cur[w] \in Steps
  BY DEF TypeInv, InHand, Stage, At, Stepping, AbortFailed
<1>2. CanTransitionStatus(exec[w].status, "FAILED")
  BY <1>1, <1>0 DEF AbortFailed, ReadyAt, Stepping, Undoing,
     CanTransitionStatus, StatusTransitions
<1>3. /\ pc'[w] \in {"renew", "save"} /\ Stage(w)' = "release"
      /\ exec[w] \in Records /\ exec'[w] \in Records
      /\ WithStatus(exec[w], exec'[w], "FAILED")
      /\ result'[w] = result[w]
  BY <1>2, <1>0, ExecAdvances DEF AbortFailed, StepStatus, Status,
     Continuations
<1>4. cur'[w] = cur[w] /\ failedAt'[w] = failedAt[w]
      /\ attempt'[w] = attempt[w]
  BY <1>0 DEF AbortFailed, TypeInv, TypeOK, ControlTypes, HandTypes
<1>5. ReadyAt(Stage(w)', exec'[w], cur'[w], failedAt'[w],
         attempt'[w]) /\ Unattempted(exec'[w])
  BY <1>1, <1>3, <1>4, <1>0, AbortFailedReady DEF AbortFailed, TypeInv,
     TypeOK, ControlTypes, HandTypes
<1> QED
  BY <1>3, <1>5 DEF AbortFailed, Sound, Ready, ShapeInv, NoEnginePanic, outside

\* abort turns the saga round (execute.go:400-403).
LEMMA AbortCompensatingSound ==
  ASSUME TypeInv, ShapeInv, NEW w \in Workers, AbortCompensating(w)
  PROVE  Sound(w)
<1>1. ReadyAt("abort", exec[w], cur[w], failedAt[w], attempt[w])
  BY DEF AbortCompensating, ShapeInv, Ready, Stage, At
<1>0. cur[w] \in Steps
  BY DEF TypeInv, InHand, Stage, At, Stepping, AbortCompensating
<1>2. CanTransitionStatus(exec[w].status, "COMPENSATING")
  BY <1>1, <1>0 DEF AbortCompensating, ReadyAt, Stepping, Undoing,
     CanTransitionStatus, StatusTransitions
<1>3. /\ pc'[w] \in {"renew", "save"} /\ Stage(w)' = "rollback"
      /\ exec[w] \in Records /\ exec'[w] \in Records
      /\ WithStatus(exec[w], exec'[w], "COMPENSATING")
      /\ result'[w] = result[w]
  BY <1>2, <1>0, ExecAdvances DEF AbortCompensating, StepStatus, Status,
     Continuations
<1>4. cur'[w] = cur[w] - 1 /\ failedAt'[w] = failedAt[w]
      /\ attempt'[w] = attempt[w]
  BY <1>0 DEF AbortCompensating, TypeInv, TypeOK, ControlTypes, HandTypes
<1>5. ReadyAt(Stage(w)', exec'[w], cur'[w], failedAt'[w],
         attempt'[w]) /\ Unattempted(exec'[w])
  BY <1>1, <1>3, <1>4, <1>0, AbortCompensatingReady DEF AbortCompensating,
     TypeInv, TypeOK, ControlTypes, HandTypes
<1> QED
  BY <1>3, <1>5 DEF AbortCompensating, Sound, Ready, ShapeInv, NoEnginePanic,
     outside

\* compensate's verdict and the last transition (execute.go:455-464, 532-539).
LEMMA FinishRollbackSound ==
  ASSUME TypeInv, ShapeInv, NEW w \in Workers, FinishRollback(w)
  PROVE  Sound(w)
<1>1. ReadyAt("undo", exec[w], cur[w], failedAt[w], attempt[w])
  BY DEF FinishRollback, ShapeInv, Ready, Stage, At
<1>0. cur[w] \in 0..NSteps /\ failedAt[w] \in 0..NSteps
  BY DEF TypeInv, TypeOK, HandTypes, InHand, Stage, At, FinishRollback
<1>2. CanTransitionStatus(exec[w].status, RollbackOutcome(exec[w],
         failedAt[w]))
  BY <1>1, <1>0 DEF FinishRollback, ReadyAt, Stepping, Undoing,
     CanTransitionStatus, StatusTransitions, RollbackOutcome
<1>3. /\ pc'[w] \in {"renew", "save"} /\ Stage(w)' = "release"
      /\ exec[w] \in Records /\ exec'[w] \in Records
      /\ WithStatus(exec[w], exec'[w], RollbackOutcome(exec[w], failedAt[w]))
      /\ result'[w] = result[w]
  BY <1>2, <1>0, ExecAdvances DEF FinishRollback, StepStatus, Status,
     Continuations, RollbackOutcome
<1>4. cur'[w] = cur[w] /\ failedAt'[w] = failedAt[w]
      /\ attempt'[w] = attempt[w]
  BY <1>0 DEF FinishRollback, TypeInv, TypeOK, ControlTypes, HandTypes
<1>5. ReadyAt(Stage(w)', exec'[w], cur'[w], failedAt'[w],
         attempt'[w]) /\ Unattempted(exec'[w])
  BY <1>1, <1>3, <1>4, <1>0, SettleReady DEF FinishRollback, TypeInv, TypeOK,
     ControlTypes, HandTypes
<1> QED
  BY <1>3, <1>5 DEF FinishRollback, Sound, Ready, ShapeInv, NoEnginePanic,
     outside

\* Recording a failed step is sound wherever the attempts were left.
LEMMA FailSound ==
  ASSUME TypeInv, ShapeInv, NEW w \in Workers, pc[w] \in Stepping, FailStep(w),
         cur'[w] = cur[w], failedAt'[w] = failedAt[w],
         attempt'[w] = attempt[w], store' = store
  PROVE  Sound(w)
<1>0. cur[w] \in Steps /\ attempt[w] \in 0..MaxAttempts
  BY DEF TypeInv, TypeOK, HandTypes, InHand, Stage, Stepping
<1>1. ReadyAt(pc[w], exec[w], cur[w], failedAt[w], attempt[w])
  BY DEF ShapeInv, Ready, Stage, Stepping
<1>2. CanTransitionStepStatus(exec[w].steps[cur[w]], "FAILED")
  BY <1>1 DEF ReadyAt, CanTransitionStepStatus, StepStatusTransitions
<1>3. /\ pc'[w] \in {"renew", "save"} /\ Stage(w)' = "abort"
      /\ exec[w] \in Records /\ exec'[w] \in Records
      /\ WithStep(exec[w], exec'[w], cur[w], "FAILED")
      /\ result'[w] = result[w]
  BY <1>0, <1>2, StepAdvances DEF FailStep, StepStatus, Continuations
<1>4. ReadyAt("abort", exec'[w], cur[w], failedAt[w], attempt[w])
      /\ Unattempted(exec'[w])
  BY <1>0, <1>1, <1>3, FailReady
<1>5. ReadyAt(Stage(w)', exec'[w], cur'[w], failedAt'[w], attempt'[w])
  BY <1>3, <1>4
<1> QED
  BY <1>3, <1>4, <1>5 DEF Sound, Ready, ShapeInv, NoEnginePanic

\* runStep gives up before an attempt (execute.go:287-289, 234-240).
LEMMA GiveUpStepSound ==
  ASSUME TypeInv, ShapeInv, NEW w \in Workers, GiveUpStep(w)
  PROVE  Sound(w)
BY FailSound DEF GiveUpStep, At, Stepping, outside

\* runStep weighs what the Action returned (execute.go:294-312).
LEMMA ActionReturnsSound ==
  ASSUME TypeInv, ShapeInv, NEW w \in Workers, ActionReturns(w)
  PROVE  Sound(w)
<1>0. cur[w] \in Steps /\ attempt[w] \in 0..MaxAttempts /\ pc[w] = "acting"
  BY DEF TypeInv, TypeOK, HandTypes, InHand, Stage, Stepping, ActionReturns, At
<1>1. ReadyAt("acting", exec[w], cur[w], failedAt[w], attempt[w])
  BY <1>0 DEF ShapeInv, Ready, Stage
<1>2. /\ failedAt'[w] = failedAt[w] /\ attempt'[w] = attempt[w]
      /\ store' = store
  BY DEF ActionReturns, outside
<1>3. CASE /\ TransitionStep(w, cur[w], "SUCCEEDED", "forward")
           /\ cur' = [cur EXCEPT ![w] = @ + 1]
  <2>1. CanTransitionStepStatus(exec[w].steps[cur[w]], "SUCCEEDED")
    BY <1>1 DEF ReadyAt, Stepping, CanTransitionStepStatus,
       StepStatusTransitions
  <2>2. /\ pc'[w] \in {"renew", "save"} /\ Stage(w)' = "forward"
        /\ exec[w] \in Records /\ exec'[w] \in Records
        /\ WithStep(exec[w], exec'[w], cur[w], "SUCCEEDED")
        /\ result'[w] = result[w]
    BY <1>0, <1>3, <2>1, StepAdvances DEF StepStatus, Continuations
  <2>3. ReadyAt("forward", exec'[w], cur[w] + 1, failedAt[w], attempt[w])
        /\ Unattempted(exec'[w])
    BY <1>0, <1>1, <2>2, SucceedReady
  <2>4. cur'[w] = cur[w] + 1
    BY <1>3 DEF TypeInv, TypeOK, HandTypes
  <2>5. ReadyAt(Stage(w)', exec'[w], cur'[w], failedAt'[w], attempt'[w])
    BY <1>2, <2>2, <2>3, <2>4
  <2> QED
    BY <1>2, <2>2, <2>3, <2>5 DEF Sound, Ready, ShapeInv, NoEnginePanic
<1>4. CASE Goto(w, "backoff") /\ UNCHANGED <<next, exec, result, cur>>
  <2>1. Stage(w)' = "backoff" /\ pc'[w] = "backoff"
    BY <1>4 DEF Goto, Stage, TypeInv, TypeOK, ControlTypes
  <2>2. ReadyAt("backoff", exec[w], cur[w], failedAt[w], attempt[w])
    BY <1>1 DEF ReadyAt, Stepping, Undoing
  <2> QED
    BY <1>2, <1>4, <2>1, <2>2 DEF Sound, Ready, ShapeInv, NoEnginePanic
<1>5. CASE FailStep(w) /\ UNCHANGED cur
  BY <1>0, <1>2, <1>5, FailSound DEF Stepping
<1> QED
  BY <1>3, <1>4, <1>5 DEF ActionReturns

\* sleepOrDone between two attempts (execute.go:360-377).
LEMMA BackoffSound ==
  ASSUME TypeInv, ShapeInv, NEW w \in Workers, Backoff(w)
  PROVE  Sound(w)
<1>1. CASE Goto(w, "attempt") /\ UNCHANGED <<next, exec, result>>
  <2>1. ReadyAt("backoff", exec[w], cur[w], failedAt[w], attempt[w])
    BY DEF ShapeInv, Ready, Stage, Backoff, At
  <2>2. ReadyAt("attempt", exec[w], cur[w], failedAt[w], attempt[w])
    BY <2>1 DEF ReadyAt, Stepping, Undoing
  <2>3. Stage(w)' = "attempt" /\ pc'[w] = "attempt"
    BY <1>1 DEF Goto, Stage, TypeInv, TypeOK, ControlTypes
  <2> QED
    BY <1>1, <2>2, <2>3 DEF Backoff, outside, Sound, Ready, ShapeInv,
       NoEnginePanic
<1>2. CASE FailStep(w)
  BY <1>2, FailSound DEF Backoff, At, Stepping, outside
<1> QED
  BY <1>1, <1>2 DEF Backoff

\* compensate takes up a step (execute.go:499-518).
LEMMA UndoStepSound ==
  ASSUME TypeInv, ShapeInv, NEW w \in Workers, UndoStep(w)
  PROVE  Sound(w)
<1>0. cur[w] \in 0..NSteps /\ failedAt[w] \in 0..NSteps /\ exec[w] \in Records
  BY DEF TypeInv, TypeOK, HandTypes, InHand, Stage, At, UndoStep
<1>1. ReadyAt("undo", exec[w], cur[w], failedAt[w], attempt[w])
  BY DEF ShapeInv, Ready, Stage, UndoStep, At
<1>2. PICK i \in Steps :
        /\ IsNextUndo(w, i)
        /\ cur' = [cur EXCEPT ![w] = i]
        /\ IF exec[w].steps[i] = "SUCCEEDED"
           THEN TransitionStep(w, i, "COMPENSATING", "compensate")
           ELSE Goto(w, "compensate") /\ UNCHANGED <<next, exec, result>>
  BY DEF UndoStep
<1>3. /\ cur'[w] = i /\ failedAt'[w] = failedAt[w]
      /\ attempt'[w] = attempt[w] /\ store' = store
  BY <1>2 DEF UndoStep, outside, TypeInv, TypeOK, HandTypes
<1>4. /\ i \in Undoable(exec[w], cur[w])
      /\ \A k \in Undoable(exec[w], cur[w]) : k <= i
  BY <1>2 DEF IsNextUndo
<1>5. CASE exec[w].steps[i] = "SUCCEEDED"
  <2>1. CanTransitionStepStatus(exec[w].steps[i], "COMPENSATING")
    BY <1>5 DEF CanTransitionStepStatus, StepStatusTransitions
  <2>2. /\ pc'[w] \in {"renew", "save"} /\ Stage(w)' = "compensate"
        /\ exec'[w] \in Records
        /\ WithStep(exec[w], exec'[w], i, "COMPENSATING")
        /\ result'[w] = result[w]
    BY <1>2, <1>5, <2>1, StepAdvances DEF StepStatus, Continuations
  <2>3. ReadyAt("compensate", exec'[w], i, failedAt[w], attempt[w])
        /\ Unattempted(exec'[w])
    BY <1>0, <1>1, <1>4, <1>5, <2>2, UndoReady
  <2> QED
    BY <1>3, <2>2, <2>3 DEF Sound, Ready, ShapeInv, NoEnginePanic
<1>6. CASE exec[w].steps[i] # "SUCCEEDED"
  <2>1. /\ pc'[w] = "compensate" /\ Stage(w)' = "compensate"
        /\ exec' = exec /\ result' = result
    BY <1>2, <1>6 DEF Goto, Stage, TypeInv, TypeOK, ControlTypes
  <2>2. ReadyAt("compensate", exec[w], i, failedAt[w], attempt[w])
    BY <1>0, <1>1, <1>4, <1>6, UndoAgainReady
  <2> QED
    BY <1>3, <2>1, <2>2 DEF Sound, Ready, ShapeInv, NoEnginePanic
<1> QED
  BY <1>5, <1>6

\* compensate records what Compensate returned (execute.go:520-530).
LEMMA UndoReturnsSound ==
  ASSUME TypeInv, ShapeInv, NEW w \in Workers, UndoReturns(w)
  PROVE  Sound(w)
<1>0. cur[w] \in Steps /\ failedAt[w] \in 0..NSteps
  BY DEF TypeInv, TypeOK, HandTypes, InHand, Stage, At, UndoReturns
<1>1. ReadyAt("undoing", exec[w], cur[w], failedAt[w], attempt[w])
  BY DEF ShapeInv, Ready, Stage, UndoReturns, At
<1>2. PICK s \in {"COMPENSATED", "COMPENSATION_FAILED"} :
        TransitionStep(w, cur[w], s, "undo")
  BY DEF UndoReturns
<1>3. /\ cur'[w] = cur[w] - 1 /\ failedAt'[w] = failedAt[w]
      /\ attempt'[w] = attempt[w] /\ store' = store
  BY DEF UndoReturns, outside, TypeInv, TypeOK, HandTypes
<1>4. CanTransitionStepStatus(exec[w].steps[cur[w]], s)
  BY <1>1 DEF ReadyAt, CanTransitionStepStatus, StepStatusTransitions
<1>5. /\ pc'[w] \in {"renew", "save"} /\ Stage(w)' = "undo"
      /\ exec[w] \in Records /\ exec'[w] \in Records
      /\ WithStep(exec[w], exec'[w], cur[w], s)
      /\ result'[w] = result[w]
  BY <1>0, <1>2, <1>4, StepAdvances DEF StepStatus, Continuations
<1>6. ReadyAt("undo", exec'[w], cur[w] - 1, failedAt[w], attempt[w])
      /\ Unattempted(exec'[w])
  BY <1>0, <1>1, <1>5, UndoneReady
<1> QED
  BY <1>3, <1>5, <1>6 DEF Sound, Ready, ShapeInv, NoEnginePanic

\* resumeRunning finds a FAILED step (execute.go:196-200).
LEMMA ResumeFailedStepSound ==
  ASSUME TypeInv, ShapeInv, NEW w \in Workers, ResumeFailedStep(w)
  PROVE  Sound(w)
<1>1. /\ ReadyAt("resume", exec[w], cur[w], failedAt[w], attempt[w])
      /\ exec[w].status = "RUNNING" /\ exec[w] \in Records
  BY DEF ShapeInv, Ready, Stage, At, ResumeFailedStep, TypeInv, TypeOK,
     HandTypes
<1>2. PICK i \in Steps : IsFirstFailed(exec[w], i) /\ cur'[w] = i
  BY DEF ResumeFailedStep, TypeInv, TypeOK, HandTypes
<1>3. WellFormed(exec[w]) /\ Unattempted(exec[w])
  BY <1>1 DEF ReadyAt, Stepping
<1>4. IsFrontier(exec[w], i)
  <2>1. ASSUME NEW j \in 1..(i - 1)
        PROVE  exec[w].steps[j] = "SUCCEEDED"
    <3>1. j \in Steps /\ j < i
      OBVIOUS
    <3>2. Reached(exec[w].steps[j])
      BY <1>2, <1>3, <3>1 DEF WellFormed, Sequential, IsFirstFailed
    <3>3. ~InCompensation(exec[w].steps[j])
      BY <1>1, <1>3, <3>1 DEF WellFormed, ForwardOnly, RollingBack
    <3> QED
      BY <3>2, <3>3 DEF Reached, InCompensation, Settled
  <2> QED
    BY <2>1, <1>2 DEF IsFrontier, IsFirstFailed
<1>5. ReadyAt("abort", exec[w], i, failedAt[w], attempt[w])
  BY <1>1, <1>3, <1>4 DEF ReadyAt, Stepping, Undoing
<1>6. /\ Stage(w)' = "abort" /\ pc'[w] = "abort" /\ exec' = exec
      /\ failedAt' = failedAt /\ attempt' = attempt /\ result' = result
      /\ store' = store
  BY DEF ResumeFailedStep, Goto, Stage, outside, TypeInv, TypeOK, ControlTypes
<1> QED
  BY <1>2, <1>5, <1>6 DEF Sound, Ready, ShapeInv, NoEnginePanic

\* resumeRunning looks for where to go on (execute.go:203-210).
LEMMA ResumeForwardSound ==
  ASSUME TypeInv, ShapeInv, NEW w \in Workers, ResumeForward(w)
  PROVE  Sound(w)
<1>1. ReadyAt("resume", exec[w], cur[w], failedAt[w], attempt[w])
  BY DEF ShapeInv, Ready, Stage, At, ResumeForward
<1>2. Stage(w)' = "forward" /\ pc'[w] = "forward"
  BY DEF ResumeForward, Goto, Finish, Stage, TypeInv, TypeOK, ControlTypes,
     HandTypes
<1>3. ReadyAt("forward", exec'[w], cur'[w], failedAt'[w], attempt'[w])
  BY <1>1 DEF ResumeForward, outside, locals, TypeInv, TypeOK, ControlTypes,
     HandTypes, ReadyAt, Stepping, Undoing, IsFrontier
<1> QED
  BY <1>2, <1>3 DEF ResumeForward, Finish, outside, locals, ghosts, Sound,
     Ready, ShapeInv, NoEnginePanic, TypeInv, TypeOK, ControlTypes

\* resumeCompensating rebuilds failedAt (execute.go:421-433).
LEMMA ResumeCompensatingSound ==
  ASSUME TypeInv, ShapeInv, NEW w \in Workers, ResumeCompensating(w)
  PROVE  Sound(w)
<1>1. ReadyAt("resume", exec[w], cur[w], failedAt[w], attempt[w])
  BY DEF ShapeInv, Ready, Stage, At, ResumeCompensating
<1>2. Stage(w)' = "rollback" /\ pc'[w] = "rollback"
  BY DEF ResumeCompensating, Goto, Finish, Stage, TypeInv, TypeOK,
     ControlTypes, HandTypes
<1>3. ReadyAt("rollback", exec'[w], cur'[w], failedAt'[w], attempt'[w])
  BY <1>1 DEF ResumeCompensating, outside, locals, TypeInv, TypeOK,
     ControlTypes, HandTypes, ReadyAt, Stepping, Undoing, IsFailedAt,
     WellFormed, Truthful, RollingBack, Reached
<1> QED
  BY <1>2, <1>3 DEF ResumeCompensating, Finish, outside, locals, ghosts,
     Sound, Ready, ShapeInv, NoEnginePanic, TypeInv, TypeOK, ControlTypes

\* The context ended between two steps (execute.go:214-218).
LEMMA StopForwardSound ==
  ASSUME TypeInv, ShapeInv, NEW w \in Workers, StopForward(w)
  PROVE  Sound(w)
<1>1. ReadyAt("forward", exec[w], cur[w], failedAt[w], attempt[w])
  BY DEF ShapeInv, Ready, Stage, At, StopForward
<1>2. Stage(w)' = "abort" /\ pc'[w] = "abort"
  BY DEF StopForward, Goto, Finish, Stage, TypeInv, TypeOK, ControlTypes,
     HandTypes
<1>3. ReadyAt("abort", exec'[w], cur'[w], failedAt'[w], attempt'[w])
  BY <1>1 DEF StopForward, outside, locals, TypeInv, TypeOK, ControlTypes,
     HandTypes, ReadyAt, Stepping, Undoing, IsFrontier
<1> QED
  BY <1>2, <1>3 DEF StopForward, Finish, outside, locals, ghosts, Sound,
     Ready, ShapeInv, NoEnginePanic, TypeInv, TypeOK, ControlTypes

\* A step found RUNNING is run again (execute.go:228-233).
LEMMA RetryInterruptedStepSound ==
  ASSUME TypeInv, ShapeInv, NEW w \in Workers, RetryInterruptedStep(w)
  PROVE  Sound(w)
<1>1. /\ ReadyAt("forward", exec[w], cur[w], failedAt[w], attempt[w])
      /\ cur[w] \in Steps /\ exec[w] \in Records
      /\ exec[w].steps[cur[w]] # "PENDING"
  BY DEF ShapeInv, Ready, Stage, At, RetryInterruptedStep, TypeInv, TypeOK,
     HandTypes
<1>2. /\ WellFormed(exec[w]) /\ Unattempted(exec[w])
      /\ exec[w].status = "RUNNING" /\ IsFrontier(exec[w], cur[w])
      /\ exec[w].steps[cur[w]] # "FAILED"
  BY <1>1 DEF ReadyAt, Stepping
<1>3. exec[w].steps[cur[w]] \in StepStatus
  BY <1>1 DEF Records
<1>4. exec[w].steps[cur[w]] # "SUCCEEDED"
  BY <1>1, <1>2 DEF IsFrontier
<1>5. ~InCompensation(exec[w].steps[cur[w]])
  BY <1>1, <1>2 DEF WellFormed, ForwardOnly, RollingBack
<1>6. exec[w].steps[cur[w]] = "RUNNING"
  BY <1>1, <1>2, <1>3, <1>4, <1>5 DEF StepStatus, InCompensation, Settled
<1>7. ReadyAt("attempt", exec[w], cur[w], failedAt[w], 0)
  BY <1>1, <1>2, <1>6 DEF ReadyAt, Stepping, Undoing, Unattempted
<1>8. /\ Stage(w)' = "attempt" /\ pc'[w] = "attempt" /\ exec' = exec
      /\ cur' = cur /\ failedAt' = failedAt /\ attempt'[w] = 0
      /\ result' = result /\ store' = store
  BY DEF RetryInterruptedStep, Goto, Stage, outside, TypeInv, TypeOK,
     ControlTypes, HandTypes
<1> QED
  BY <1>7, <1>8 DEF Sound, Ready, ShapeInv, NoEnginePanic

\* finishCompensating begins (execute.go:441-449).
LEMMA RollbackSound ==
  ASSUME TypeInv, ShapeInv, NEW w \in Workers, Rollback(w)
  PROVE  Sound(w)
<1>1. ReadyAt("rollback", exec[w], cur[w], failedAt[w], attempt[w])
  BY DEF ShapeInv, Ready, Stage, At, Rollback
<1>2. Stage(w)' = "undo" /\ pc'[w] = "undo"
  BY DEF Rollback, Goto, Finish, Stage, TypeInv, TypeOK, ControlTypes,
     HandTypes
<1>3. ReadyAt("undo", exec'[w], cur'[w], failedAt'[w], attempt'[w])
  BY <1>1 DEF Rollback, outside, locals, TypeInv, TypeOK, ControlTypes,
     HandTypes, ReadyAt, Stepping, Undoing, IsFailedAt
<1> QED
  BY <1>2, <1>3 DEF Rollback, Finish, outside, locals, ghosts, Sound, Ready,
     ShapeInv, NoEnginePanic, TypeInv, TypeOK, ControlTypes

\* invokeCompensate (execute.go:544-549).
LEMMA InvokeCompensateSound ==
  ASSUME TypeInv, ShapeInv, NEW w \in Workers, InvokeCompensate(w)
  PROVE  Sound(w)
<1>1. ReadyAt("compensate", exec[w], cur[w], failedAt[w], attempt[w])
  BY DEF ShapeInv, Ready, Stage, At, InvokeCompensate
<1>2. Stage(w)' = "undoing" /\ pc'[w] = "undoing"
  BY DEF InvokeCompensate, Goto, Finish, Stage, TypeInv, TypeOK, ControlTypes,
     HandTypes
<1>3. ReadyAt("undoing", exec'[w], cur'[w], failedAt'[w], attempt'[w])
  BY <1>1 DEF InvokeCompensate, outside, locals, TypeInv, TypeOK,
     ControlTypes, HandTypes, ReadyAt, Stepping, Undoing
<1> QED
  BY <1>2, <1>3 DEF InvokeCompensate, Finish, outside, locals, ghosts, Sound,
     Ready, ShapeInv, NoEnginePanic, TypeInv, TypeOK, ControlTypes

-------------------------------------------------------------------------------
(***************************************************************************)
(* Steps at which a call begins, talks to the store or ends.               *)
(***************************************************************************)

\* A call in progress always has a well-formed copy.
LEMMA LiveIsWellFormed ==
  ASSUME TypeInv, ShapeInv, NEW w \in Workers, pc[w] # "idle"
  PROVE  WellFormed(exec[w])
<1>1. Stage(w) # "idle"
  BY DEF TypeInv, InHand, Stage, Continuations
<1> QED
  BY <1>1 DEF ShapeInv, Ready, ReadyAt

\* A call can end anywhere, as long as no transition was refused.
LEMMA EndIsReady ==
  ASSUME TypeInv, ShapeInv, NEW w \in Workers, pc[w] # "idle",
         NEW res, res # "enginePanic", Finish(w, res), UNCHANGED exec
  PROVE  Ready(w)' /\ result'[w] # "enginePanic"
<1>1. pc'[w] = "release" /\ Stage(w)' = "release" /\ result'[w] = res
  BY DEF Finish, Goto, Stage, TypeInv, TypeOK, ControlTypes
<1>2. WellFormed(exec'[w])
  BY LiveIsWellFormed
<1> QED
  BY <1>1, <1>2 DEF Ready, ReadyAt, Stepping, Undoing

\* The next call of a worker starts from nothing (the deferred Release or a
\* crash came before).
LEMMA ForgottenIsReady ==
  ASSUME TypeInv, NEW w \in Workers, Goto(w, "idle"), Forget(w)
  PROVE  Ready(w)' /\ result'[w] # "enginePanic"
<1>1. /\ pc'[w] = "idle" /\ Stage(w)' = "idle" /\ exec'[w] = Absent
      /\ result'[w] = "none"
  BY DEF Goto, Forget, Stage, TypeInv, TypeOK, ControlTypes, HandTypes
<1>2. Unattempted(Absent)
  BY DEF Unattempted, Absent
<1> QED
  BY <1>1, <1>2 DEF Ready, ReadyAt, Stepping, Undoing

\* Execute builds the record (execute.go:80-95).
LEMMA ExecuteSound ==
  ASSUME TypeInv, ShapeInv, NEW w \in Workers, Execute(w)
  PROVE  Sound(w)
<1>1. /\ pc'[w] = "create" /\ Stage(w)' = "create"
      /\ exec'[w] = NewExecution /\ result' = result /\ store' = store
  BY DEF Execute, Goto, Stage, outside, TypeInv, TypeOK, ControlTypes,
     HandTypes
<1>2. ReadyAt("create", NewExecution, cur'[w], failedAt'[w], attempt'[w])
  BY NewIsReady DEF ReadyAt, Stepping, Undoing
<1> QED
  BY <1>1, <1>2 DEF Sound, Ready, ShapeInv, NoEnginePanic

\* Execute's first Save (execute.go:100-104).
LEMMA SaveInitialSound ==
  ASSUME TypeInv, ShapeInv, NEW w \in Workers, SaveInitial(w)
  PROVE  Sound(w)
<1>1. /\ pc[w] = "create"
      /\ ReadyAt("create", exec[w], cur[w], failedAt[w], attempt[w])
  BY DEF SaveInitial, At, ShapeInv, Ready, Stage
<1>2. WellFormed(exec[w]) /\ Unattempted(exec[w])
  BY <1>1 DEF ReadyAt, Stepping
<1>3. store' = store \/ store' = exec[w]
  BY DEF SaveInitial, WriteFails, Put
<1>4. CASE Goto(w, "acquire") /\ UNCHANGED locals
  <2>1. pc'[w] = "acquire" /\ Stage(w)' = "acquire"
    BY <1>4 DEF Goto, Stage, TypeInv, TypeOK, ControlTypes
  <2>2. ReadyAt("acquire", exec[w], cur[w], failedAt[w], attempt[w])
    BY <1>1 DEF ReadyAt, Stepping, Undoing
  <2>3. /\ cur' = cur /\ failedAt' = failedAt /\ attempt' = attempt
        /\ exec' = exec /\ result' = result
    BY <1>4 DEF locals
  <2> QED
    BY <1>1, <1>2, <1>3, <1>4, <2>1, <2>2, <2>3 DEF Sound, Ready, ShapeInv,
       NoEnginePanic
<1>5. CASE Leave(w)
  BY <1>2, <1>3, <1>5, ForgottenIsReady DEF Leave, Sound
<1> QED
  BY <1>4, <1>5 DEF SaveInitial

\* Recover lists and filters (recovery.go:124-155).
LEMMA RecoverSound ==
  ASSUME TypeInv, ShapeInv, NEW w \in Workers, Recover(w)
  PROVE  Sound(w)
<1>1. /\ pc[w] = "idle" /\ store' = store /\ result' = result
      /\ cur' = cur /\ failedAt' = failedAt /\ attempt' = attempt
      /\ next' = next
  BY DEF Recover, At
<1>2. CASE /\ IsIncomplete(store) /\ Goto(w, "acquire")
           /\ exec' = [exec EXCEPT ![w] = store]
  <2>1. /\ pc'[w] = "acquire" /\ Stage(w)' = "acquire"
        /\ exec'[w] = store
    BY <1>2 DEF Goto, Stage, TypeInv, TypeOK, ControlTypes, HandTypes
  <2>2. /\ WellFormed(store) /\ Unattempted(store)
        /\ ~IsTerminal(store.status)
    BY <1>2 DEF IsIncomplete, ShapeInv, RecordShape
  <2>3. ReadyAt("acquire", store, cur[w], failedAt[w], attempt[w])
    BY <2>2 DEF ReadyAt, Stepping, Undoing
  <2> QED
    BY <1>1, <2>1, <2>3 DEF Sound, Ready, ShapeInv, NoEnginePanic
<1>3. CASE UNCHANGED <<pc, exec>>
  <2>1. Stage(w)' = Stage(w)
    BY <1>1, <1>3 DEF Stage
  <2> QED
    BY <1>1, <1>3, <2>1 DEF Sound, Ready, ShapeInv, NoEnginePanic
<1> QED
  BY <1>2, <1>3 DEF Recover

\* resume takes the lease (execute.go:140-155).
LEMMA AcquireLeaseSound ==
  ASSUME TypeInv, ShapeInv, NEW w \in Workers, AcquireLease(w)
  PROVE  Sound(w)
<1>1. /\ pc[w] = "acquire" /\ store' = store
      /\ ReadyAt("acquire", exec[w], cur[w], failedAt[w], attempt[w])
  BY DEF AcquireLease, At, ShapeInv, Ready, Stage
<1>2. CASE Goto(w, "resume") /\ UNCHANGED locals
  <2>1. pc'[w] = "resume" /\ Stage(w)' = "resume"
    BY <1>2 DEF Goto, Stage, TypeInv, TypeOK, ControlTypes
  <2>2. ReadyAt("resume", exec[w], cur[w], failedAt[w], attempt[w])
    BY <1>1 DEF ReadyAt, Stepping, Undoing
  <2>3. /\ cur' = cur /\ failedAt' = failedAt /\ attempt' = attempt
        /\ exec' = exec /\ result' = result
    BY <1>2 DEF locals
  <2> QED
    BY <1>1, <2>1, <2>2, <2>3 DEF Sound, Ready, ShapeInv, NoEnginePanic
<1>3. CASE Leave(w)
  BY <1>1, <1>3, ForgottenIsReady DEF Leave, Sound
<1> QED
  BY <1>2, <1>3 DEF AcquireLease

\* runStep begins an attempt (execute.go:286-292).
LEMMA InvokeSound ==
  ASSUME TypeInv, ShapeInv, NEW w \in Workers, Invoke(w)
  PROVE  Sound(w)
<1>1. /\ ReadyAt("attempt", exec[w], cur[w], failedAt[w], attempt[w])
      /\ cur[w] \in Steps /\ attempt[w] \in Nat /\ attempt[w] < MaxAttempts
      /\ exec[w] \in Records
  BY DEF Invoke, At, ShapeInv, Ready, Stage, TypeInv, TypeOK, HandTypes,
     InHand, Stepping
<1>2. /\ exec'[w] = [exec[w] EXCEPT !.attempts[cur[w]] = @ + 1]
      /\ attempt'[w] = attempt[w] + 1
      /\ pc'[w] = "acting" /\ Stage(w)' = "acting"
      /\ cur' = cur /\ failedAt' = failedAt /\ result' = result
      /\ store' = store
  BY <1>1 DEF Invoke, Goto, Stage, TypeInv, TypeOK, ControlTypes, HandTypes
<1>3. exec'[w] \in Records /\ WithAttempt(exec[w], exec'[w], cur[w])
  <2> DEFINE r == exec[w]
             i == cur[w]
  <2>1. r \in Records /\ i \in Steps
    BY <1>1
  <2>2. exec'[w] = [r EXCEPT !.attempts[i] = @ + 1]
    BY <1>2
  <2> HIDE DEF r, i
  <2>3. exec'[w] \in Records /\ WithAttempt(r, exec'[w], i)
    BY <2>1, <2>2, AttemptsUpdate DEF WithAttempt
  <2> QED
    BY <2>3 DEF r, i
<1>4. ReadyAt("acting", exec'[w], cur[w], failedAt[w], attempt[w] + 1)
  BY <1>1, <1>3, InvokeReady
<1> QED
  BY <1>2, <1>4 DEF Sound, Ready, ShapeInv, NoEnginePanic

\* save renews the lease (execute.go:590-598).
LEMMA RenewLeaseSound ==
  ASSUME TypeInv, ShapeInv, NEW w \in Workers, RenewLease(w)
  PROVE  Sound(w)
<1>1. /\ pc[w] = "renew" /\ exec' = exec /\ store' = store
      /\ next' = next
      /\ cur' = cur /\ failedAt' = failedAt /\ attempt' = attempt
  BY DEF RenewLease, At
<1>2. CASE Goto(w, "save") /\ UNCHANGED result
  <2>1. pc'[w] = "save" /\ Stage(w)' = Stage(w)
    BY <1>1, <1>2 DEF Goto, Stage, TypeInv, TypeOK, ControlTypes
  <2> QED
    BY <1>1, <1>2, <2>1 DEF Sound, Ready, ShapeInv, NoEnginePanic
<1>3. CASE Finish(w, "locked") \/ Finish(w, "error")
  BY <1>1, <1>3, EndIsReady DEF Sound
<1> QED
  BY <1>2, <1>3 DEF RenewLease

\* save writes the record (execute.go:599-602).
LEMMA SaveSound ==
  ASSUME TypeInv, ShapeInv, NEW w \in Workers, Save(w)
  PROVE  Sound(w)
<1>1. /\ pc[w] = "save" /\ exec' = exec /\ next' = next
      /\ cur' = cur /\ failedAt' = failedAt /\ attempt' = attempt
  BY DEF Save, At
<1>2. store' = store
        \/ (store' = exec[w] /\ WellFormed(store') /\ Unattempted(store'))
  BY <1>1, LiveIsWellFormed DEF Save, WriteFails, Put, ShapeInv, Ready
<1>3. CASE Goto(w, "notify") /\ UNCHANGED result
  <2>1. pc'[w] = "notify" /\ Stage(w)' = Stage(w)
    BY <1>1, <1>3 DEF Goto, Stage, TypeInv, TypeOK, ControlTypes
  <2> QED
    BY <1>1, <1>2, <1>3, <2>1 DEF Sound, Ready, ShapeInv, NoEnginePanic
<1>4. CASE Finish(w, "error")
  BY <1>1, <1>2, <1>4, EndIsReady DEF Sound
<1> QED
  BY <1>3, <1>4 DEF Save

\* notifyExec and notifyStep (execute.go:622-644).
LEMMA NotifySound ==
  ASSUME TypeInv, ShapeInv, NEW w \in Workers, Notify(w)
  PROVE  Sound(w)
<1>1. /\ pc[w] = "notify" /\ exec' = exec /\ store' = store
      /\ next' = next
      /\ cur' = cur /\ failedAt' = failedAt /\ attempt' = attempt
  BY DEF Notify, At
<1>2. CASE Finish(w, "ok") \/ Finish(w, "failed")
  BY <1>1, <1>2, EndIsReady DEF Sound
<1>3. CASE Goto(w, next[w]) /\ UNCHANGED result
  <2>1. pc'[w] = next[w] /\ next[w] \in Continuations
    BY <1>1, <1>3 DEF Goto, TypeInv, TypeOK, ControlTypes, InHand
  <2>2. Stage(w)' = Stage(w) /\ pc'[w] \notin {"renew", "save", "notify"}
    BY <1>1, <2>1 DEF Stage, Continuations
  <2> QED
    BY <1>1, <1>3, <2>2 DEF Sound, Ready, ShapeInv, NoEnginePanic
<1> QED
  BY <1>2, <1>3 DEF Notify

\* The deferred Release (execute.go:152-154).
LEMMA ReleaseSound ==
  ASSUME TypeInv, ShapeInv, NEW w \in Workers, Release(w)
  PROVE  Sound(w)
BY ForgottenIsReady DEF Release, Sound

\* A process dies between any two steps (execute.go:120-130).
LEMMA CrashSound ==
  ASSUME TypeInv, ShapeInv, NEW w \in Workers, Crash(w)
  PROVE  Sound(w)
BY ForgottenIsReady DEF Crash, Sound

\* What downstream does, and the end of a context, touch no copy.
LEMMA DownstreamSound ==
  ASSUME TypeInv, ShapeInv, NEW w \in Workers,
         ActionApplies(w) \/ UndoApplies(w) \/ ContextEnds(w)
  PROVE  Sound(w)
<1>1. /\ pc' = pc /\ next' = next /\ exec' = exec /\ cur' = cur
      /\ failedAt' = failedAt /\ attempt' = attempt /\ result' = result
      /\ store' = store
  BY DEF ActionApplies, UndoApplies, ContextEnds, locals, outside
<1> QED
  BY <1>1 DEF Stage, Sound, Ready, ShapeInv, NoEnginePanic

\* User code or an observer panics through the engine (execute.go:333, 548,
\* 684, 698).
LEMMA PanicSound ==
  ASSUME TypeInv, ShapeInv, NEW w \in Workers,
         PanicInStep(w) \/ PanicInObserver(w)
  PROVE  Sound(w)
<1>1. /\ pc[w] # "idle" /\ exec' = exec /\ store' = store
      /\ Finish(w, "userPanic")
  BY DEF PanicInStep, PanicInObserver, At
<1> QED
  BY <1>1, EndIsReady DEF Sound

-------------------------------------------------------------------------------
(***************************************************************************)
(* The invariant.                                                          *)
(***************************************************************************)
\* All of them together.
LEMMA WorkerSound ==
  ASSUME TypeInv, ShapeInv, NEW w \in Workers, WorkerStep(w)
  PROVE  Sound(w)
BY ExecuteSound, SaveInitialSound, RecoverSound, AcquireLeaseSound,
   BeginRunSound, ResumeFailedStepSound, ResumeForwardSound,
   ResumeCompensatingSound, FinishRunSound, StopForwardSound, StartStepSound,
   RetryInterruptedStepSound, InvokeSound, GiveUpStepSound,
   ActionReturnsSound, BackoffSound, AbortFailedSound, AbortCompensatingSound,
   RollbackSound, UndoStepSound, InvokeCompensateSound, UndoReturnsSound,
   FinishRollbackSound, RenewLeaseSound, SaveSound, NotifySound, ReleaseSound,
   CrashSound, DownstreamSound, PanicSound DEF WorkerStep, Engine, Downstream,
   Environment

\* A worker that does not move stays ready: readiness is about its own copy.
LEMMA ReadyFramed ==
  ASSUME NEW v \in Workers, Same(v), Ready(v), result[v] # "enginePanic"
  PROVE  Ready(v)' /\ result'[v] # "enginePanic"
BY DEF Same, Ready, Stage

\* Nothing is saved at first, and no call is in progress.
LEMMA ShapeInit == ASSUME Init PROVE ShapeInv
<1>1. Unattempted(Absent)
  BY DEF Unattempted, Absent
<1>2. ASSUME NEW w \in Workers PROVE Ready(w)
  <2>1. Stage(w) = "idle" /\ exec[w] = Absent /\ pc[w] = "idle"
    BY DEF Init, Stage
  <2> QED
    BY <1>1, <2>1 DEF Ready, ReadyAt, Stepping, Undoing
<1> QED
  BY <1>1, <1>2 DEF Init, ShapeInv, RecordShape, NoEnginePanic

\* One worker moves at a time, and the store receives a copy or nothing.
LEMMA ShapeNext ==
  ASSUME TypeInv, ShapeInv, [Next]_vars
  PROVE  ShapeInv'
<1>1. ASSUME NEW w \in Workers, WorkerStep(w)
      PROVE  ShapeInv'
  <2>1. Sound(w) /\ Frame(w)
    BY <1>1, WorkerSound, WorkerTypes
  <2>2. (RecordShape /\ Unattempted(store))'
    BY <2>1 DEF Sound, ShapeInv, RecordShape
  <2>3. \A v \in Workers : Ready(v)' /\ result'[v] # "enginePanic"
    BY <2>1, ReadyFramed DEF Sound, Frame, ShapeInv, NoEnginePanic
  <2> QED
    BY <2>2, <2>3 DEF ShapeInv, NoEnginePanic
<1>2. CASE Lapse \/ UNCHANGED vars
  <2>1. store' = store /\ \A v \in Workers : Same(v)
    BY <1>2 DEF Lapse, vars, locals, outside, Same
  <2> QED
    BY <2>1, ReadyFramed DEF ShapeInv, RecordShape, NoEnginePanic
<1> QED
  BY <1>1, <1>2 DEF Next, Rest, WorkerStep

\* Whatever crashes, fails, lapses or races, with any number of workers: the
\* statuses of the execution and of its steps in the store go together, no call
\* asks for an illegal transition (execute.go:551-562), and each has a copy that
\* fits the point it stands at (execute.go:415-420).
THEOREM ShapeCorrect ==
  Spec => [](RecordShape /\ NoEnginePanic /\ CallsAreReady)
<1>1. Init => TypeInv /\ ShapeInv
  BY TypeInit, ShapeInit
<1>2. TypeInv /\ ShapeInv /\ [Next]_vars => TypeInv' /\ ShapeInv'
  BY TypeNext, ShapeNext
<1>3. TypeInv /\ ShapeInv => RecordShape /\ NoEnginePanic /\ CallsAreReady
  BY DEF TypeInv, ShapeInv, CallsAreReady
<1> QED
  BY <1>1, <1>2, <1>3, PTL DEF Spec

\* The engine never panics over a transition of its own (execute.go:551-562).
THEOREM NoIllegalTransition == Spec => []NoEnginePanic
<1>1. RecordShape /\ NoEnginePanic /\ CallsAreReady => NoEnginePanic
  OBVIOUS
<1> QED
  BY <1>1, ShapeCorrect, PTL

\* Each call's copy of the record is what the code at the point it stands at
\* takes for granted, and so is the record a later call starts from
\* (execute.go:156-254, 415-420).
THEOREM CopiesFit == Spec => []CallsAreReady
<1>1. RecordShape /\ NoEnginePanic /\ CallsAreReady => CallsAreReady
  OBVIOUS
<1> QED
  BY <1>1, ShapeCorrect, PTL

===============================================================================
