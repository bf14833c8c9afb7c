---------------------------- MODULE SagaSoloProofs ----------------------------
(***************************************************************************)
(* Proofs about SagaEngine with one worker: calls follow each other, and a *)
(* call is interrupted by crashes, errors, panics and the end of its       *)
(* context, but by no other call.  Then the record, the world and the      *)
(* events fit each other, and the store follows SagaContract.              *)
(*                                                                         *)
(* The hypothesis is needed: Recover reads the record before it takes the  *)
(* lease, so with two workers a call can go on with a stale copy.          *)
(***************************************************************************)
EXTENDS SagaShapeProofs

USE StepsAssumption, LeaseAssumption, EngineAssumption DEF Steps

\* Calls do not overlap.
Alone == \A v, w \in Workers : v = w

-------------------------------------------------------------------------------
(***************************************************************************)
(* The invariant.  At every point but the two where a transition is about  *)
(* to be saved, the call's copy says what the store says; at those two the *)
(* copy is one lawful transition ahead, and already fits the world.        *)
(***************************************************************************)

\* RecordMatchesWorld, of any copy of the record.
Matches(r) ==
  \A i \in Steps :
    /\ world[i] # "none" => r.steps[i] # "PENDING"
    /\ world[i] = "undone" => InCompensation(r.steps[i])
    /\ r.steps[i] = "SUCCEEDED" => world[i] = "done"
    /\ r.steps[i] = "COMPENSATED" => world[i] # "done"

\* The execution r may move to status s.
Turns(r, s) ==
  \/ r.status = "PENDING" /\ s = "RUNNING"
  \/ /\ r.status = "RUNNING" /\ s = "COMPLETED"
     /\ \A i \in Steps : r.steps[i] = "SUCCEEDED"
  \/ /\ r.status = "RUNNING" /\ s = "FAILED"
     /\ Steps # {} /\ ~\E i \in Steps : r.steps[i] = "SUCCEEDED"
  \/ /\ r.status = "RUNNING" /\ s = "COMPENSATING"
     /\ \E i \in Steps : r.steps[i] = "SUCCEEDED"
     /\ \E i \in Steps : r.steps[i] # "SUCCEEDED"
  \/ /\ r.status = "COMPENSATING"
     /\ \A i \in Compensable :
          r.steps[i] # "COMPENSATING" /\ r.steps[i] # "SUCCEEDED"
     /\ s = IF \E i \in Steps : r.steps[i] = "COMPENSATION_FAILED"
            THEN "COMPENSATION_FAILED" ELSE "COMPENSATED"

\* Step i of r may move to status s.
Moves(r, i, s) ==
  \/ /\ r.status = "RUNNING" /\ r.steps[i] = "PENDING" /\ s = "RUNNING"
     /\ \A j \in 1..(i - 1) : r.steps[j] = "SUCCEEDED"
  \/ /\ r.status = "RUNNING" /\ r.steps[i] = "RUNNING"
     /\ s \in {"SUCCEEDED", "FAILED"}
  \/ /\ r.status = "COMPENSATING" /\ i \in Compensable
     /\ r.steps[i] = "SUCCEEDED" /\ s = "COMPENSATING"
     /\ \A j \in Compensable : j > i =>
          r.steps[j] \in {"PENDING", "RUNNING", "FAILED"} \/ Settled(r.steps[j])
  \/ /\ r.status = "COMPENSATING" /\ r.steps[i] = "COMPENSATING"
     /\ s \in {"COMPENSATED", "COMPENSATION_FAILED"}

\* q is one lawful transition after r.
Follows(q, r) ==
  \/ q.steps = r.steps /\ Turns(r, q.status)
  \/ /\ q.status = r.status
     /\ \E i \in Steps, s \in StepStatus :
          Moves(r, i, s) /\ q.steps = [r.steps EXCEPT ![i] = s]

Agrees(w) == exec[w].status = store.status /\ exec[w].steps = store.steps

\* The points at which the copy of a call is that of the store.
Deciding ==
  {"acquire", "resume", "forward", "attempt", "acting", "backoff", "abort",
   "rollback", "undo", "compensate", "undoing"}

Tracks(w) ==
  /\ pc[w] = "create" => store = Absent /\ exec[w] = NewExecution
  /\ pc[w] \in Deciding \cup {"notify"} => Agrees(w)
  /\ pc[w] \in {"renew", "save"} =>
       Follows(exec[w], store) /\ Matches(exec[w])

TrackInv ==
  /\ Matches(store)
  /\ EventIsFinal
  /\ \A w \in Workers : Tracks(w)

\* What a step of w owes.
Track(w) == Matches(store) /\ EventIsFinal /\ Tracks(w)

-------------------------------------------------------------------------------
(***************************************************************************)
(* Transitions.                                                            *)
(***************************************************************************)

\* A step may be recorded with what the world bears out (execute.go:571-580).
LEMMA StepFits ==
  ASSUME NEW r \in Records, NEW q \in Records, NEW i \in Steps,
         NEW s \in StepStatus, Moves(r, i, s), WithStep(r, q, i, s),
         Matches(r),
         s = "SUCCEEDED" => world[i] = "done",
         s = "COMPENSATED" => world[i] # "done"
  PROVE  Follows(q, r) /\ Matches(q)
<1>1. /\ q.steps[i] = s
      /\ \A j \in Steps \ {i} : q.steps[j] = r.steps[j]
  BY DEF Records, WithStep
<1>2. Matches(q)
  BY <1>1 DEF Matches, Moves, InCompensation, Settled
<1> QED
  BY <1>2 DEF Follows, WithStep

\* The status of the execution says nothing of the world (execute.go:559-568).
LEMMA StatusFits ==
  ASSUME NEW r \in Records, NEW q \in Records, NEW s \in Status,
         Turns(r, s), WithStatus(r, q, s), Matches(r)
  PROVE  Follows(q, r) /\ Matches(q)
BY DEF Matches, Follows, WithStatus

\* What follows a record follows any with the same statuses.
LEMMA FollowsStatuses ==
  ASSUME NEW q, NEW r, NEW t, t.status = r.status, t.steps = r.steps,
         Follows(q, r)
  PROVE  Follows(q, t)
<1>1. \A s : Turns(r, s) => Turns(t, s)
  BY DEF Turns
<1>2. \A i, s : Moves(r, i, s) => Moves(t, i, s)
  BY DEF Moves
<1> QED
  BY <1>1, <1>2 DEF Follows

\* A transition of step i of the call's copy is on its way to the store.
LEMMA StepTracked ==
  ASSUME TypeInv, TrackInv, NEW w \in Workers, Sound(w), pc[w] \in Deciding,
         NEW i \in Steps, NEW to \in StepStatus, NEW l \in Continuations,
         TransitionStep(w, i, to, l), Moves(exec[w], i, to),
         UNCHANGED <<store, world, announced>>,
         to = "SUCCEEDED" => world[i] = "done",
         to = "COMPENSATED" => world[i] # "done"
  PROVE  Track(w)'
<1>1. CanTransitionStepStatus(exec[w].steps[i], to)
  BY DEF TransitionStep, Finish, Sound, TypeInv, TypeOK, ControlTypes
<1>2. /\ pc'[w] \in {"renew", "save"}
      /\ exec[w] \in Records /\ exec'[w] \in Records
      /\ WithStep(exec[w], exec'[w], i, to)
  BY <1>1, StepAdvances
<1>3. Agrees(w) /\ Matches(exec[w]) /\ store \in Records
  BY DEF TrackInv, Tracks, Agrees, Matches, TypeInv, TypeOK, StoreTypes
<1>4. Follows(exec'[w], exec[w]) /\ Matches(exec'[w])
  BY <1>2, <1>3, StepFits
<1>5. Follows(exec'[w], store)
  BY <1>3, <1>4, FollowsStatuses DEF Agrees
<1>6. (Matches(store) /\ EventIsFinal)' /\ Matches(exec[w])'
  BY <1>4 DEF TrackInv, Matches, EventIsFinal
<1> QED
  BY <1>2, <1>5, <1>6 DEF Track, Tracks, Deciding

\* A transition of the execution itself is on its way to the store.
LEMMA ExecTracked ==
  ASSUME TypeInv, TrackInv, NEW w \in Workers, Sound(w), pc[w] \in Deciding,
         NEW to \in Status, NEW l \in Continuations,
         TransitionExec(w, to, l), Turns(exec[w], to),
         UNCHANGED <<store, world, announced>>
  PROVE  Track(w)'
<1>1. CanTransitionStatus(exec[w].status, to)
  BY DEF TransitionExec, Finish, Sound, TypeInv, TypeOK, ControlTypes
<1>2. /\ pc'[w] \in {"renew", "save"}
      /\ exec[w] \in Records /\ exec'[w] \in Records
      /\ WithStatus(exec[w], exec'[w], to)
  BY <1>1, ExecAdvances
<1>3. Agrees(w) /\ Matches(exec[w])
  BY DEF TrackInv, Tracks, Agrees, Matches
<1>4. Follows(exec'[w], exec[w]) /\ Matches(exec'[w])
  BY <1>2, <1>3, StatusFits
<1>5. Follows(exec'[w], store)
  BY <1>3, <1>4, FollowsStatuses DEF Agrees
<1>6. (Matches(store) /\ EventIsFinal)' /\ Matches(exec[w])'
  BY <1>4 DEF TrackInv, Matches, EventIsFinal
<1> QED
  BY <1>2, <1>5, <1>6 DEF Track, Tracks, Deciding

\* A call that looks at its copy, or counts an attempt in it, keeps its
\* statuses.
LEMMA QuietTracked ==
  ASSUME TrackInv, NEW w \in Workers, pc[w] \in Deciding,
         pc'[w] \in Deciding, UNCHANGED <<store, world, announced>>,
         exec'[w].status = exec[w].status, exec'[w].steps = exec[w].steps
  PROVE  Track(w)'
BY DEF TrackInv, Track, Tracks, Deciding, Agrees, Matches, EventIsFinal

\* A call that has ended has no copy to speak of.
LEMMA EndTracked ==
  ASSUME TrackInv, NEW w \in Workers, pc'[w] \in {"release", "idle"},
         UNCHANGED <<store, world, announced>>
  PROVE  Track(w)'
BY DEF TrackInv, Track, Tracks, Deciding, Matches, EventIsFinal

-------------------------------------------------------------------------------
(***************************************************************************)
(* What the engine asks for is lawful.                                     *)
(***************************************************************************)

\* Beyond its last step a run has only successes behind it
\* (execute.go:249-254).
LEMMA CompleteTurns ==
  ASSUME NEW r \in Records, NEW i, i = NSteps + 1, NEW n, NEW a,
         ReadyAt("forward", r, i, n, a)
  PROVE  Turns(r, "COMPLETED")
BY DEF ReadyAt, IsFrontier, Turns

\* Where the step in hand is the first that has not succeeded, none before it
\* having succeeded means that none has (execute.go:382-398).
LEMMA FailTurns ==
  ASSUME NEW r \in Records, NEW i \in Steps, NEW n, NEW a,
         ReadyAt("abort", r, i, n, a), ~AnySucceeded(r, i - 1)
  PROVE  Turns(r, "FAILED")
<1>1. /\ r.status = "RUNNING" /\ IsFrontier(r, i)
      /\ Sequential(r) /\ ForwardOnly(r)
  BY DEF ReadyAt, WellFormed
<1>2. ~Reached(r.steps[i])
  BY <1>1 DEF IsFrontier, ForwardOnly, RollingBack, Reached, InCompensation,
     Settled
<1>3. \A j \in Steps : r.steps[j] # "SUCCEEDED"
  BY <1>1, <1>2 DEF AnySucceeded, IsFrontier, Sequential, Reached
<1> QED
  BY <1>1, <1>3 DEF Turns

\* abort only turns round a run in which some step succeeded and the one in hand
\* did not (execute.go:400-403).
LEMMA BackTurns ==
  ASSUME NEW r \in Records, NEW i \in Steps, NEW n, NEW a,
         ReadyAt("abort", r, i, n, a), AnySucceeded(r, i - 1)
  PROVE  Turns(r, "COMPENSATING")
<1>1. r.status = "RUNNING" /\ r.steps[i] # "SUCCEEDED"
  BY DEF ReadyAt, IsFrontier
<1>2. \E j \in Steps : r.steps[j] = "SUCCEEDED"
  BY DEF AnySucceeded
<1> QED
  BY <1>1, <1>2 DEF Turns

\* What compensate looks at, going down from failedAt, is all there is to
\* compensate (execute.go:499-509).
LEMMA BeyondIsSettled ==
  ASSUME NEW r \in Records, NEW i \in 0..NSteps, NEW n \in 0..NSteps, NEW a,
         ReadyAt("undo", r, i, n, a), NEW j \in Compensable,
         j \notin Undoable(r, i)
  PROVE  r.steps[j] \in {"PENDING", "RUNNING", "FAILED"} \/ Settled(r.steps[j])
<1>1. /\ IsFailedAt(r, n)
      /\ \A k \in (i + 1)..n : k \in Compensable => Settled(r.steps[k])
  BY DEF ReadyAt, Undoing
<1>2. r.steps[j] \in StepStatus /\ j \in 1..NSteps
  BY DEF Records
<1>3. CASE j <= i
  BY <1>2, <1>3 DEF Undoable, StepStatus, Settled
<1>4. CASE j > i /\ j <= n
  BY <1>1, <1>2, <1>4
<1>5. CASE j > n
  BY <1>1, <1>2, <1>5 DEF IsFailedAt, Reached, StepStatus
<1> QED
  BY <1>2, <1>3, <1>4, <1>5

\* With nothing left to undo, the outcome says whether some Compensate failed
\* (execute.go:532-539).
LEMMA SettleTurns ==
  ASSUME NEW r \in Records, NEW i \in 0..NSteps, NEW n \in 0..NSteps, NEW a,
         ReadyAt("undo", r, i, n, a), Undoable(r, i) = {}
  PROVE  Turns(r, RollbackOutcome(r, n))
<1>1. r.status = "COMPENSATING" /\ IsFailedAt(r, n)
  BY DEF ReadyAt, Undoing
<1>2. \A j \in Compensable :
        r.steps[j] # "COMPENSATING" /\ r.steps[j] # "SUCCEEDED"
  <2> SUFFICES ASSUME NEW j \in Compensable
               PROVE  r.steps[j] # "COMPENSATING" /\ r.steps[j] # "SUCCEEDED"
    OBVIOUS
  <2>1. r.steps[j] \in {"PENDING", "RUNNING", "FAILED"} \/ Settled(r.steps[j])
    BY BeyondIsSettled
  <2> QED
    BY <2>1 DEF Settled
<1>3. (\E j \in 1..n : r.steps[j] = "COMPENSATION_FAILED")
        <=> (\E j \in Steps : r.steps[j] = "COMPENSATION_FAILED")
  BY <1>1 DEF IsFailedAt, Reached
<1> QED
  BY <1>1, <1>2, <1>3 DEF Turns, RollbackOutcome

\* A PENDING step whose turn it is starts (execute.go:221-227).
LEMMA StartMoves ==
  ASSUME NEW r \in Records, NEW i \in Steps, NEW n, NEW a,
         ReadyAt("forward", r, i, n, a), r.steps[i] = "PENDING"
  PROVE  Moves(r, i, "RUNNING")
BY DEF ReadyAt, IsFrontier, Moves

\* A step that is being run may be concluded either way (execute.go:234-246).
LEMMA ConcludeMoves ==
  ASSUME NEW r \in Records, NEW i \in Steps, NEW n, NEW a, NEW l \in Stepping,
         ReadyAt(l, r, i, n, a), NEW s \in {"SUCCEEDED", "FAILED"}
  PROVE  Moves(r, i, s)
BY DEF ReadyAt, Moves

\* The last step that has to be compensated is taken when all later ones are
\* dealt with (execute.go:499-514).
LEMMA UndoMoves ==
  ASSUME NEW r \in Records, NEW i \in 0..NSteps, NEW n \in 0..NSteps, NEW a,
         ReadyAt("undo", r, i, n, a), NEW j \in Steps,
         j \in Undoable(r, i), \A k \in Undoable(r, i) : k <= j,
         r.steps[j] = "SUCCEEDED"
  PROVE  Moves(r, j, "COMPENSATING")
<1>1. r.status = "COMPENSATING" /\ j \in Compensable
  BY DEF ReadyAt, Undoing, Undoable
<1>2. ASSUME NEW k \in Compensable, k > j
      PROVE  r.steps[k] \in {"PENDING", "RUNNING", "FAILED"}
               \/ Settled(r.steps[k])
  <2>1. k \in 1..NSteps
    BY Z3
  <2>2. ~(k <= j)
    BY <1>2, <2>1, Z3
  <2>3. k \notin Undoable(r, i)
    BY <2>2
  <2> QED
    BY <2>1, <2>3, BeyondIsSettled
<1> QED
  BY <1>1, <1>2 DEF Moves

\* So may a step that is being compensated (execute.go:520-530).
LEMMA UndoneMoves ==
  ASSUME NEW r \in Records, NEW i \in Steps, NEW n, NEW a,
         ReadyAt("undoing", r, i, n, a),
         NEW s \in {"COMPENSATED", "COMPENSATION_FAILED"}
  PROVE  Moves(r, i, s)
BY DEF ReadyAt, Undoing, Moves

\* What a call that is to decide has in its hand.
LEMMA HandAt ==
  ASSUME TypeInv, ShapeInv, NEW w \in Workers, pc[w] \in Deciding
  PROVE  /\ exec[w] \in Records
         /\ ReadyAt(pc[w], exec[w], cur[w], failedAt[w], attempt[w])
         /\ failedAt[w] \in 0..NSteps
         /\ pc[w] \in Stepping \cup {"abort", "compensate", "undoing"} =>
              cur[w] \in Steps
         /\ pc[w] \in {"rollback", "undo"} => cur[w] \in 0..NSteps
BY DEF TypeInv, TypeOK, HandTypes, ShapeInv, Ready, Stage, InHand, Deciding

-------------------------------------------------------------------------------
(***************************************************************************)
(* Steps of the call.                                                      *)
(***************************************************************************)

\* resume, resumeRunning, abort and compensate move the execution
\* (execute.go:156-254, 393-403, 532-539).
LEMMA ExecSteps ==
  ASSUME TypeInv, ShapeInv, TrackInv, NEW w \in Workers, Sound(w),
         \/ BeginRun(w) \/ FinishRun(w) \/ AbortFailed(w)
         \/ AbortCompensating(w) \/ FinishRollback(w)
  PROVE  Track(w)'
<1>1. CASE BeginRun(w)
  <2>1. Turns(exec[w], "RUNNING")
    BY <1>1 DEF BeginRun, Turns
  <2> QED
    BY <1>1, <2>1, ExecTracked DEF BeginRun, At, Deciding, Status,
       Continuations, outside, ghosts
<1>2. CASE FinishRun(w)
  <2>1. Turns(exec[w], "COMPLETED")
    BY <1>2, HandAt, CompleteTurns DEF FinishRun, At, Deciding
  <2> QED
    BY <1>2, <2>1, ExecTracked DEF FinishRun, At, Deciding, Status,
       Continuations, outside, ghosts
<1>3. CASE AbortFailed(w)
  <2>1. Turns(exec[w], "FAILED")
    BY <1>3, HandAt, FailTurns DEF AbortFailed, At, Deciding
  <2> QED
    BY <1>3, <2>1, ExecTracked DEF AbortFailed, At, Deciding, Status,
       Continuations, outside, ghosts
<1>4. CASE AbortCompensating(w)
  <2>1. Turns(exec[w], "COMPENSATING")
    BY <1>4, HandAt, BackTurns DEF AbortCompensating, At, Deciding
  <2> QED
    BY <1>4, <2>1, ExecTracked DEF AbortCompensating, At, Deciding, Status,
       Continuations, outside, ghosts
<1>5. CASE FinishRollback(w)
  <2>1. Turns(exec[w], RollbackOutcome(exec[w], failedAt[w]))
    BY <1>5, HandAt, SettleTurns DEF FinishRollback, At, Deciding
  <2>2. RollbackOutcome(exec[w], failedAt[w]) \in Status
    BY DEF RollbackOutcome, Status
  <2> QED
    BY <1>5, <2>1, <2>2, ExecTracked DEF FinishRollback, At, Deciding,
       Continuations, outside, ghosts
<1> QED
  BY <1>1, <1>2, <1>3, <1>4, <1>5

\* A step is recorded FAILED (execute.go:234-240).
LEMMA FailSteps ==
  ASSUME TypeInv, ShapeInv, TrackInv, NEW w \in Workers, Sound(w),
         pc[w] \in Stepping, FailStep(w), UNCHANGED <<store, world, announced>>
  PROVE  Track(w)'
<1>1. cur[w] \in Steps /\ pc[w] \in Deciding
  BY HandAt DEF Stepping, Deciding
<1>2. Moves(exec[w], cur[w], "FAILED")
  BY <1>1, HandAt, ConcludeMoves
<1> QED
  BY <1>1, <1>2, StepTracked DEF FailStep, Continuations, StepStatus

\* A step is only recorded SUCCEEDED if its Action took effect: it cannot have
\* been undone yet, being RUNNING (execute.go:294-312).
LEMMA ActionSteps ==
  ASSUME TypeInv, ShapeInv, TrackInv, NEW w \in Workers, Sound(w),
         ActionReturns(w)
  PROVE  Track(w)'
<1>1. /\ UNCHANGED <<store, world, announced>> /\ pc[w] = "acting"
      /\ pc[w] \in Deciding /\ pc[w] \in Stepping
  BY DEF ActionReturns, outside, ghosts, At, Stepping, Deciding
<1>2. /\ cur[w] \in Steps /\ exec[w].steps[cur[w]] = "RUNNING"
      /\ exec[w] \in Records
  BY <1>1, HandAt DEF ReadyAt
<1>3. CASE /\ "ok" \in Outcomes(w)
           /\ TransitionStep(w, cur[w], "SUCCEEDED", "forward")
  <2>1. world[cur[w]] # "undone"
    BY <1>1, <1>2 DEF TrackInv, Tracks, Agrees, Matches, InCompensation, Settled
  <2>2. world[cur[w]] = "done"
    BY <1>3, <2>1 DEF Outcomes
  <2>3. Moves(exec[w], cur[w], "SUCCEEDED")
    BY <1>1, <1>2, HandAt, ConcludeMoves
  <2> QED
    BY <1>1, <1>2, <1>3, <2>2, <2>3, StepTracked DEF Continuations, StepStatus
<1>4. CASE Goto(w, "backoff") /\ UNCHANGED exec
  <2>1. pc'[w] = "backoff"
    BY <1>4 DEF Goto, TypeInv, TypeOK, ControlTypes
  <2> QED
    BY <1>1, <1>4, <2>1, QuietTracked DEF Deciding
<1>5. CASE FailStep(w)
  BY <1>1, <1>5, FailSteps
<1> QED
  BY <1>3, <1>4, <1>5 DEF ActionReturns

\* A compensation only counts as done when the effect is gone, and is only
\* begun when all later ones are dealt with (execute.go:221-227, 499-530).
LEMMA OtherSteps ==
  ASSUME TypeInv, ShapeInv, TrackInv, NEW w \in Workers, Sound(w),
         StartStep(w) \/ UndoStep(w) \/ UndoReturns(w)
  PROVE  Track(w)'
<1>1. CASE StartStep(w)
  <2>1. Moves(exec[w], cur[w], "RUNNING")
    BY <1>1, HandAt, StartMoves DEF StartStep, At, Deciding
  <2> QED
    BY <1>1, <2>1, StepTracked DEF StartStep, At, Deciding, Continuations,
       StepStatus, outside, ghosts
<1>2. CASE UndoStep(w)
  <2>1. PICK i \in Steps :
          /\ IsNextUndo(w, i)
          /\ IF exec[w].steps[i] = "SUCCEEDED"
             THEN TransitionStep(w, i, "COMPENSATING", "compensate")
             ELSE Goto(w, "compensate") /\ UNCHANGED <<next, exec, result>>
    BY <1>2 DEF UndoStep
  <2>2. /\ UNCHANGED <<store, world, announced>> /\ pc[w] = "undo"
        /\ pc[w] \in Deciding
    BY <1>2 DEF UndoStep, outside, ghosts, At, Deciding
  <2>3. CASE exec[w].steps[i] = "SUCCEEDED"
    <3>1. Moves(exec[w], i, "COMPENSATING")
      BY <2>1, <2>2, <2>3, HandAt, UndoMoves DEF IsNextUndo
    <3> QED
      BY <2>1, <2>2, <2>3, <3>1, StepTracked DEF Continuations, StepStatus
  <2>4. CASE exec[w].steps[i] # "SUCCEEDED"
    <3>1. pc'[w] = "compensate" /\ exec' = exec
      BY <2>1, <2>4 DEF Goto, TypeInv, TypeOK, ControlTypes
    <3> QED
      BY <2>2, <3>1, QuietTracked DEF Deciding
  <2> QED
    BY <2>3, <2>4
<1>3. CASE UndoReturns(w)
  <2>1. /\ UNCHANGED <<store, world, announced>> /\ pc[w] = "undoing"
        /\ cur[w] \in Steps /\ pc[w] \in Deciding
    BY <1>3, HandAt DEF UndoReturns, outside, ghosts, At, Deciding
  <2>2. Moves(exec[w], cur[w], "COMPENSATED")
        /\ Moves(exec[w], cur[w], "COMPENSATION_FAILED")
    BY <2>1, HandAt, UndoneMoves
  <2> QED
    BY <1>3, <2>1, <2>2, StepTracked DEF UndoReturns, Continuations, StepStatus
<1> QED
  BY <1>1, <1>2, <1>3

\* The points of a call at which it only looks at its copy, or counts an
\* attempt in it.
LEMMA QuietPoints ==
  ASSUME TypeInv, ShapeInv, TrackInv, NEW w \in Workers, Sound(w),
         \/ ResumeFailedStep(w) \/ ResumeForward(w) \/ ResumeCompensating(w)
         \/ StopForward(w) \/ RetryInterruptedStep(w) \/ Invoke(w)
         \/ Rollback(w) \/ InvokeCompensate(w)
  PROVE  Track(w)'
<1>1. /\ UNCHANGED <<store, world, announced>>
      /\ pc[w] \in Deciding /\ pc'[w] \in Deciding
  BY DEF ResumeFailedStep, ResumeForward, ResumeCompensating, StopForward,
     RetryInterruptedStep, Invoke, Rollback, InvokeCompensate, At, Goto,
     Deciding, outside, ghosts, TypeInv, TypeOK, ControlTypes
<1>2. exec'[w].status = exec[w].status /\ exec'[w].steps = exec[w].steps
  BY DEF ResumeFailedStep, ResumeForward, ResumeCompensating, StopForward,
     RetryInterruptedStep, Invoke, Rollback, InvokeCompensate, locals, TypeInv,
     TypeOK, HandTypes, Records
<1> QED
  BY <1>1, <1>2, QuietTracked

\* A step that is given up is recorded FAILED, at whatever point (execute.go:286-312).
LEMMA GivingUp ==
  ASSUME TypeInv, ShapeInv, TrackInv, NEW w \in Workers, Sound(w),
         GiveUpStep(w) \/ Backoff(w)
  PROVE  Track(w)'
<1>1. /\ UNCHANGED <<store, world, announced>>
      /\ pc[w] \in Deciding /\ pc[w] \in Stepping
  BY DEF GiveUpStep, Backoff, At, Deciding, Stepping, outside, ghosts
<1>2. CASE FailStep(w)
  BY <1>1, <1>2, FailSteps
<1>3. CASE Goto(w, "attempt") /\ UNCHANGED exec
  <2>1. pc'[w] = "attempt"
    BY <1>3 DEF Goto, TypeInv, TypeOK, ControlTypes
  <2> QED
    BY <1>1, <1>3, <2>1, QuietTracked DEF Deciding
<1> QED
  BY <1>2, <1>3 DEF GiveUpStep, Backoff

\* The first Save finds no effect and no event, there being no record
\* (execute.go:80-104).
LEMMA FirstSteps ==
  ASSUME TypeInv, TrackInv, NEW w \in Workers, Execute(w) \/ SaveInitial(w)
  PROVE  Track(w)'
<1>1. CASE Execute(w)
  <2>1. /\ store = Absent /\ UNCHANGED <<store, world, announced>>
        /\ pc'[w] = "create" /\ exec'[w] = NewExecution
    BY <1>1 DEF Execute, Goto, outside, ghosts, TypeInv, TypeOK, ControlTypes,
       HandTypes
  <2> QED
    BY <2>1 DEF TrackInv, Track, Tracks, Deciding, Matches, EventIsFinal
<1>2. CASE SaveInitial(w)
  <2>1. /\ store = Absent /\ exec[w] = NewExecution
        /\ UNCHANGED <<world, announced>>
        /\ store' \in {store, exec[w]}
        /\ \/ pc'[w] = "idle"
           \/ pc'[w] = "acquire" /\ store' = exec[w] /\ exec' = exec
    BY <1>2 DEF SaveInitial, At, TrackInv, Tracks, Goto, Leave, WriteFails, Put,
       locals, ghosts, TypeInv, TypeOK, ControlTypes
  <2>2. announced = {}
    BY <2>1 DEF TrackInv, EventIsFinal, Absent, TypeInv, TypeOK, GhostTypes,
       Terminal
  <2>3. \A i \in Steps : world[i] = "none"
    BY <2>1 DEF TrackInv, Matches, Absent
  <2>4. Matches(store)'
    BY <2>1, <2>3 DEF Matches, Absent, NewExecution
  <2> QED
    BY <2>1, <2>2, <2>4 DEF Track, Tracks, Deciding, Agrees, EventIsFinal
<1> QED
  BY <1>1, <1>2

\* Recover's copy is the record, and while the lease is asked for nothing
\* happens to either (recovery.go:117-155, execute.go:140-155).
LEMMA EntrySteps ==
  ASSUME TypeInv, TrackInv, NEW w \in Workers, Recover(w) \/ AcquireLease(w)
  PROVE  Track(w)'
<1>1. UNCHANGED <<store, world, announced>>
  BY DEF Recover, AcquireLease, ghosts
<1>2. CASE Recover(w)
  <2>1. CASE pc'[w] = "acquire" /\ exec'[w] = store
    BY <1>1, <2>1 DEF TrackInv, Track, Tracks, Deciding, Agrees, Matches,
       EventIsFinal
  <2>2. CASE pc'[w] = "idle"
    BY <1>1, <2>2, EndTracked
  <2> QED
    BY <1>2, <2>1, <2>2 DEF Recover, At, Goto, TypeInv, TypeOK, ControlTypes,
       HandTypes
<1>3. CASE AcquireLease(w)
  <2>1. /\ pc[w] \in Deciding
        /\ pc'[w] = "idle" \/ (pc'[w] = "resume" /\ exec' = exec)
    BY <1>3 DEF AcquireLease, At, Goto, Leave, Deciding, locals, TypeInv,
       TypeOK, ControlTypes
  <2> QED
    BY <1>1, <2>1, QuietTracked, EndTracked DEF Deciding
<1> QED
  BY <1>2, <1>3

\* A record that another follows is not terminal (status.go:31-45).
LEMMA FollowedIsOpen ==
  ASSUME NEW q, NEW r, Follows(q, r)
  PROVE  ~IsTerminal(r.status)
BY DEF Follows, Turns, Moves, IsTerminal, Terminal

\* What is saved follows a record that was not terminal, of which no event has
\* been published; only then is it announced (execute.go:559-568, 582-603).
LEMMA PersistSteps ==
  ASSUME TypeInv, TrackInv, NEW w \in Workers,
         RenewLease(w) \/ Save(w) \/ Notify(w) \/ PanicInObserver(w)
  PROVE  Track(w)'
<1>1. exec' = exec /\ world' = world
  BY DEF RenewLease, Save, Notify, PanicInObserver, ghosts
<1>2. CASE RenewLease(w)
  <2>1. /\ UNCHANGED <<store, announced>> /\ pc[w] = "renew"
        /\ pc'[w] \in {"save", "release"}
    BY <1>2 DEF RenewLease, At, Goto, Finish, ghosts, TypeInv, TypeOK,
       ControlTypes
  <2>2. CASE pc'[w] = "release"
    BY <1>1, <2>1, <2>2, EndTracked
  <2>3. CASE pc'[w] = "save"
    <3>1. Follows(exec[w], store) /\ Matches(exec[w])
      BY <2>1 DEF TrackInv, Tracks
    <3>2. /\ Follows(exec[w], store)' <=> Follows(exec[w], store)
          /\ Matches(exec[w])' <=> Matches(exec[w])
      <4>1. store' = store /\ exec'[w] = exec[w] /\ world' = world
        BY <1>1, <2>1
      <4>2. Follows(exec[w], store)' <=> Follows(exec[w], store)
        BY <4>1 DEF Follows, Turns, Moves
      <4> QED
        BY <4>1, <4>2 DEF Matches
    <3>3. (Matches(store) /\ EventIsFinal)'
      BY <1>1, <2>1 DEF TrackInv, Matches, EventIsFinal
    <3> QED
      BY <2>3, <3>1, <3>2, <3>3 DEF Track, Tracks, Deciding
  <2> QED
    BY <2>1, <2>2, <2>3
<1>3. CASE Save(w)
  <2>1. /\ UNCHANGED announced /\ pc[w] = "save"
        /\ store' \in {store, exec[w]}
        /\ pc'[w] = "release" \/ (pc'[w] = "notify" /\ store' = exec[w])
    BY <1>3 DEF Save, At, Goto, Finish, WriteFails, Put, ghosts, TypeInv,
       TypeOK, ControlTypes
  <2>2. Follows(exec[w], store) /\ Matches(exec[w])
    BY <2>1 DEF TrackInv, Tracks
  <2>3. announced = {}
    BY <2>2, FollowedIsOpen DEF TrackInv, EventIsFinal, TypeInv, TypeOK,
       GhostTypes, IsTerminal
  <2>4. Matches(store)'
    BY <1>1, <2>1, <2>2 DEF TrackInv, Matches
  <2> QED
    BY <1>1, <2>1, <2>3, <2>4 DEF Track, Tracks, Deciding, Agrees, EventIsFinal
<1>4. CASE Notify(w) \/ PanicInObserver(w)
  <2>1. /\ UNCHANGED store /\ pc[w] = "notify"
        /\ announced' \subseteq announced \cup {exec[w].status}
        /\ pc'[w] \in Deciding \cup {"release"}
    BY <1>4 DEF Notify, PanicInObserver, At, Goto, Finish, Deciding, TypeInv,
       TypeOK, ControlTypes, InHand, Continuations
  <2>2. Agrees(w)
    BY <2>1 DEF TrackInv, Tracks
  <2> QED
    BY <1>1, <2>1, <2>2 DEF TrackInv, Track, Tracks, Deciding, Agrees, Matches,
       EventIsFinal
<1> QED
  BY <1>2, <1>3, <1>4

\* Effects come and go only while the step is recorded as under way
\* (execute.go:221-245, 510-529).
LEMMA DownstreamSteps ==
  ASSUME TypeInv, ShapeInv, TrackInv, NEW w \in Workers, Downstream(w)
  PROVE  Track(w)'
<1>1. /\ UNCHANGED <<store, announced, pc, exec>>
      /\ pc[w] \in Deciding \ {"create"} /\ cur[w] \in Steps
  BY HandAt DEF Downstream, ActionApplies, UndoApplies, At, Deciding, locals,
     Stepping
<1>2. Agrees(w)
  BY <1>1 DEF TrackInv, Tracks
<1>3. CASE ActionApplies(w)
  <2>1. store.steps[cur[w]] = "RUNNING"
    BY <1>2, <1>3, HandAt DEF Agrees, ActionApplies, At, Deciding, ReadyAt,
       Stepping
  <2>2. world' = [world EXCEPT ![cur[w]] = "done"]
    BY <1>3 DEF ActionApplies
  <2>3. Matches(store)'
    BY <1>1, <2>1, <2>2 DEF TrackInv, Matches, TypeInv, TypeOK, GhostTypes
  <2> QED
    BY <1>1, <1>2, <2>3 DEF TrackInv, Track, Tracks, Deciding, Agrees,
       EventIsFinal
<1>4. CASE UndoApplies(w)
  <2>1. store.steps[cur[w]] = "COMPENSATING"
    BY <1>2, <1>4, HandAt DEF Agrees, UndoApplies, At, Deciding, ReadyAt
  <2>2. world' = [world EXCEPT ![cur[w]] = "undone"]
    BY <1>4 DEF UndoApplies
  <2>3. Matches(store)'
    BY <1>1, <2>1, <2>2 DEF TrackInv, Matches, InCompensation, TypeInv, TypeOK,
       GhostTypes
  <2> QED
    BY <1>1, <1>2, <2>3 DEF TrackInv, Track, Tracks, Deciding, Agrees,
       EventIsFinal
<1> QED
  BY <1>3, <1>4 DEF Downstream

\* Nothing that Track speaks of has changed.
LEMMA StillTracked ==
  ASSUME TrackInv, NEW w \in Workers,
         UNCHANGED <<store, world, announced>>,
         pc'[w] = pc[w], exec'[w] = exec[w]
  PROVE  Track(w)'
<1>1. Follows(exec[w], store)' <=> Follows(exec[w], store)
  BY DEF Follows, Turns, Moves
<1>2. Matches(exec[w])' <=> Matches(exec[w])
  BY DEF Matches
<1>3. (Matches(store) /\ EventIsFinal)' /\ (Agrees(w)' <=> Agrees(w))
  BY DEF TrackInv, Matches, EventIsFinal, Agrees
<1> QED
  BY <1>1, <1>2, <1>3 DEF TrackInv, Track, Tracks

\* However a call ends, it leaves the record, the world and the events alone.
LEMMA EndSteps ==
  ASSUME TypeInv, TrackInv, NEW w \in Workers,
         Release(w) \/ Crash(w) \/ PanicInStep(w) \/ ContextEnds(w)
  PROVE  Track(w)'
<1>1. UNCHANGED <<store, world, announced>>
  BY DEF Release, Crash, PanicInStep, ContextEnds, outside, ghosts
<1>2. CASE ContextEnds(w)
  BY <1>1, <1>2, StillTracked DEF ContextEnds, outside
<1>3. CASE pc'[w] \in {"release", "idle"}
  BY <1>1, <1>3, EndTracked
<1> QED
  BY <1>2, <1>3 DEF Release, Crash, PanicInStep, Goto, Finish, TypeInv, TypeOK,
     ControlTypes

\* Every step of the worker keeps track (execute.go:80-644).
LEMMA WorkerTracked ==
  ASSUME TypeInv, ShapeInv, TrackInv, NEW w \in Workers, WorkerStep(w)
  PROVE  Track(w)'
<1>1. Sound(w)
  BY WorkerSound
<1> QED
  BY <1>1, ExecSteps, ActionSteps, OtherSteps, QuietPoints, GivingUp, FirstSteps,
     EntrySteps, PersistSteps, DownstreamSteps, EndSteps
     DEF WorkerStep, Engine, Environment

-------------------------------------------------------------------------------
(***************************************************************************)
(* What follows.                                                           *)
(***************************************************************************)

\* Nothing is recorded, in effect or announced at first.
LEMMA TrackInit == ASSUME Init PROVE TrackInv
BY DEF Init, TrackInv, Tracks, Deciding, Matches, Absent, EventIsFinal

\* With one worker its steps are all there are.
LEMMA TrackNext ==
  ASSUME Alone, TypeInv, ShapeInv, TrackInv, [Next]_vars
  PROVE  TrackInv'
<1>1. ASSUME NEW w \in Workers, WorkerStep(w) PROVE TrackInv'
  BY <1>1, WorkerTracked DEF Alone, Track, TrackInv
<1>2. CASE Lapse \/ UNCHANGED vars
  <2>1. UNCHANGED <<store, world, announced, pc, exec>>
    BY <1>2 DEF Lapse, vars, locals, outside, ghosts
  <2>2. \A w \in Workers : Track(w)'
    BY <2>1, StillTracked
  <2>3. (Matches(store) /\ EventIsFinal)'
    BY <2>1 DEF TrackInv, Matches, EventIsFinal
  <2> QED
    BY <2>2, <2>3 DEF Track, TrackInv
<1> QED
  BY <1>1, <1>2 DEF Next, Rest, WorkerStep

\* A step is recorded RUNNING before its Action can take effect, SUCCEEDED only
\* if it did, COMPENSATED only if the effect is gone: through crashes, errors,
\* panics and deadlines, whether or not downstream recognises a repeated
\* OperationID (execute.go:223-245, 510-529).
THEOREM WorldIsRecorded ==
  ASSUME Alone
  PROVE  Spec => []RecordMatchesWorld
<1>1. Init => TypeInv /\ ShapeInv /\ TrackInv
  BY TypeInit, ShapeInit, TrackInit
<1>2. TypeInv /\ ShapeInv /\ TrackInv /\ [Next]_vars =>
        TypeInv' /\ ShapeInv' /\ TrackInv'
  BY TypeNext, ShapeNext, TrackNext
<1>3. TrackInv => RecordMatchesWorld
  BY DEF TrackInv, Matches, RecordMatchesWorld
<1> QED
  BY <1>1, <1>2, <1>3, PTL DEF Spec

\* A terminal event is only published for the status that stands in the store,
\* and stands for good (execute.go:563-566, events.go:39-44).
THEOREM EventsStand ==
  ASSUME Alone
  PROVE  Spec => []EventIsFinal
<1>1. Init => TypeInv /\ ShapeInv /\ TrackInv
  BY TypeInit, ShapeInit, TrackInit
<1>2. TypeInv /\ ShapeInv /\ TrackInv /\ [Next]_vars =>
        TypeInv' /\ ShapeInv' /\ TrackInv'
  BY TypeNext, ShapeNext, TrackNext
<1>3. TrackInv => EventIsFinal
  BY DEF TrackInv
<1> QED
  BY <1>1, <1>2, <1>3, PTL DEF Spec

-------------------------------------------------------------------------------
(***************************************************************************)
(* The store follows the contract.                                         *)
(***************************************************************************)

\* The two places that write the store (execute.go:100-104, 599-602).
LEMMA StoreWriters ==
  ASSUME TypeInv, TrackInv, [Next]_vars
  PROVE  \/ store' = store
         \/ store = Absent /\ store' = NewExecution
         \/ \E w \in Workers : Save(w) /\ store' = exec[w]
<1>1. ASSUME NEW w \in Workers, SaveInitial(w)
      PROVE  store' = store \/ (store = Absent /\ store' = NewExecution)
  BY <1>1 DEF SaveInitial, WriteFails, At, Put, TrackInv, Tracks
<1>2. ASSUME NEW w \in Workers, Save(w)
      PROVE  store' = store \/ store' = exec[w]
  BY <1>2 DEF Save, WriteFails, Put
<1>3. ASSUME NEW w \in Workers, WorkerStep(w), ~SaveInitial(w), ~Save(w)
      PROVE  store' = store
  BY <1>3 DEF WorkerStep, Execute, Recover, Engine, Downstream, Environment,
     AcquireLease, BeginRun, ResumeFailedStep, ResumeForward,
     ResumeCompensating, FinishRun, StopForward, StartStep,
     RetryInterruptedStep, Invoke, GiveUpStep, ActionReturns, Backoff,
     AbortFailed, AbortCompensating, Rollback, UndoStep, InvokeCompensate,
     UndoReturns, FinishRollback, RenewLease, Notify, Release, ActionApplies,
     UndoApplies, Crash, PanicInStep, PanicInObserver, ContextEnds, outside
<1>4. CASE Lapse \/ UNCHANGED vars
  BY <1>4 DEF Lapse, vars, outside
<1> QED
  BY <1>1, <1>2, <1>3, <1>4 DEF Next, Rest, WorkerStep

\* What is written is one transition ahead of what is there.
LEMMA StoreMoves ==
  ASSUME TypeInv, TrackInv, [Next]_vars
  PROVE  \/ store' = store
         \/ store = Absent /\ store' = NewExecution
         \/ Follows(store', store)
BY StoreWriters DEF Save, At, TrackInv, Tracks

\* A record that follows another does so by a step of the contract.
LEMMA TurnIsLawful ==
  ASSUME store'.steps = store.steps, Turns(store, store'.status)
  PROVE  Contract!Next
<1> USE DEF Contract!Become, Contract!Steps, Contract!Succeeded
<1>1. CASE store.status = "PENDING"
  <2>1. Contract!Begin
    BY <1>1 DEF Turns, Contract!Begin
  <2> QED
    BY <2>1 DEF Contract!Next
<1>2. CASE store.status = "RUNNING"
  <2>1. Contract!Complete \/ Contract!Fail \/ Contract!TurnBack
    BY <1>2 DEF Turns, Contract!Complete, Contract!Fail, Contract!TurnBack
  <2> QED
    BY <2>1 DEF Contract!Next
<1>3. CASE store.status = "COMPENSATING"
  <2>1. Contract!Settle
    BY <1>3 DEF Turns, Contract!Settle
  <2> QED
    BY <2>1 DEF Contract!Next
<1> QED
  BY <1>1, <1>2, <1>3 DEF Turns

\* The same for a step.
LEMMA MoveIsLawful ==
  ASSUME store'.status = store.status, NEW i \in Steps, NEW s \in StepStatus,
         Moves(store, i, s), store'.steps = [store.steps EXCEPT ![i] = s]
  PROVE  Contract!Next
<1> USE DEF Contract!Move, Contract!Steps, Contract!Succeeded
<1>1. CASE store.status = "RUNNING" /\ store.steps[i] = "PENDING"
  <2>1. Contract!Start(i)
    BY <1>1 DEF Moves, Contract!Start
  <2> QED
    BY <2>1 DEF Contract!Next
<1>2. CASE store.status = "RUNNING" /\ store.steps[i] = "RUNNING"
  <2>1. Contract!Conclude(i)
    BY <1>2 DEF Moves, Contract!Conclude
  <2> QED
    BY <2>1 DEF Contract!Next
<1>3. CASE store.status = "COMPENSATING" /\ store.steps[i] = "SUCCEEDED"
  <2>1. Contract!Undo(i)
    BY <1>3 DEF Moves, Contract!Undo, Contract!Settled, Settled
  <2> QED
    BY <2>1 DEF Contract!Next
<1>4. CASE store.status = "COMPENSATING" /\ store.steps[i] = "COMPENSATING"
  <2>1. Contract!ConcludeUndo(i)
    BY <1>4 DEF Moves, Contract!ConcludeUndo
  <2> QED
    BY <2>1 DEF Contract!Next
<1> QED
  BY <1>1, <1>2, <1>3, <1>4 DEF Moves

\* The store goes through the saga's lawful transitions, one at a time and never
\* back: what is written is always one transition ahead of what is there,
\* whatever became of the calls before (execute.go:551-603).
THEOREM ContractIsKept ==
  ASSUME Alone
  PROVE  Spec => KeepsContract
<1>1. Init => TypeInv /\ ShapeInv /\ TrackInv
  BY TypeInit, ShapeInit, TrackInit
<1>2. TypeInv /\ ShapeInv /\ TrackInv /\ [Next]_vars =>
        TypeInv' /\ ShapeInv' /\ TrackInv'
  BY TypeNext, ShapeNext, TrackNext
<1>3. Init => Contract!Init
  BY DEF Init, Absent, Contract!Init, Contract!Steps
<1>4. TypeInv /\ TrackInv /\ [Next]_vars =>
        [Contract!Next]_(Contract!contractVars)
  <2> SUFFICES ASSUME TypeInv, TrackInv, [Next]_vars
               PROVE  [Contract!Next]_(Contract!contractVars)
    OBVIOUS
  <2>1. CASE store' = store
    BY <2>1 DEF Contract!contractVars
  <2>2. CASE store = Absent /\ store' = NewExecution
    <3>1. Contract!Create
      BY <2>2 DEF Absent, NewExecution, Contract!Create, Contract!Become
    <3> QED
      BY <3>1 DEF Contract!Next
  <2>3. CASE Follows(store', store)
    BY <2>3, TurnIsLawful, MoveIsLawful DEF Follows
  <2> QED
    BY <2>1, <2>2, <2>3, StoreMoves
<1> QED
  BY <1>1, <1>2, <1>3, <1>4, PTL DEF Spec, KeepsContract, Contract!Spec

-------------------------------------------------------------------------------
(***************************************************************************)
(* No step is left RUNNING behind a saga that has moved on, unless the     *)
(* context of the call ended.                                              *)
(***************************************************************************)
Underway(r) == \E i \in Steps : r.steps[i] = "RUNNING"

\* A call that gives up with a step under way, or is about to record so, has
\* lost its context.
Quits(w) ==
  /\ Underway(exec[w])
  /\ \/ Stage(w) = "abort"
     \/ /\ pc[w] \in {"renew", "save"} /\ store.status = "RUNNING"
        /\ exec[w].status \in {"FAILED", "COMPENSATING"}
  => Ended(w)

QuitInv == \A w \in Workers : Quits(w)

\* A change of a step leaves the status of the execution at RUNNING if it was
\* (execute.go:571-580).
LEMMA StepQuits ==
  ASSUME TypeInv, TrackInv, NEW w \in Workers, pc[w] \in Deciding,
         NEW i \in Steps, NEW to \in StepStatus, NEW l \in Labels \ {"abort"},
         l \notin {"renew", "save", "notify"},
         TransitionStep(w, i, to, l), UNCHANGED store
  PROVE  Quits(w)'
<1>1. exec[w] \in Records /\ exec[w].status = store.status
  BY DEF TypeInv, TypeOK, HandTypes, TrackInv, Tracks, Agrees
<1>2. Moved(w, [exec[w] EXCEPT !.steps[i] = to], l)
  BY StepMoves DEF TypeInv
<1>3. exec'[w].status = exec[w].status
  <2>1. [exec[w] EXCEPT !.steps[i] = to].status = exec[w].status
    BY <1>1, StepUpdate
  <2> QED
    BY <1>2, <2>1 DEF Moved
<1>4. Stage(w)' \in {l, "release"}
  BY <1>2 DEF Moved, Stage
<1> QED
  BY <1>1, <1>3, <1>4 DEF Quits

\* The other changes of the execution do not leave a step behind
\* (execute.go:173-177, 249-254, 532-539).
LEMMA ExecQuits ==
  ASSUME TypeInv, NEW w \in Workers,
         NEW to \in Status \ {"FAILED", "COMPENSATING"},
         NEW l \in {"resume", "release"}, TransitionExec(w, to, l)
  PROVE  Quits(w)'
<1>1. exec[w] \in Records
  BY DEF TypeInv, TypeOK, HandTypes
<1>2. Moved(w, [exec[w] EXCEPT !.status = to], l)
  BY ExecMoves DEF TypeInv, Labels
<1>3. pc'[w] = "release" \/ exec'[w].status = to
  BY <1>1, <1>2, StatusUpdate DEF Moved
<1>4. Stage(w)' \in {l, "release"}
  BY <1>2 DEF Moved, Stage
<1> QED
  BY <1>3, <1>4 DEF Quits

\* abort records what the call has already given up (execute.go:381-403).
LEMMA AbortQuits ==
  ASSUME TypeInv, QuitInv, NEW w \in Workers,
         AbortFailed(w) \/ AbortCompensating(w)
  PROVE  Quits(w)'
<1>1. /\ exec[w] \in Records /\ ctx'[w] = ctx[w]
      /\ Underway(exec[w]) => Ended(w)
  BY DEF TypeInv, TypeOK, HandTypes, AbortFailed, AbortCompensating, At,
     QuitInv, Quits, Stage
<1>2. PICK to \in Status, l \in Labels :
             Moved(w, [exec[w] EXCEPT !.status = to], l)
  BY ExecMoves DEF AbortFailed, AbortCompensating, TypeInv, Status, Labels
<1>3. exec'[w].steps = exec[w].steps
  <2>1. [exec[w] EXCEPT !.status = to].steps = exec[w].steps
    BY <1>1, StatusUpdate
  <2> QED
    BY <1>2, <2>1 DEF Moved
<1> QED
  BY <1>1, <1>3 DEF Quits, Underway, Ended

\* A step recorded FAILED was the only one under way (execute.go:234-240).
LEMMA FailQuits ==
  ASSUME TypeInv, ShapeInv, NEW w \in Workers, pc[w] \in Stepping, FailStep(w)
  PROVE  Quits(w)'
<1>1. /\ exec[w] \in Records /\ cur[w] \in Steps
      /\ ReadyAt(pc[w], exec[w], cur[w], failedAt[w], attempt[w])
  BY HandAt DEF Deciding, Stepping
<1>2. \A j \in Steps \ {cur[w]} : exec[w].steps[j] # "RUNNING"
  <2>1. /\ exec[w].steps[cur[w]] = "RUNNING" /\ IsFrontier(exec[w], cur[w])
        /\ Sequential(exec[w])
    BY <1>1 DEF ReadyAt, Stepping, WellFormed
  <2>2. ASSUME NEW j \in Steps, j < cur[w] PROVE exec[w].steps[j] = "SUCCEEDED"
    BY <1>1, <2>1, <2>2 DEF IsFrontier
  <2>3. ASSUME NEW j \in Steps, cur[w] < j PROVE exec[w].steps[j] = "PENDING"
    BY <1>1, <2>1, <2>3 DEF Sequential, Reached
  <2> QED
    BY <1>1, <2>2, <2>3
<1>3. Moved(w, [exec[w] EXCEPT !.steps[cur[w]] = "FAILED"], "abort")
  BY <1>1, StepMoves DEF FailStep, TypeInv, StepStatus, Labels
<1>4. CASE pc'[w] = "release"
  BY <1>4 DEF Quits, Stage
<1>5. CASE exec'[w] = [exec[w] EXCEPT !.steps[cur[w]] = "FAILED"]
  <2>1. exec'[w].steps = [exec[w].steps EXCEPT ![cur[w]] = "FAILED"]
    BY <1>1, <1>5
  <2>2. ~Underway(exec'[w])
    BY <1>1, <1>2, <2>1 DEF Underway, Records
  <2> QED
    BY <2>2 DEF Quits
<1> QED
  BY <1>3, <1>4, <1>5 DEF Moved

\* On the way to the store and back the call does not change its mind
\* (execute.go:559-644).
LEMMA PersistQuits ==
  ASSUME TypeInv, QuitInv, NEW w \in Workers,
         RenewLease(w) \/ Save(w) \/ Notify(w) \/ PanicInObserver(w)
  PROVE  Quits(w)'
<1>1. /\ UNCHANGED <<exec, ctx, next>>
      /\ pc[w] \in {"renew", "save", "notify"}
      /\ \/ pc'[w] \in {"release", "notify", next[w]}
         \/ pc[w] = "renew" /\ pc'[w] = "save" /\ store' = store
      /\ next[w] \in Continuations
  BY DEF RenewLease, Save, Notify, PanicInObserver, At, Goto, Finish, TypeInv,
     TypeOK, ControlTypes, InHand
<1>2. Stage(w)' \in {Stage(w), "release"}
  BY <1>1 DEF Stage, Continuations
<1> QED
  BY <1>1, <1>2 DEF QuitInv, Quits, Continuations, Ended

\* A FAILED step is what the run stopped at: none is under way
\* (execute.go:196-200).
LEMMA ResumeQuits ==
  ASSUME TypeInv, ShapeInv, NEW w \in Workers, ResumeFailedStep(w)
  PROVE  Quits(w)'
<1>1. /\ exec[w] \in Records /\ exec' = exec /\ pc'[w] = "abort"
      /\ WellFormed(exec[w])
  BY LiveIsWellFormed DEF ResumeFailedStep, At, Goto, outside, TypeInv, TypeOK,
     ControlTypes, HandTypes
<1>2. PICK i \in Steps : exec[w].steps[i] = "FAILED"
  BY DEF ResumeFailedStep, IsFirstFailed
<1>3. ASSUME NEW j \in Steps PROVE exec[w].steps[j] # "RUNNING"
  <2>1. CASE i < j
    BY <1>1, <1>2, <2>1 DEF WellFormed, Sequential, Reached
  <2>2. CASE j < i
    BY <1>1, <1>2, <2>2 DEF WellFormed, Sequential, Reached
  <2>3. CASE i = j
    BY <1>2, <2>3
  <2> QED
    BY <2>1, <2>2, <2>3
<1> QED
  BY <1>1, <1>3 DEF Quits, Underway

\* Everywhere else the call is not about to give up, or has lost its context.
LEMMA OtherQuits ==
  ASSUME NEW w \in Workers,
         \/ pc'[w] \notin {"renew", "save", "notify", "abort"}
         \/ pc'[w] = "abort" /\ Ended(w)'
  PROVE  Quits(w)'
BY DEF Quits, Stage, Ended

\* Every step of the worker (execute.go:80-644).
LEMMA WorkerQuits ==
  ASSUME TypeInv, ShapeInv, TrackInv, QuitInv, NEW w \in Workers, WorkerStep(w)
  PROVE  Quits(w)'
<1> pc \in [Workers -> Labels] /\ ctx \in [Workers -> {"live", "cancelled",
                                                       "sagaTimeout"}]
  BY DEF TypeInv, TypeOK, ControlTypes
<1>1. CASE \/ Execute(w) \/ SaveInitial(w) \/ AcquireLease(w)
           \/ ResumeForward(w) \/ ResumeCompensating(w) \/ StopForward(w)
           \/ RetryInterruptedStep(w) \/ Invoke(w) \/ Rollback(w)
           \/ InvokeCompensate(w) \/ Release(w) \/ Crash(w) \/ PanicInStep(w)
  BY <1>1, OtherQuits DEF Execute, SaveInitial, AcquireLease, ResumeForward,
     ResumeCompensating, StopForward, RetryInterruptedStep, Invoke, Rollback,
     InvokeCompensate, Release, Crash, PanicInStep, Goto, Leave, Finish, locals,
     Ended
<1>2. CASE Recover(w)
  BY <1>2, OtherQuits DEF Recover, At, Goto
<1>3. CASE ContextEnds(w) \/ Downstream(w)
  <2>1. /\ UNCHANGED <<pc, next, exec, store>>
        /\ Ended(w) => Ended(w)'
    BY <1>3 DEF ContextEnds, Downstream, ActionApplies, UndoApplies, locals,
       outside, Ended
  <2> QED
    BY <2>1 DEF QuitInv, Quits, Stage
<1>4. CASE BeginRun(w) \/ FinishRun(w) \/ FinishRollback(w)
  BY <1>4, ExecQuits DEF BeginRun, FinishRun, FinishRollback, RollbackOutcome,
     Status
<1>5. CASE AbortFailed(w) \/ AbortCompensating(w)
  BY <1>5, AbortQuits
<1>6. CASE StartStep(w)
  BY <1>6, StepQuits DEF StartStep, At, Deciding, StepStatus, Labels, outside
<1>7. CASE UndoStep(w)
  <2>1. PICK i \in Steps :
          \/ TransitionStep(w, i, "COMPENSATING", "compensate")
          \/ Goto(w, "compensate")
    BY <1>7 DEF UndoStep
  <2>2. CASE TransitionStep(w, i, "COMPENSATING", "compensate")
    BY <1>7, <2>2, StepQuits DEF UndoStep, At, Deciding, StepStatus, Labels,
       outside
  <2>3. CASE Goto(w, "compensate")
    BY <2>3, OtherQuits DEF Goto
  <2> QED
    BY <2>1, <2>2, <2>3
<1>8. CASE UndoReturns(w)
  <2>1. cur[w] \in Steps
    BY <1>8, HandAt DEF UndoReturns, At, Deciding, Stepping
  <2> QED
    BY <1>8, <2>1, StepQuits DEF UndoReturns, At, Deciding, StepStatus, Labels,
       outside
<1>9. CASE GiveUpStep(w) \/ Backoff(w) \/ ActionReturns(w)
  <2>1. pc[w] \in Stepping /\ cur[w] \in Steps /\ UNCHANGED store
    BY <1>9, HandAt DEF GiveUpStep, Backoff, ActionReturns, At, Deciding,
       Stepping, outside
  <2>2. CASE FailStep(w)
    BY <2>1, <2>2, FailQuits
  <2>3. CASE TransitionStep(w, cur[w], "SUCCEEDED", "forward")
    BY <2>1, <2>3, StepQuits DEF Deciding, Stepping, StepStatus, Labels
  <2>4. CASE Goto(w, "attempt") \/ Goto(w, "backoff")
    BY <2>4, OtherQuits DEF Goto
  <2> QED
    BY <1>9, <2>2, <2>3, <2>4 DEF GiveUpStep, Backoff, ActionReturns
<1>10. CASE ResumeFailedStep(w)
  BY <1>10, ResumeQuits
<1>11. CASE RenewLease(w) \/ Save(w) \/ Notify(w) \/ PanicInObserver(w)
  BY <1>11, PersistQuits
<1> QED
  BY <1>1, <1>2, <1>3, <1>4, <1>5, <1>6, <1>7, <1>8, <1>9, <1>10, <1>11
     DEF WorkerStep, Engine, Environment

LEMMA QuitNext ==
  ASSUME Alone, TypeInv, ShapeInv, TrackInv, QuitInv, [Next]_vars
  PROVE  QuitInv'
<1>1. ASSUME NEW w \in Workers, WorkerStep(w) PROVE QuitInv'
  BY <1>1, WorkerQuits DEF Alone, QuitInv
<1>2. CASE Lapse \/ UNCHANGED vars
  <2>1. UNCHANGED <<store, pc, next, exec, ctx>>
    BY <1>2 DEF Lapse, vars, locals, outside
  <2> QED
    BY <2>1 DEF QuitInv, Quits, Stage, Ended
<1> QED
  BY <1>1, <1>2 DEF Next, Rest, WorkerStep

\* The record that leaves a step behind follows one whose saga was running.
LEMMA AbandonsRunning ==
  ASSUME NEW q, NEW r, r.steps \in [Steps -> StepStatus], Follows(q, r),
         Abandoned(q), ~Abandoned(r)
  PROVE  /\ r.status = "RUNNING" /\ Underway(q)
         /\ q.status \in {"FAILED", "COMPENSATING"}
<1>1. CASE q.steps = r.steps /\ Turns(r, q.status)
  BY <1>1 DEF Abandoned, Turns, Underway
<1>2. CASE /\ q.status = r.status
           /\ \E i \in Steps, s \in StepStatus :
                Moves(r, i, s) /\ q.steps = [r.steps EXCEPT ![i] = s]
  BY <1>2 DEF Abandoned, Moves
<1> QED
  BY <1>1, <1>2 DEF Follows

\* A step whose outcome is unknown is only left behind by a call whose context
\* has ended: no crash, error, panic or resume makes one (execute.go:204-217).
THEOREM AbandonedOnlyByContext ==
  ASSUME Alone
  PROVE  Spec => AbandonedByContext
<1>1. Init => TypeInv /\ ShapeInv /\ TrackInv /\ QuitInv
  <2>1. ASSUME Init PROVE QuitInv
    BY <2>1 DEF Init, QuitInv, Quits, Stage
  <2> QED
    BY <2>1, TypeInit, ShapeInit, TrackInit
<1>2. TypeInv /\ ShapeInv /\ TrackInv /\ QuitInv /\ [Next]_vars =>
        TypeInv' /\ ShapeInv' /\ TrackInv' /\ QuitInv'
  BY TypeNext, ShapeNext, TrackNext, QuitNext
<1>3. TypeInv /\ TrackInv /\ QuitInv /\ [Next]_vars =>
        [Abandoned(store') /\ ~Abandoned(store) =>
           \E w \in Workers : At(w, "save") /\ Ended(w)]_vars
  <2> SUFFICES ASSUME TypeInv, TrackInv, QuitInv, [Next]_vars,
                      Abandoned(store'), ~Abandoned(store)
               PROVE  \E w \in Workers : At(w, "save") /\ Ended(w)
    OBVIOUS
  <2>1. store' # store
    OBVIOUS
  <2>2. ~Abandoned(NewExecution)
    BY DEF Abandoned, NewExecution
  <2>3. PICK w \in Workers : Save(w) /\ store' = exec[w]
    BY <2>1, <2>2, StoreWriters
  <2>4. At(w, "save") /\ Follows(exec[w], store)
    BY <2>3 DEF Save, At, TrackInv, Tracks
  <2>5. /\ store.status = "RUNNING" /\ Underway(exec[w])
        /\ exec[w].status \in {"FAILED", "COMPENSATING"}
    BY <2>3, <2>4, AbandonsRunning DEF TypeInv, TypeOK, StoreTypes, Records
  <2> QED
    BY <2>4, <2>5 DEF QuitInv, Quits, At
<1> QED
  BY <1>1, <1>2, <1>3, PTL DEF Spec, AbandonedByContext

===============================================================================
