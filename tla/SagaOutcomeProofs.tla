--------------------------- MODULE SagaOutcomeProofs --------------------------
(***************************************************************************)
(* Proofs about what can be concluded from the outcome of an execution     *)
(* driven by SagaEngine: that a saga left nothing behind, that nothing was *)
(* called again whose outcome was unknown, and that what a call reports is *)
(* what the store holds.  The first two build on SagaSoloProofs, so calls  *)
(* do not overlap; the last is about any number of workers and the lease.  *)
(***************************************************************************)
EXTENDS SagaSoloProofs

USE StepsAssumption, LeaseAssumption, EngineAssumption DEF Steps

-------------------------------------------------------------------------------
(***************************************************************************)
(* Nothing is left behind.  A call that nobody cancels and no deadline     *)
(* cuts short only gives a step up once its Action has said that it had no *)
(* effect, and only turns round once no step is under way.                 *)
(***************************************************************************)
Undisturbed ==
  Idempotent /\ Env \cap {"cancel", "sagaTimeout", "stepTimeout"} = {}

\* A step recorded FAILED had no effect.
Untouched(r) == \A i \in Steps : r.steps[i] = "FAILED" => world[i] # "done"

\* Once the saga has given up no step is under way.
Decided(r) ==
  r.status = "FAILED" \/ RollingBack(r) =>
    \A i \in Steps : r.steps[i] # "RUNNING"

Cleans(w) ==
  /\ ctx[w] = "live"
  /\ pc[w] \in {"renew", "save"} => Untouched(exec[w]) /\ Decided(exec[w])
  /\ Stage(w) = "abort" => exec[w].steps[cur[w]] = "FAILED"

CleanInv ==
  /\ Untouched(store) /\ Decided(store)
  /\ \A w \in Workers : Cleans(w)

\* What a step of w owes.
Clean(w) == Untouched(store) /\ Decided(store) /\ Cleans(w)

\* With the step in hand FAILED nothing is under way (execute.go:382-403).
LEMMA AbortIsDecided ==
  ASSUME NEW r \in Records, NEW i \in Steps, NEW n, NEW a,
         ReadyAt("abort", r, i, n, a), r.steps[i] = "FAILED"
  PROVE  \A j \in Steps : r.steps[j] # "RUNNING"
BY DEF ReadyAt, WellFormed, Sequential, IsFrontier, Reached

\* A step is recorded FAILED with no effect, and only then does the call come to
\* abort (execute.go:234-240).
LEMMA StepClean ==
  ASSUME TypeInv, TrackInv, CleanInv, NEW w \in Workers, Sound(w),
         pc[w] \in Deciding,
         NEW i \in Steps, NEW to \in StepStatus, NEW l \in Continuations,
         TransitionStep(w, i, to, l), Moves(exec[w], i, to),
         UNCHANGED <<store, world, ctx>>,
         to = "FAILED" => world[i] # "done",
         l = "abort" => to = "FAILED" /\ cur'[w] = i
  PROVE  Clean(w)'
<1>1. CanTransitionStepStatus(exec[w].steps[i], to)
  BY DEF TransitionStep, Finish, Sound, TypeInv, TypeOK, ControlTypes
<1>2. /\ pc'[w] \in {"renew", "save"} /\ Stage(w)' = l
      /\ exec[w] \in Records /\ exec'[w] \in Records
      /\ WithStep(exec[w], exec'[w], i, to)
  BY <1>1, StepAdvances
<1>3. Untouched(exec[w]) /\ Decided(exec[w])
  BY DEF TrackInv, Tracks, Agrees, CleanInv, Untouched, Decided, RollingBack
<1>4. /\ exec'[w].steps[i] = to /\ exec'[w].status = exec[w].status
      /\ \A j \in Steps \ {i} : exec'[w].steps[j] = exec[w].steps[j]
  BY <1>2 DEF Records, WithStep
<1>5. Untouched(exec[w])'
  BY <1>3, <1>4 DEF Untouched
<1>6. Decided(exec[w])'
  BY <1>3, <1>4 DEF Decided, RollingBack, Moves
<1>7. (Untouched(store) /\ Decided(store))'
  BY DEF CleanInv, Untouched, Decided, RollingBack
<1> QED
  BY <1>2, <1>4, <1>5, <1>6, <1>7 DEF CleanInv, Clean, Cleans

\* The execution only moves on to a status under which nothing is under way
\* once nothing is.
LEMMA ExecClean ==
  ASSUME TypeInv, TrackInv, CleanInv, NEW w \in Workers, Sound(w),
         pc[w] \in Deciding,
         NEW to \in Status, NEW l \in Continuations \ {"abort"},
         TransitionExec(w, to, l), Turns(exec[w], to),
         UNCHANGED <<store, world, ctx>>,
         to \in {"FAILED", "COMPENSATING"} =>
           \A i \in Steps : exec[w].steps[i] # "RUNNING"
  PROVE  Clean(w)'
<1>1. CanTransitionStatus(exec[w].status, to)
  BY DEF TransitionExec, Finish, Sound, TypeInv, TypeOK, ControlTypes
<1>2. /\ pc'[w] \in {"renew", "save"} /\ Stage(w)' = l
      /\ WithStatus(exec[w], exec'[w], to)
  BY <1>1, ExecAdvances
<1>3. Untouched(exec[w]) /\ Decided(exec[w])
  BY DEF TrackInv, Tracks, Agrees, CleanInv, Untouched, Decided, RollingBack
<1>4. Untouched(exec[w])'
  BY <1>2, <1>3 DEF WithStatus, Untouched
<1>5. Decided(exec[w])'
  BY <1>2, <1>3 DEF WithStatus, Decided, RollingBack, Turns
<1>6. (Untouched(store) /\ Decided(store))'
  BY DEF CleanInv, Untouched, Decided, RollingBack
<1> QED
  BY <1>2, <1>4, <1>5, <1>6 DEF CleanInv, Clean, Cleans

\* Steps that touch neither the record nor the world, nor come to abort.
LEMMA QuietClean ==
  ASSUME CleanInv, NEW w \in Workers, UNCHANGED <<store, world>>,
         ctx'[w] = "live", pc'[w] \notin {"renew", "save"},
         Stage(w)' = "abort" => exec'[w].steps[cur'[w]] = "FAILED"
  PROVE  Clean(w)'
BY DEF CleanInv, Clean, Cleans, Untouched, Decided, RollingBack

\* The execution moves (execute.go:156-254, 393-403, 532-539).
LEMMA ExecStepsClean ==
  ASSUME TypeInv, ShapeInv, TrackInv, CleanInv, NEW w \in Workers, Sound(w),
         \/ BeginRun(w) \/ FinishRun(w) \/ AbortFailed(w)
         \/ AbortCompensating(w) \/ FinishRollback(w)
  PROVE  Clean(w)'
<1>1. CASE BeginRun(w)
  <2>1. Turns(exec[w], "RUNNING")
    BY <1>1 DEF BeginRun, Turns
  <2> QED
    BY <1>1, <2>1, ExecClean DEF BeginRun, At, Deciding, Status,
       Continuations, outside, ghosts
<1>2. CASE FinishRun(w)
  <2>1. Turns(exec[w], "COMPLETED")
    BY <1>2, HandAt, CompleteTurns DEF FinishRun, At, Deciding
  <2> QED
    BY <1>2, <2>1, ExecClean DEF FinishRun, At, Deciding, Status,
       Continuations, outside, ghosts
<1>3. ASSUME pc[w] = "abort"
      PROVE  \A j \in Steps : exec[w].steps[j] # "RUNNING"
  <2>1. exec[w].steps[cur[w]] = "FAILED"
    BY <1>3 DEF CleanInv, Cleans, Stage
  <2> QED
    BY <1>3, <2>1, HandAt, AbortIsDecided DEF Deciding
<1>4. CASE AbortFailed(w)
  <2>1. Turns(exec[w], "FAILED")
    BY <1>4, HandAt, FailTurns DEF AbortFailed, At, Deciding
  <2> QED
    BY <1>3, <1>4, <2>1, ExecClean DEF AbortFailed, At, Deciding, Status,
       Continuations, outside, ghosts
<1>5. CASE AbortCompensating(w)
  <2>1. Turns(exec[w], "COMPENSATING")
    BY <1>5, HandAt, BackTurns DEF AbortCompensating, At, Deciding
  <2> QED
    BY <1>3, <1>5, <2>1, ExecClean DEF AbortCompensating, At, Deciding,
       Status, Continuations, outside, ghosts
<1>6. CASE FinishRollback(w)
  <2>1. Turns(exec[w], RollbackOutcome(exec[w], failedAt[w]))
    BY <1>6, HandAt, SettleTurns DEF FinishRollback, At, Deciding
  <2>2. RollbackOutcome(exec[w], failedAt[w])
          \in {"COMPENSATED", "COMPENSATION_FAILED"}
    BY DEF RollbackOutcome
  <2> QED
    BY <1>6, <2>1, <2>2, ExecClean DEF FinishRollback, At, Deciding, Status,
       Continuations, outside, ghosts
<1> QED
  BY <1>1, <1>2, <1>4, <1>5, <1>6

\* A step moves that has not failed.
LEMMA StepStepsClean ==
  ASSUME TypeInv, ShapeInv, TrackInv, CleanInv, NEW w \in Workers, Sound(w),
         StartStep(w) \/ UndoStep(w) \/ UndoReturns(w)
  PROVE  Clean(w)'
<1>1. CASE StartStep(w)
  <2>1. Moves(exec[w], cur[w], "RUNNING")
    BY <1>1, HandAt, StartMoves DEF StartStep, At, Deciding
  <2> QED
    BY <1>1, <2>1, StepClean DEF StartStep, At, Deciding, Continuations,
       StepStatus, outside, ghosts
<1>2. CASE UndoStep(w)
  <2>1. PICK i \in Steps :
          /\ IsNextUndo(w, i)
          /\ IF exec[w].steps[i] = "SUCCEEDED"
             THEN TransitionStep(w, i, "COMPENSATING", "compensate")
             ELSE Goto(w, "compensate") /\ UNCHANGED <<next, exec, result>>
    BY <1>2 DEF UndoStep
  <2>2. /\ UNCHANGED <<store, world, ctx>> /\ pc[w] = "undo"
        /\ pc[w] \in Deciding
    BY <1>2 DEF UndoStep, outside, ghosts, At, Deciding
  <2>3. CASE exec[w].steps[i] = "SUCCEEDED"
    <3>1. Moves(exec[w], i, "COMPENSATING")
      BY <2>1, <2>2, <2>3, HandAt, UndoMoves DEF IsNextUndo
    <3> QED
      BY <2>1, <2>2, <2>3, <3>1, StepClean DEF Continuations, StepStatus
  <2>4. CASE exec[w].steps[i] # "SUCCEEDED"
    <3>1. pc'[w] = "compensate"
      BY <2>1, <2>4 DEF Goto, TypeInv, TypeOK, ControlTypes
    <3> QED
      BY <2>2, <3>1, QuietClean DEF Stage, CleanInv, Cleans
  <2> QED
    BY <2>3, <2>4
<1>3. CASE UndoReturns(w)
  <2>1. /\ UNCHANGED <<store, world, ctx>> /\ pc[w] = "undoing"
        /\ cur[w] \in Steps /\ pc[w] \in Deciding
    BY <1>3, HandAt DEF UndoReturns, outside, ghosts, At, Deciding
  <2>2. Moves(exec[w], cur[w], "COMPENSATED")
        /\ Moves(exec[w], cur[w], "COMPENSATION_FAILED")
    BY <2>1, HandAt, UndoneMoves
  <2> QED
    BY <1>3, <2>1, <2>2, StepClean DEF UndoReturns, Continuations, StepStatus
<1> QED
  BY <1>1, <1>2, <1>3

\* An Action that a repeated OperationID reaches twice does not fail after it
\* took effect, so the step that is given up had none (execute.go:294-312).
LEMMA ActionStepsClean ==
  ASSUME Undisturbed, TypeInv, ShapeInv, TrackInv, CleanInv,
         NEW w \in Workers, Sound(w), ActionReturns(w)
  PROVE  Clean(w)'
<1>1. /\ UNCHANGED <<store, world, ctx>> /\ pc[w] = "acting"
      /\ pc[w] \in Deciding /\ pc[w] \in Stepping /\ ctx[w] = "live"
  BY DEF ActionReturns, outside, ghosts, At, Stepping, Deciding, CleanInv, Cleans
<1>2. /\ cur[w] \in Steps /\ exec[w] \in Records
      /\ ReadyAt("acting", exec[w], cur[w], failedAt[w], attempt[w])
  BY <1>1, HandAt
<1>3. Moves(exec[w], cur[w], "SUCCEEDED") /\ Moves(exec[w], cur[w], "FAILED")
  BY <1>2, ConcludeMoves DEF Stepping
<1>4. CASE TransitionStep(w, cur[w], "SUCCEEDED", "forward")
  BY <1>1, <1>2, <1>3, <1>4, StepClean DEF Continuations, StepStatus
<1>5. CASE Goto(w, "backoff")
  <2>1. pc'[w] = "backoff"
    BY <1>5 DEF Goto, TypeInv, TypeOK, ControlTypes
  <2> QED
    BY <1>1, <2>1, QuietClean DEF Stage
<1>6. CASE /\ FailStep(w) /\ UNCHANGED cur
           /\ \E out \in Outcomes(w) : ~(out = "ok" /\ ctx[w] # "sagaTimeout")
  <2>1. world[cur[w]] # "done"
    BY <1>1, <1>6 DEF Undisturbed, Outcomes
  <2> QED
    BY <1>1, <1>2, <1>3, <1>6, <2>1, StepClean DEF FailStep, Continuations,
       StepStatus
<1> QED
  BY <1>4, <1>5, <1>6 DEF ActionReturns

\* Nothing else gives a step up, or comes to abort without a failed step.
LEMMA QuietStepsClean ==
  ASSUME TypeInv, ShapeInv, CleanInv, NEW w \in Workers,
         \/ Execute(w) \/ Recover(w) \/ AcquireLease(w)
         \/ ResumeFailedStep(w) \/ ResumeForward(w) \/ ResumeCompensating(w)
         \/ StopForward(w) \/ RetryInterruptedStep(w) \/ Invoke(w)
         \/ GiveUpStep(w) \/ Backoff(w) \/ Rollback(w) \/ InvokeCompensate(w)
         \/ Release(w) \/ Crash(w) \/ PanicInStep(w)
  PROVE  Clean(w)'
<1>0. ctx[w] = "live" /\ ~Ended(w)
  BY DEF CleanInv, Cleans, Ended
<1>1. CASE Execute(w) \/ Recover(w) \/ AcquireLease(w)
  <2>1. /\ UNCHANGED <<store, world>> /\ ctx'[w] = "live"
        /\ pc'[w] \in {"idle", "create", "acquire", "resume"}
    BY <1>0, <1>1 DEF Execute, Recover, AcquireLease, outside, locals, ghosts, At,
       Goto, Leave, Forget, TypeInv, TypeOK, ControlTypes
  <2> QED
    BY <1>0, <2>1, QuietClean DEF Stage
<1>2. CASE ResumeFailedStep(w)
  <2>1. /\ UNCHANGED <<store, world, ctx, exec>> /\ pc'[w] = "abort"
        /\ exec[w].steps[cur'[w]] = "FAILED"
    BY <1>2 DEF ResumeFailedStep, IsFirstFailed, outside, ghosts, Goto, TypeInv,
       TypeOK, ControlTypes, HandTypes
  <2> QED
    BY <1>0, <2>1, QuietClean
<1>3. CASE \/ ResumeForward(w) \/ ResumeCompensating(w)
           \/ RetryInterruptedStep(w) \/ Invoke(w) \/ Rollback(w)
           \/ InvokeCompensate(w)
  <2>1. /\ UNCHANGED <<store, world, ctx>>
        /\ pc'[w] \in {"forward", "rollback", "attempt", "acting", "undo",
                        "undoing"}
    BY <1>3 DEF ResumeForward, ResumeCompensating, RetryInterruptedStep, Invoke,
       Rollback, InvokeCompensate, outside, locals, ghosts, Goto, TypeInv,
       TypeOK, ControlTypes
  <2> QED
    BY <1>0, <2>1, QuietClean DEF Stage
<1>4. CASE StopForward(w) \/ GiveUpStep(w)
  BY <1>0, <1>4 DEF StopForward, GiveUpStep
<1>5. CASE Backoff(w)
  <2>1. /\ UNCHANGED <<store, world, ctx>> /\ pc'[w] = "attempt"
    BY <1>0, <1>5 DEF Backoff, outside, ghosts, Goto, TypeInv, TypeOK,
       ControlTypes
  <2> QED
    BY <1>0, <2>1, QuietClean DEF Stage
<1>6. CASE Release(w) \/ Crash(w) \/ PanicInStep(w)
  <2>1. /\ UNCHANGED <<store, world>> /\ ctx'[w] = "live"
        /\ pc'[w] \in {"idle", "release"}
    BY <1>0, <1>6 DEF Release, Crash, PanicInStep, Forget, Finish, ghosts, Goto,
       TypeInv, TypeOK, ControlTypes
  <2> QED
    BY <2>1, QuietClean DEF Stage
<1> QED
  BY <1>1, <1>2, <1>3, <1>4, <1>5, <1>6

\* What is saved was clean before.
LEMMA PersistStepsClean ==
  ASSUME TypeInv, TrackInv, CleanInv, NEW w \in Workers,
         \/ SaveInitial(w) \/ RenewLease(w) \/ Save(w) \/ Notify(w)
         \/ PanicInObserver(w)
  PROVE  Clean(w)'
<1>1. UNCHANGED world /\ ctx[w] = "live"
  BY DEF SaveInitial, RenewLease, Save, Notify, PanicInObserver, ghosts,
     CleanInv, Cleans
<1>2. CASE SaveInitial(w)
  <2>1. /\ store' \in {store, NewExecution} /\ pc'[w] \in {"acquire", "idle"}
        /\ ctx'[w] = "live"
    BY <1>1, <1>2 DEF SaveInitial, WriteFails, At, Put, TrackInv, Tracks, Goto,
       Leave, Forget, locals, TypeInv, TypeOK, ControlTypes
  <2>2. (Untouched(store) /\ Decided(store))'
    BY <1>1, <2>1 DEF CleanInv, Untouched, Decided, RollingBack, NewExecution
  <2> QED
    BY <1>1, <2>1, <2>2 DEF Clean, Cleans, Stage
<1>3. CASE RenewLease(w)
  <2>1. /\ store' = store /\ pc[w] = "renew" /\ pc'[w] \in {"save", "release"}
        /\ UNCHANGED <<exec, cur, ctx, next>>
    BY <1>3 DEF RenewLease, At, Goto, Finish, TypeInv, TypeOK, ControlTypes
  <2>2. Untouched(exec[w])' /\ Decided(exec[w])'
    BY <1>1, <2>1 DEF CleanInv, Cleans, Untouched, Decided, RollingBack
  <2>3. (Untouched(store) /\ Decided(store))'
    BY <1>1, <2>1 DEF CleanInv, Untouched, Decided, RollingBack
  <2>4. Stage(w)' = "abort" => Stage(w) = "abort"
    BY <1>1, <2>1 DEF Stage
  <2> QED
    BY <1>1, <2>1, <2>2, <2>3, <2>4 DEF CleanInv, Clean, Cleans
<1>4. CASE Save(w)
  <2>1. /\ store' \in {store, exec[w]} /\ pc[w] = "save"
        /\ pc'[w] \in {"notify", "release"}
        /\ UNCHANGED <<exec, cur, ctx, next>>
    BY <1>4 DEF Save, WriteFails, Put, At, Goto, Finish, TypeInv, TypeOK, ControlTypes
  <2>2. (Untouched(store) /\ Decided(store))'
    BY <1>1, <2>1 DEF CleanInv, Cleans, Untouched, Decided, RollingBack
  <2>3. Stage(w)' = "abort" => Stage(w) = "abort"
    BY <1>1, <2>1 DEF Stage
  <2> QED
    BY <1>1, <2>1, <2>2, <2>3 DEF CleanInv, Clean, Cleans
<1>5. CASE Notify(w) \/ PanicInObserver(w)
  <2>1. /\ store' = store /\ pc[w] = "notify"
        /\ pc'[w] \in {"release", next[w]} /\ next[w] \in Continuations
        /\ UNCHANGED <<exec, cur, ctx, next>>
    BY <1>5 DEF Notify, PanicInObserver, At, Goto, Finish, TypeInv, TypeOK,
       ControlTypes, InHand
  <2>2. Stage(w)' = "abort" => Stage(w) = "abort"
    BY <2>1 DEF Stage, Continuations
  <2> QED
    BY <1>1, <2>1, <2>2, QuietClean DEF CleanInv, Cleans, Continuations
<1> QED
  BY <1>2, <1>3, <1>4, <1>5

\* An effect appears only under a step that is RUNNING, not FAILED.
LEMMA DownstreamClean ==
  ASSUME TypeInv, ShapeInv, TrackInv, CleanInv, NEW w \in Workers, Downstream(w)
  PROVE  Clean(w)'
<1>1. /\ UNCHANGED <<store, pc, exec, cur, ctx, next>>
      /\ pc[w] \in {"acting", "undoing"} /\ pc[w] \in Deciding
  BY DEF Downstream, ActionApplies, UndoApplies, At, Deciding, locals
<1>2. cur[w] \in Steps /\ exec[w].steps[cur[w]] # "FAILED" /\ Agrees(w)
  BY <1>1, HandAt DEF TrackInv, Tracks, ReadyAt, Stepping, Undoing
<1>3. \A i \in Steps \ {cur[w]} : world'[i] = world[i]
  BY DEF Downstream, ActionApplies, UndoApplies, TypeInv, TypeOK, GhostTypes
<1>4. (Untouched(store) /\ Decided(store))'
  BY <1>1, <1>2, <1>3 DEF CleanInv, Untouched, Decided, RollingBack, Agrees
<1> QED
  BY <1>1, <1>4 DEF CleanInv, Clean, Cleans, Stage

\* Every step of the worker leaves its records clean (execute.go:80-644).
LEMMA WorkerClean ==
  ASSUME Undisturbed, TypeInv, ShapeInv, TrackInv, CleanInv, NEW w \in Workers,
         WorkerStep(w)
  PROVE  Clean(w)'
<1>1. Sound(w)
  BY WorkerSound
<1>2. ~ContextEnds(w)
  BY DEF Undisturbed, ContextEnds
<1> QED
  BY <1>1, <1>2, ExecStepsClean, StepStepsClean, ActionStepsClean,
     QuietStepsClean, PersistStepsClean, DownstreamClean
     DEF WorkerStep, Engine, Environment

\* Nothing has failed at first, and no context has ended.
LEMMA CleanInit == ASSUME Init PROVE CleanInv
BY DEF Init, CleanInv, Cleans, Untouched, Decided, RollingBack, Absent, Stage

LEMMA CleanNext ==
  ASSUME Alone, Undisturbed, TypeInv, ShapeInv, TrackInv, CleanInv, [Next]_vars
  PROVE  CleanInv'
<1>1. ASSUME NEW w \in Workers, WorkerStep(w) PROVE CleanInv'
  BY <1>1, WorkerClean DEF Alone, Clean, CleanInv
<1>2. CASE Lapse \/ UNCHANGED vars
  BY <1>2 DEF Lapse, vars, locals, outside, ghosts, CleanInv, Cleans, Untouched,
     Decided, RollingBack, Stage
<1> QED
  BY <1>1, <1>2 DEF Next, Rest, WorkerStep

\* A record that has settled says which effects are left.
LEMMA SettledIsClean ==
  ASSUME TypeInv, ShapeInv, TrackInv, CleanInv
  PROVE  AllOrNothing
<1> SUFFICES ASSUME IsTerminal(store.status), NEW i \in Steps
             PROVE  IF store.status = "COMPLETED"
                    THEN world[i] = "done"
                    ELSE world[i] = "done" =>
                           \/ store.steps[i] = "COMPENSATION_FAILED"
                           \/ store.steps[i] = "SUCCEEDED" /\ i \notin Compensable
  BY DEF AllOrNothing
<1>1. WellFormed(store) /\ store.steps[i] \in StepStatus
  BY DEF ShapeInv, RecordShape, IsTerminal, Terminal, Absent, TypeInv, TypeOK,
     StoreTypes, Records
<1>2. CASE store.status = "COMPLETED"
  BY <1>1, <1>2 DEF WellFormed, Truthful, TrackInv, Matches
<1>3. CASE store.status # "COMPLETED"
  <2> SUFFICES ASSUME world[i] = "done"
               PROVE  \/ store.steps[i] = "COMPENSATION_FAILED"
                      \/ store.steps[i] = "SUCCEEDED" /\ i \notin Compensable
    BY <1>3
  <2>1. store.status = "FAILED" \/ RollingBack(store)
    BY <1>3 DEF IsTerminal, Terminal, RollingBack
  <2>2. store.steps[i] \notin {"PENDING", "RUNNING", "FAILED", "COMPENSATED"}
    BY <2>1 DEF TrackInv, Matches, CleanInv, Untouched, Decided
  <2>3. Reached(store.steps[i])
    BY <1>1, <2>2 DEF StepStatus, Reached
  <2>4. store.status \in {"COMPENSATED", "COMPENSATION_FAILED"}
    BY <1>1, <1>3, <2>3 DEF IsTerminal, Terminal, WellFormed, Truthful
  <2>5. i \in Compensable => Settled(store.steps[i])
    BY <1>1, <2>3, <2>4 DEF WellFormed, Truthful
  <2>6. i \notin Compensable => ~InCompensation(store.steps[i])
    BY <1>1 DEF WellFormed, ForwardOnly
  <2> QED
    BY <2>2, <2>3, <2>5, <2>6 DEF Reached, Settled, InCompensation
<1> QED
  BY <1>2, <1>3

\* With steps that recognise a repeated OperationID, and neither deadlines nor
\* cancellation, a saga that has settled left nothing behind but what nothing
\* could undo, through any number of crashes, errors and panics
\* (README.md:301-315).
THEOREM NothingIsLeftBehind ==
  ASSUME Alone, Undisturbed
  PROVE  Spec => []AllOrNothing
<1>1. Init => TypeInv /\ ShapeInv /\ TrackInv /\ CleanInv
  BY TypeInit, ShapeInit, TrackInit, CleanInit
<1>2. TypeInv /\ ShapeInv /\ TrackInv /\ CleanInv /\ [Next]_vars =>
        TypeInv' /\ ShapeInv' /\ TrackInv' /\ CleanInv'
  BY TypeNext, ShapeNext, TrackNext, CleanNext
<1>3. TypeInv /\ ShapeInv /\ TrackInv /\ CleanInv => AllOrNothing
  BY SettledIsClean
<1> QED
  BY <1>1, <1>2, <1>3, PTL DEF Spec

-------------------------------------------------------------------------------
(***************************************************************************)
(* Nothing is guessed.  No call but one of RecoverAutomatically begins     *)
(* with a step in flight, so the only one that ever is is the one in its   *)
(* hand.                                                                   *)
(***************************************************************************)
InFlight(s) == s \in {"RUNNING", "COMPENSATING"}

\* A step not recorded as begun has not been called, nor its compensation.
Uncalled(r) ==
  \A i \in Steps :
    /\ r.steps[i] = "PENDING" => runs[i] = 0
    /\ ~InCompensation(r.steps[i]) => comps[i] = 0

Careful(w) == role[w] # "RecoverAutomatically"

\* What a careful call knows of the steps it has in its copy.
Knows(w) ==
  /\ Stage(w) \notin {"idle", "release"} =>
       \A i \in Steps : InFlight(exec[w].steps[i]) =>
         Stage(w) \in Stepping \cup {"compensate", "undoing"} /\ i = cur[w]
  /\ Stage(w) \in Stepping => runs[cur[w]] <= attempt[w]
  /\ Stage(w) = "compensate" => comps[cur[w]] = 0

GuessInv ==
  /\ Uncalled(store)
  /\ \A w \in Workers : Careful(w) => Knows(w)

\* While a step is being run it is the only one in flight, every one before it
\* having succeeded (execute.go:212-246).
LEMMA OneStepRuns ==
  ASSUME NEW r \in Records, NEW i \in Steps, NEW n, NEW a,
         NEW l \in Stepping, ReadyAt(l, r, i, n, a), NEW j \in Steps,
         InFlight(r.steps[j])
  PROVE  j = i
<1>1. /\ r.status = "RUNNING" /\ IsFrontier(r, i) /\ r.steps[i] = "RUNNING"
      /\ Sequential(r) /\ ForwardOnly(r)
  BY DEF ReadyAt, WellFormed, Stepping
<1>2. ~Reached(r.steps[i]) /\ r.steps[j] = "RUNNING"
  BY <1>1 DEF InFlight, Reached, ForwardOnly, InCompensation, RollingBack
<1> QED
  BY <1>1, <1>2 DEF IsFrontier, Sequential

\* A step that has not been started is PENDING when its turn comes, unless it is
\* in flight (execute.go:215-227).
LEMMA TurnIsPending ==
  ASSUME NEW r \in Records, NEW i \in Steps, NEW n, NEW a,
         ReadyAt("forward", r, i, n, a), ~InFlight(r.steps[i])
  PROVE  r.steps[i] = "PENDING"
<1>1. /\ r.status = "RUNNING" /\ r.steps[i] \notin {"SUCCEEDED", "FAILED"}
      /\ ForwardOnly(r) /\ r.steps[i] \in StepStatus
  BY DEF ReadyAt, IsFrontier, WellFormed, Stepping, Records
<1> QED
  BY <1>1 DEF ForwardOnly, InCompensation, Settled, RollingBack, InFlight,
     StepStatus

\* A record never forgets that a step has begun (status.go:88-96).
LEMMA UncalledFollows ==
  ASSUME NEW q \in Records, NEW r \in Records, Follows(q, r), Uncalled(r)
  PROVE  Uncalled(q)
BY DEF Follows, Moves, Uncalled, InCompensation, Settled, Records

\* Whoever calls an Action or a Compensate, it is recorded as begun
\* (execute.go:221-232, 510-519).
LEMMA UncalledNext ==
  ASSUME TypeInv, ShapeInv, TrackInv, Uncalled(store), [Next]_vars
  PROVE  Uncalled(store)'
<1>1. ASSUME NEW w \in Workers, Invoke(w) PROVE Uncalled(store)'
  <2>1. /\ UNCHANGED <<store, comps>> /\ pc[w] = "attempt"
        /\ runs' = [runs EXCEPT ![cur[w]] = Tick(@)]
    BY <1>1 DEF Invoke, At
  <2>2. store.steps[cur[w]] = "RUNNING"
    BY <2>1, HandAt DEF Deciding, ReadyAt, Stepping, TrackInv, Tracks, Agrees
  <2>3. \A i \in Steps \ {cur[w]} : runs'[i] = runs[i]
    BY <2>1 DEF TypeInv, TypeOK, GhostTypes
  <2> QED
    BY <2>1, <2>2, <2>3 DEF Uncalled
<1>2. ASSUME NEW w \in Workers, InvokeCompensate(w) PROVE Uncalled(store)'
  <2>1. /\ UNCHANGED <<store, runs>> /\ pc[w] = "compensate"
        /\ comps' = [comps EXCEPT ![cur[w]] = Tick(@)]
    BY <1>2 DEF InvokeCompensate, At
  <2>2. store.steps[cur[w]] = "COMPENSATING"
    BY <2>1, HandAt DEF Deciding, ReadyAt, TrackInv, Tracks, Agrees
  <2>3. \A i \in Steps \ {cur[w]} : comps'[i] = comps[i]
    BY <2>1 DEF TypeInv, TypeOK, GhostTypes
  <2> QED
    BY <2>1, <2>2, <2>3 DEF Uncalled, InCompensation
<1>3. CASE UNCHANGED <<runs, comps>>
  <2>1. CASE store' = store
    BY <1>3, <2>1 DEF Uncalled
  <2>2. CASE store' = NewExecution /\ store = Absent
    BY <1>3, <2>2 DEF Uncalled, NewExecution, Absent
  <2>3. CASE Follows(store', store)
    <3>1. store \in Records /\ store' \in Records
      BY TypeNext DEF TypeInv, TypeOK, StoreTypes
    <3>2. Uncalled(store')
      BY <2>3, <3>1, UncalledFollows
    <3> QED
      BY <1>3, <3>2 DEF Uncalled
  <2> QED
    BY <2>1, <2>2, <2>3, StoreMoves
<1>4. ASSUME NEW w \in Workers, WorkerStep(w), ~Invoke(w),
             ~InvokeCompensate(w)
      PROVE  UNCHANGED <<runs, comps>>
  BY <1>4 DEF WorkerStep, Execute, Recover, Engine, Downstream, Environment,
     SaveInitial, AcquireLease, BeginRun, ResumeFailedStep, ResumeForward,
     ResumeCompensating, FinishRun, StopForward, StartStep,
     RetryInterruptedStep, GiveUpStep, ActionReturns, Backoff, AbortFailed,
     AbortCompensating, Rollback, UndoStep, UndoReturns, FinishRollback,
     RenewLease, Save, Notify, Release, ActionApplies, UndoApplies, Crash,
     PanicInStep, PanicInObserver, ContextEnds, outside, ghosts
<1>5. CASE Lapse \/ UNCHANGED vars
  BY <1>3, <1>5 DEF Lapse, vars, outside, ghosts
<1> QED
  BY <1>1, <1>2, <1>3, <1>4, <1>5 DEF Next, Rest, WorkerStep

\* A transition of step i, which alone may be in flight.
LEMMA StepGuess ==
  ASSUME TypeInv, NEW w \in Workers, Sound(w),
         NEW i \in Steps, NEW to \in StepStatus, NEW l \in Continuations,
         TransitionStep(w, i, to, l), UNCHANGED <<store, runs, comps>>,
         \A j \in Steps \ {i} : ~InFlight(exec[w].steps[j]),
         InFlight(to) => l \in {"attempt", "compensate"} /\ cur'[w] = i,
         l \in Stepping => runs[cur'[w]] <= attempt'[w],
         l = "compensate" => comps[cur'[w]] = 0
  PROVE  Knows(w)'
<1>1. CanTransitionStepStatus(exec[w].steps[i], to)
  BY DEF TransitionStep, Finish, Sound, TypeInv, TypeOK, ControlTypes
<1>2. /\ Stage(w)' = l /\ exec[w] \in Records
      /\ WithStep(exec[w], exec'[w], i, to)
  BY <1>1, StepAdvances
<1>3. /\ exec'[w].steps[i] = to
      /\ \A j \in Steps \ {i} : exec'[w].steps[j] = exec[w].steps[j]
  BY <1>2 DEF Records, WithStep
<1> QED
  BY <1>2, <1>3 DEF Knows, Stepping

\* A transition of the execution, while no step is in flight.
LEMMA ExecGuess ==
  ASSUME TypeInv, NEW w \in Workers, Sound(w),
         NEW to \in Status,
         NEW l \in Continuations \ {"attempt", "compensate"},
         TransitionExec(w, to, l), UNCHANGED <<store, runs, comps>>,
         \A j \in Steps : ~InFlight(exec[w].steps[j])
  PROVE  Knows(w)'
<1>1. CanTransitionStatus(exec[w].status, to)
  BY DEF TransitionExec, Finish, Sound, TypeInv, TypeOK, ControlTypes
<1>2. Stage(w)' = l /\ WithStatus(exec[w], exec'[w], to)
  BY <1>1, ExecAdvances
<1> QED
  BY <1>2 DEF Knows, WithStatus, Stepping, Continuations

\* Between transitions, at a point that calls nothing.
LEMMA QuietGuess ==
  ASSUME NEW w \in Workers,
         Stage(w)' \notin Stepping \cup {"compensate"},
         Stage(w)' \notin {"idle", "release"} =>
           \A j \in Steps : ~InFlight(exec'[w].steps[j])
  PROVE  Knows(w)'
BY DEF Knows

\* No step is in flight where none is being run or compensated.
LEMMA NoneInFlight ==
  ASSUME GuessInv, NEW w \in Workers, Careful(w),
         pc[w] \in Deciding \ (Stepping \cup {"compensate", "undoing"})
  PROVE  \A j \in Steps : ~InFlight(exec[w].steps[j])
BY DEF GuessInv, Knows, Stage, Deciding, Stepping

\* The execution moves (execute.go:156-254, 393-403, 532-539).
LEMMA ExecStepsGuess ==
  ASSUME TypeInv, GuessInv, NEW w \in Workers, Careful(w), Sound(w),
         \/ BeginRun(w) \/ FinishRun(w) \/ AbortFailed(w)
         \/ AbortCompensating(w) \/ FinishRollback(w)
  PROVE  Knows(w)'
<1>1. /\ UNCHANGED <<store, runs, comps>>
      /\ \A j \in Steps : ~InFlight(exec[w].steps[j])
  BY NoneInFlight DEF BeginRun, FinishRun, AbortFailed, AbortCompensating,
     FinishRollback, outside, ghosts, At, Deciding, Stepping
<1>2. RollbackOutcome(exec[w], failedAt[w]) \in Status
  BY DEF RollbackOutcome, Status
<1> QED
  BY <1>1, <1>2, ExecGuess DEF BeginRun, FinishRun, AbortFailed,
     AbortCompensating, FinishRollback, Continuations, Status

\* A step begins, with its Action not yet called (execute.go:221-232).
LEMMA StartGuess ==
  ASSUME TypeInv, ShapeInv, TrackInv, GuessInv, NEW w \in Workers, Careful(w), Sound(w),
         StartStep(w)
  PROVE  Knows(w)'
<1>1. /\ UNCHANGED <<store, runs, comps>> /\ pc[w] = "forward"
      /\ cur' = cur /\ attempt'[w] = 0 /\ cur[w] \in Steps
      /\ exec[w].steps[cur[w]] = "PENDING"
  BY DEF StartStep, outside, ghosts, At, TypeInv, TypeOK, HandTypes
<1>2. \A j \in Steps : ~InFlight(exec[w].steps[j])
  BY <1>1, NoneInFlight DEF Deciding, Stepping
<1>3. runs[cur[w]] = 0
  BY <1>1 DEF TrackInv, Tracks, Agrees, Deciding, GuessInv, Uncalled
<1> QED
  BY <1>1, <1>2, <1>3, StepGuess DEF StartStep, Continuations, StepStatus

\* A step is concluded (execute.go:234-246, 286-312).
LEMMA ConcludeGuess ==
  ASSUME TypeInv, ShapeInv, GuessInv, NEW w \in Workers, Careful(w), Sound(w),
         ActionReturns(w) \/ GiveUpStep(w) \/ Backoff(w)
  PROVE  Knows(w)'
<1>1. /\ UNCHANGED <<store, runs, comps, attempt>>
      /\ pc[w] \in Stepping /\ pc[w] \in Deciding
  BY DEF ActionReturns, GiveUpStep, Backoff, outside, ghosts, At, Stepping,
     Deciding
<1>2. /\ cur[w] \in Steps
      /\ \A j \in Steps \ {cur[w]} : ~InFlight(exec[w].steps[j])
  BY <1>1, HandAt, OneStepRuns
<1>3. CASE TransitionStep(w, cur[w], "SUCCEEDED", "forward")
  BY <1>1, <1>2, <1>3, StepGuess DEF Continuations, StepStatus, InFlight,
     Stepping
<1>4. CASE FailStep(w)
  BY <1>1, <1>2, <1>4, StepGuess DEF FailStep, Continuations, StepStatus,
     InFlight, Stepping
<1>5. CASE UNCHANGED <<exec, cur>> /\ pc'[w] \in Stepping
  <2>1. Stage(w)' = pc'[w] /\ Stage(w) = pc[w]
    BY <1>1, <1>5 DEF Stage, Stepping
  <2> QED
    BY <1>1, <1>5, <2>1 DEF GuessInv, Knows, Stepping
<1> QED
  BY <1>3, <1>4, <1>5 DEF ActionReturns, GiveUpStep, Backoff, Goto, Stepping,
     TypeInv, TypeOK, ControlTypes

\* A compensation begins, not yet called: one that was interrupted is not taken
\* up (execute.go:499-514).
LEMMA UndoGuess ==
  ASSUME TypeInv, ShapeInv, TrackInv, GuessInv, NEW w \in Workers, Careful(w), Sound(w),
         UndoStep(w)
  PROVE  Knows(w)'
<1>1. PICK i \in Steps :
        /\ IsNextUndo(w, i) /\ cur' = [cur EXCEPT ![w] = i]
        /\ IF exec[w].steps[i] = "SUCCEEDED"
           THEN TransitionStep(w, i, "COMPENSATING", "compensate")
           ELSE Goto(w, "compensate") /\ UNCHANGED <<next, exec, result>>
  BY DEF UndoStep
<1>2. /\ UNCHANGED <<store, runs, comps>> /\ pc[w] = "undo" /\ cur'[w] = i
  BY <1>1 DEF UndoStep, outside, ghosts, At, TypeInv, TypeOK, HandTypes
<1>3. \A j \in Steps : ~InFlight(exec[w].steps[j])
  BY <1>2, NoneInFlight DEF Deciding, Stepping
<1>4. exec[w].steps[i] = "SUCCEEDED"
  BY <1>1, <1>3 DEF IsNextUndo, Undoable, InFlight
<1>5. comps[i] = 0
  BY <1>2, <1>4 DEF TrackInv, Tracks, Agrees, Deciding, GuessInv, Uncalled,
     InCompensation, Settled
<1> QED
  BY <1>1, <1>2, <1>3, <1>4, <1>5, StepGuess DEF Continuations, StepStatus,
     Stepping

\* A compensation is concluded (execute.go:520-530).
LEMMA UndoneGuess ==
  ASSUME TypeInv, GuessInv, NEW w \in Workers, Careful(w), Sound(w), UndoReturns(w)
  PROVE  Knows(w)'
<1>1. /\ UNCHANGED <<store, runs, comps>> /\ pc[w] = "undoing"
      /\ cur[w] \in Steps
  BY DEF UndoReturns, outside, ghosts, At, TypeInv, InHand, Stage
<1>2. \A j \in Steps \ {cur[w]} : ~InFlight(exec[w].steps[j])
  BY <1>1 DEF GuessInv, Knows, Stage
<1> QED
  BY <1>1, <1>2, StepGuess DEF UndoReturns, Continuations, StepStatus, InFlight,
     Stepping

\* The Action is called once more, within its round (execute.go:286-292).
LEMMA InvokeGuess ==
  ASSUME TypeInv, TrackInv, ShapeInv, GuessInv, NEW w \in Workers, Careful(w), Invoke(w)
  PROVE  Knows(w)'
<1>1. pc[w] = "attempt" /\ pc'[w] = "acting" /\ Stage(w)' = "acting"
  BY DEF Invoke, At, Goto, Stage, TypeInv, TypeOK, ControlTypes
<1>2. exec[w] \in Records /\ cur[w] \in Steps
      /\ attempt[w] \in Nat /\ attempt[w] < MaxAttempts
  BY <1>1 DEF TypeInv, TypeOK, HandTypes, InHand, Stage, Stepping
<1>3. exec'[w] = [exec[w] EXCEPT !.attempts[cur[w]] = @ + 1]
  BY DEF Invoke, TypeInv, TypeOK, HandTypes
<1>4. /\ UNCHANGED <<store, comps, cur>> /\ attempt'[w] = attempt[w] + 1
      /\ exec'[w].steps = exec[w].steps
      /\ runs' = [runs EXCEPT ![cur[w]] = Tick(@)]
      /\ cur[w] \in Steps /\ pc[w] = "attempt"
  BY <1>1, <1>2, <1>3, AttemptsUpdate DEF Invoke, TypeInv, TypeOK, HandTypes
<1>5. runs \in [Steps -> 0..GhostCap] /\ runs[cur[w]] <= attempt[w]
  BY <1>4 DEF TypeInv, TypeOK, GhostTypes, GuessInv, Knows, Stage, Stepping
<1>6. runs'[cur[w]] <= attempt[w] + 1
  BY <1>4, <1>5, <1>2 DEF Tick
<1>7. Stage(w) = "attempt"
  BY <1>1 DEF Stage
<1>8. \A i \in Steps : InFlight(exec'[w].steps[i]) => i = cur'[w]
  BY <1>4, <1>7 DEF GuessInv, Knows
<1> QED
  BY <1>1, <1>4, <1>6, <1>8 DEF Knows, Stepping

\* The Compensate is called, for the first time (execute.go:544-549).
LEMMA InvokeCompensateGuess ==
  ASSUME TypeInv, TrackInv, ShapeInv, GuessInv, NEW w \in Workers, Careful(w),
         InvokeCompensate(w)
  PROVE  Knows(w)'
<1>1. /\ pc[w] = "compensate" /\ pc'[w] = "undoing" /\ Stage(w)' = "undoing"
      /\ cur[w] \in Steps /\ UNCHANGED <<store, runs, cur, exec>>
  BY DEF InvokeCompensate, locals, At, Goto, Stage, TypeInv, TypeOK,
     ControlTypes, InHand
<1> QED
  BY <1>1 DEF GuessInv, Knows, Stage, Stepping

\* A careful call begins with no step in flight: Recover passes one by that has
\* (execute.go:80-104, recovery.go:140-155).
LEMMA EntryGuess ==
  ASSUME TypeInv, TrackInv, GuessInv, NEW w \in Workers, Careful(w)',
         Execute(w) \/ SaveInitial(w) \/ Recover(w) \/ AcquireLease(w)
  PROVE  Knows(w)'
<1>1. \A j \in Steps : ~InFlight(NewExecution.steps[j])
  BY DEF InFlight, NewExecution
<1>2. CASE Execute(w)
  <2>1. Stage(w)' = "create" /\ exec'[w] = NewExecution
    BY <1>2 DEF Execute, Goto, Stage, TypeInv, TypeOK, ControlTypes, HandTypes
  <2> QED
    BY <1>1, <2>1, QuietGuess DEF Stepping
<1>3. CASE SaveInitial(w)
  <2>1. /\ exec[w] = NewExecution
        /\ \/ Stage(w)' = "idle"
           \/ Stage(w)' = "acquire" /\ exec' = exec
    BY <1>3 DEF SaveInitial, At, TrackInv, Tracks, Goto, Leave, Stage, locals,
       TypeInv, TypeOK, ControlTypes
  <2> QED
    BY <1>1, <2>1, QuietGuess DEF Stepping
<1>4. CASE Recover(w)
  <2>1. CASE /\ pc'[w] = "acquire" /\ exec'[w] = store
             /\ ~HasInFlightStep(store)
    BY <2>1, QuietGuess DEF Stage, Stepping, HasInFlightStep, InFlight
  <2>2. CASE pc'[w] = "idle"
    BY <2>2, QuietGuess DEF Stage, Stepping
  <2> QED
    BY <1>4, <2>1, <2>2 DEF Recover, Skips, RecoveryPolicy, Careful, At, Goto,
       TypeInv, TypeOK, ControlTypes, HandTypes
<1>5. CASE AcquireLease(w)
  <2>1. /\ pc[w] = "acquire"
        /\ \/ Stage(w)' = "idle"
           \/ Stage(w)' = "resume" /\ exec' = exec /\ role' = role
    BY <1>5 DEF AcquireLease, At, Goto, Leave, Stage, locals, TypeInv, TypeOK,
       ControlTypes
  <2> QED
    BY <2>1, NoneInFlight, QuietGuess DEF Deciding, Stepping, Careful
<1> QED
  BY <1>2, <1>3, <1>4, <1>5

\* The call looks at its copy: with no step in flight it neither takes one up
\* again nor leaves one behind (execute.go:156-227).
LEMMA LookGuess ==
  ASSUME TypeInv, ShapeInv, GuessInv, NEW w \in Workers, Careful(w),
         \/ ResumeFailedStep(w) \/ ResumeForward(w) \/ ResumeCompensating(w)
         \/ StopForward(w) \/ RetryInterruptedStep(w) \/ Rollback(w)
  PROVE  Knows(w)'
<1>1. \A j \in Steps : ~InFlight(exec[w].steps[j])
  BY NoneInFlight DEF ResumeFailedStep, ResumeForward, ResumeCompensating,
     StopForward, RetryInterruptedStep, Rollback, At, Deciding, Stepping
<1>2. ~RetryInterruptedStep(w)
  BY <1>1, HandAt, TurnIsPending DEF RetryInterruptedStep, At, Deciding
<1>3. /\ UNCHANGED exec
      /\ Stage(w)' \in {"abort", "forward", "rollback", "undo"}
  BY <1>2 DEF ResumeFailedStep, ResumeForward, ResumeCompensating, StopForward,
     Rollback, outside, locals, ghosts, Goto, Stage, TypeInv, TypeOK,
     ControlTypes
<1> QED
  BY <1>1, <1>3, QuietGuess DEF Stepping

\* Saving a record and telling of it changes nothing that was in flight
\* (execute.go:582-644).
LEMMA PersistGuess ==
  ASSUME TypeInv, TrackInv, GuessInv, NEW w \in Workers, Careful(w),
         RenewLease(w) \/ Save(w) \/ Notify(w) \/ PanicInObserver(w)
  PROVE  Knows(w)'
<1>1. /\ UNCHANGED <<exec, cur, attempt, runs, comps, next>>
      /\ pc[w] \in {"renew", "save", "notify"}
      /\ pc'[w] \in {"save", "notify", "release", next[w]}
      /\ next[w] \in Continuations
  BY DEF RenewLease, Save, Notify, PanicInObserver, ghosts, At, Goto, Finish,
     TypeInv, TypeOK, ControlTypes, InHand
<1>2. Stage(w)' \in {Stage(w), "release"}
  BY <1>1 DEF Stage, Continuations
<1> QED
  BY <1>1, <1>2 DEF GuessInv, Knows, Stepping

\* A call ends, or something happens outside it.
LEMMA OtherGuess ==
  ASSUME TypeInv, GuessInv, NEW w \in Workers, Careful(w)',
         \/ Release(w) \/ Crash(w) \/ PanicInStep(w) \/ ContextEnds(w)
         \/ Downstream(w)
  PROVE  Knows(w)'
<1>1. CASE Release(w) \/ Crash(w) \/ PanicInStep(w)
  <2>1. Stage(w)' \in {"idle", "release"}
    BY <1>1 DEF Release, Crash, PanicInStep, Goto, Finish, Stage, TypeInv,
       TypeOK, ControlTypes
  <2> QED
    BY <2>1, QuietGuess DEF Stepping
<1>2. CASE ContextEnds(w) \/ Downstream(w)
  <2>1. UNCHANGED <<pc, next, exec, cur, attempt, role, runs, comps>>
    BY <1>2 DEF ContextEnds, Downstream, ActionApplies, UndoApplies, locals,
       outside, ghosts
  <2> QED
    BY <2>1 DEF GuessInv, Knows, Stage, Careful
<1> QED
  BY <1>1, <1>2

\* A call does not change its entry point (recovery.go:112-155).
LEMMA StaysCareful ==
  ASSUME NEW w \in Workers, Engine(w) \/ PanicInObserver(w), Careful(w)',
         ~SaveInitial(w), ~AcquireLease(w), ~Release(w)
  PROVE  Careful(w)
BY DEF Engine, BeginRun, ResumeFailedStep, ResumeForward, ResumeCompensating,
   FinishRun, StopForward, StartStep, RetryInterruptedStep, Invoke, GiveUpStep,
   ActionReturns, Backoff, AbortFailed, AbortCompensating, Rollback, UndoStep,
   InvokeCompensate, UndoReturns, FinishRollback, RenewLease, Save, Notify,
   PanicInObserver, locals, Careful

\* No step of a careful call calls again what is in flight (execute.go:80-644).
LEMMA WorkerGuess ==
  ASSUME TypeInv, ShapeInv, TrackInv, GuessInv, NEW w \in Workers,
         WorkerStep(w), Careful(w)'
  PROVE  Knows(w)'
<1>1. Sound(w)
  BY WorkerSound
<1> QED
  BY <1>1, StaysCareful, ExecStepsGuess, StartGuess, ConcludeGuess, UndoGuess,
     UndoneGuess, InvokeGuess, InvokeCompensateGuess, EntryGuess, LookGuess,
     PersistGuess, OtherGuess DEF WorkerStep, Engine, Environment

\* Nothing has been called at first.
LEMMA GuessInit == ASSUME Init PROVE GuessInv
BY DEF Init, GuessInv, Knows, Uncalled, Stage, Stepping

LEMMA GuessNext ==
  ASSUME Alone, TypeInv, ShapeInv, TrackInv, GuessInv, [Next]_vars
  PROVE  GuessInv'
<1>1. Uncalled(store)'
  BY UncalledNext DEF GuessInv
<1>2. ASSUME NEW w \in Workers, WorkerStep(w) PROVE GuessInv'
  BY <1>1, <1>2, WorkerGuess DEF Alone, GuessInv
<1>3. CASE Lapse \/ UNCHANGED vars
  BY <1>1, <1>3 DEF Lapse, vars, locals, outside, ghosts, GuessInv, Knows,
     Careful, Stage
<1> QED
  BY <1>2, <1>3 DEF Next, Rest, WorkerStep

\* A recovery under RecoverSkipInFlight, and Execute, begin no second round of
\* attempts at an Action and call no Compensate a second time, through any
\* number of restarts and whatever recoveries under RecoverAutomatically came
\* before (recovery.go:29-35, 140-155).
THEOREM NothingIsGuessed ==
  ASSUME Alone
  PROVE  Spec => NothingGuessed
<1>1. Init => TypeInv /\ ShapeInv /\ TrackInv /\ GuessInv
  BY TypeInit, ShapeInit, TrackInit, GuessInit
<1>2. TypeInv /\ ShapeInv /\ TrackInv /\ GuessInv /\ [Next]_vars =>
        TypeInv' /\ ShapeInv' /\ TrackInv' /\ GuessInv'
  BY TypeNext, ShapeNext, TrackNext, GuessNext
<1>3. TypeInv /\ GuessInv /\ [Next]_vars =>
        [\A w \in Workers : role[w] # "RecoverAutomatically" =>
           /\ At(w, "attempt") /\ pc'[w] = "acting" /\ attempt[w] = 0
                => runs[cur[w]] = 0
           /\ At(w, "compensate") /\ pc'[w] = "undoing"
                => comps[cur[w]] = 0]_vars
  <2> SUFFICES ASSUME TypeInv, GuessInv, NEW w \in Workers, Careful(w)
               PROVE  /\ At(w, "attempt") /\ attempt[w] = 0
                           => runs[cur[w]] = 0
                      /\ At(w, "compensate") => comps[cur[w]] = 0
    BY DEF Careful
  <2>1. Knows(w)
    BY DEF GuessInv
  <2>2. ASSUME At(w, "attempt"), attempt[w] = 0
        PROVE  runs[cur[w]] = 0
    <3>1. Stage(w) = "attempt" /\ cur[w] \in Steps
      BY <2>2 DEF At, Stage, TypeInv, InHand, Stepping
    <3>2. runs[cur[w]] \in Nat /\ runs[cur[w]] <= 0
      BY <2>1, <2>2, <3>1 DEF Knows, Stepping, TypeInv, TypeOK, GhostTypes
    <3> QED
      BY <3>2
  <2>3. At(w, "compensate") => comps[cur[w]] = 0
    BY <2>1 DEF At, Stage, Knows
  <2> QED
    BY <2>2, <2>3
<1> QED
  BY <1>1, <1>2, <1>3, PTL DEF Spec, NothingGuessed

-------------------------------------------------------------------------------
(***************************************************************************)
(* What a call reports stands in the store.  This is about any number of   *)
(* workers, until a lease lapses under the call that holds it: between the *)
(* save of the outcome and the Release nobody else can save.               *)
(***************************************************************************)
Tells(w) ==
  /\ pc[w] = "create" => store = Absent /\ exec[w] = NewExecution
  /\ pc[w] \notin {"idle", "create", "release"} => store.status # "ABSENT"
  /\ pc[w] = "notify" => store = exec[w]
  /\ pc[w] = "release" /\ result[w] = "ok" =>
       lease = w /\ store.status = "COMPLETED"
  /\ pc[w] = "release" /\ result[w] = "failed" =>
       /\ lease = w
       /\ store.status \in {"FAILED", "COMPENSATED", "COMPENSATION_FAILED"}
  /\ pc[w] # "release" => result[w] = "none"

TellInv ==
  /\ \A v, w \in Workers : pc[v] = "create" /\ pc[w] = "create" => v = w
  /\ \A w \in Workers : Tells(w)

\* What a step of w owes: its own part, and to write the store only under its
\* lease or as the first.
Tell(w) ==
  /\ Tells(w)'
  /\ \/ store' = store
     \/ pc[w] \in {"create", "save"} /\ store'.status # "ABSENT"
  /\ pc'[w] = "create" => pc[w] = "create" \/ \A v \in Workers : pc[v] # "create"

\* Within a call, away from the save.
LEMMA InsideTell ==
  ASSUME TellInv, NEW w \in Workers, store' = store,
         pc[w] \notin {"idle", "create", "release"},
         pc'[w] \notin {"create", "notify"},
         pc'[w] = "release" => result'[w] \notin {"ok", "failed"},
         pc'[w] # "release" => result'[w] = result[w]
  PROVE  Tell(w)
BY DEF TellInv, Tell, Tells

\* Nothing that Tells speaks of has changed.
LEMMA SameTell ==
  ASSUME TellInv, NEW w \in Workers, UNCHANGED <<store, lease>>,
         pc'[w] = pc[w], exec'[w] = exec[w], result'[w] = result[w]
  PROVE  Tell(w)
BY DEF TellInv, Tell, Tells

\* The steps of a call that do not write the store (execute.go:156-464,
\* 590-598).
LEMMA InsideSteps ==
  ASSUME TypeInv, TellInv, NEW w \in Workers,
         \/ BeginRun(w) \/ ResumeFailedStep(w) \/ ResumeForward(w)
         \/ ResumeCompensating(w) \/ FinishRun(w) \/ StopForward(w)
         \/ StartStep(w) \/ RetryInterruptedStep(w) \/ Invoke(w)
         \/ GiveUpStep(w) \/ ActionReturns(w) \/ Backoff(w) \/ AbortFailed(w)
         \/ AbortCompensating(w) \/ Rollback(w) \/ UndoStep(w)
         \/ InvokeCompensate(w) \/ UndoReturns(w) \/ FinishRollback(w)
         \/ RenewLease(w) \/ PanicInStep(w) \/ PanicInObserver(w)
  PROVE  Tell(w)
<1> USE DEF TypeInv, TypeOK, ControlTypes, At, Goto, Finish, outside, locals,
        ghosts
<1>1. CASE RenewLease(w) \/ PanicInStep(w) \/ PanicInObserver(w)
  BY <1>1, InsideTell DEF RenewLease, PanicInStep, PanicInObserver
<1>2. CASE \/ ResumeFailedStep(w) \/ ResumeForward(w) \/ ResumeCompensating(w)
           \/ StopForward(w) \/ RetryInterruptedStep(w) \/ Invoke(w)
           \/ Rollback(w) \/ InvokeCompensate(w)
  BY <1>2, InsideTell DEF ResumeFailedStep, ResumeForward, ResumeCompensating,
     StopForward, RetryInterruptedStep, Invoke, Rollback, InvokeCompensate
<1>3. CASE \/ BeginRun(w) \/ FinishRun(w) \/ AbortFailed(w)
           \/ AbortCompensating(w) \/ FinishRollback(w)
  BY <1>3, InsideTell DEF BeginRun, FinishRun, AbortFailed, AbortCompensating,
     FinishRollback, TransitionExec, Persist
<1>4. CASE \/ StartStep(w) \/ GiveUpStep(w) \/ ActionReturns(w) \/ Backoff(w)
           \/ UndoStep(w) \/ UndoReturns(w)
  BY <1>4, InsideTell DEF StartStep, GiveUpStep, ActionReturns, Backoff,
     UndoStep, UndoReturns, FailStep, TransitionStep, Persist
<1> QED
  BY <1>1, <1>2, <1>3, <1>4

\* A record that is well formed is one.
LEMMA SavedIsThere ==
  ASSUME NEW r, WellFormed(r)
  PROVE  r.status # "ABSENT"
BY DEF WellFormed, Status

\* Where a call begins (execute.go:80-104, 140-155, recovery.go:117-155).
LEMMA EntryTell ==
  ASSUME TypeInv, ShapeInv, TellInv, NEW w \in Workers,
         Execute(w) \/ SaveInitial(w) \/ Recover(w) \/ AcquireLease(w)
  PROVE  Tell(w)
<1>1. CASE Execute(w)
  <2>1. /\ store = Absent /\ store' = store /\ pc'[w] = "create"
        /\ exec'[w] = NewExecution /\ \A v \in Workers : pc[v] # "create"
        /\ result'[w] = "none"
    BY <1>1 DEF Execute, At, Goto, outside, TypeInv, TypeOK, ControlTypes,
       HandTypes, TellInv, Tells
  <2> QED
    BY <2>1 DEF Tell, Tells
<1>2. CASE SaveInitial(w)
  <2>1. /\ pc[w] = "create" /\ exec[w] = NewExecution
        /\ \/ /\ pc'[w] = "acquire" /\ result'[w] = "none"
              /\ store' = NewExecution
           \/ /\ pc'[w] = "idle" /\ result'[w] = "none"
              /\ store' \in {store, NewExecution}
    BY <1>2 DEF SaveInitial, WriteFails, At, Put, Goto, Leave, Forget, locals,
       TellInv, Tells, TypeInv, TypeOK, ControlTypes
  <2> QED
    BY <2>1 DEF Tell, Tells, NewExecution
<1>3. CASE Recover(w)
  <2>1. /\ store' = store /\ result'[w] = "none"
        /\ pc'[w] = "idle" \/ (pc'[w] = "acquire" /\ store # Absent)
    BY <1>3 DEF Recover, At, Goto, IsIncomplete, TypeInv, TypeOK, ControlTypes,
       TellInv, Tells
  <2>2. store # Absent => store.status # "ABSENT"
    BY SavedIsThere DEF ShapeInv, RecordShape
  <2> QED
    BY <2>1, <2>2 DEF Tell, Tells
<1>4. CASE AcquireLease(w)
  <2>1. /\ pc[w] = "acquire" /\ store' = store /\ result'[w] = "none"
        /\ pc'[w] \in {"idle", "resume"}
    BY <1>4 DEF AcquireLease, At, Goto, Leave, Forget, locals, TellInv, Tells,
       TypeInv, TypeOK, ControlTypes
  <2> QED
    BY <2>1 DEF TellInv, Tell, Tells
<1> QED
  BY <1>1, <1>2, <1>3, <1>4

\* The outcome is reported as it was saved, under the lease
\* (execute.go:582-603, 622-644).
LEMMA OutcomeTell ==
  ASSUME Leased, LeaseInv, ShapeInv, TellInv, NEW w \in Workers,
         Save(w) \/ Notify(w)
  PROVE  Tell(w)
<1>0. TypeInv
  BY DEF LeaseInv
<1>1. CASE Save(w)
  <2>1. /\ pc[w] = "save" /\ exec' = exec
        /\ \/ /\ pc'[w] = "notify" /\ result'[w] = "none"
              /\ store' = exec[w]
           \/ /\ pc'[w] = "release" /\ result'[w] = "error"
              /\ store' \in {store, exec[w]}
    BY <1>0, <1>1 DEF Save, WriteFails, At, Put, Goto, Finish, TypeInv, TypeOK,
       ControlTypes, TellInv, Tells
  <2>2. exec[w].status # "ABSENT"
    BY <1>0, <2>1, LiveIsWellFormed, SavedIsThere
  <2> QED
    BY <2>1, <2>2 DEF TellInv, Tell, Tells
<1>2. CASE Notify(w)
  <2>1. /\ pc[w] = "notify" /\ UNCHANGED <<store, lease, exec>>
        /\ store = exec[w] /\ store.status # "ABSENT" /\ lease = w
    BY <1>2 DEF Notify, At, TellInv, Tells, Leased, LeaseInv, DrivesUnderLease,
       Driving
  <2>2. CASE IsTerminal(exec[w].status)
    <3>1. /\ pc'[w] = "release"
          /\ result'[w] = IF exec[w].status = "COMPLETED" THEN "ok" ELSE "failed"
      BY <1>0, <1>2, <2>2 DEF Notify, Finish, Goto, TypeInv, TypeOK, ControlTypes
    <3> QED
      BY <2>1, <2>2, <3>1 DEF Tell, Tells, IsTerminal, Terminal
  <2>3. CASE ~IsTerminal(exec[w].status)
    <3>1. /\ pc'[w] = next[w] /\ result' = result /\ next[w] \in Continuations
          /\ result[w] = "none"
      BY <1>0, <1>2, <2>3 DEF Notify, Goto, TypeInv, TypeOK, ControlTypes, At,
         InHand, TellInv, Tells
    <3> QED
      BY <2>1, <3>1, InsideTell DEF Continuations
  <2> QED
    BY <2>2, <2>3
<1> QED
  BY <1>1, <1>2

\* How a call is left (execute.go:147-155, 590-598), and what does not touch it.
LEMMA EndTell ==
  ASSUME TypeInv, TellInv, NEW w \in Workers,
         Release(w) \/ Crash(w) \/ ContextEnds(w) \/ Downstream(w)
  PROVE  Tell(w)
<1>1. CASE Release(w) \/ Crash(w)
  <2>1. store' = store /\ pc'[w] = "idle" /\ result'[w] = "none"
    BY <1>1 DEF Release, Crash, Goto, Forget, TypeInv, TypeOK, ControlTypes
  <2> QED
    BY <2>1 DEF Tell, Tells
<1>2. CASE ContextEnds(w) \/ Downstream(w)
  BY <1>2, SameTell DEF ContextEnds, Downstream, ActionApplies, UndoApplies,
     outside, locals
<1> QED
  BY <1>1, <1>2

\* No step of a worker reports what does not stand (execute.go:80-644).
LEMMA WorkerTell ==
  ASSUME Leased, LeaseInv, ShapeInv, TellInv, NEW w \in Workers, WorkerStep(w)
  PROVE  Tell(w)
<1>1. TypeInv
  BY DEF LeaseInv
<1> QED
  BY <1>1, InsideSteps, EntryTell, OutcomeTell, EndTell
     DEF WorkerStep, Engine, Environment, Downstream

\* Nothing is told before a call.
LEMMA TellInit == Init => TellInv
BY DEF Init, TellInv, Tells

\* What the step of w leaves of another call: it saves under its own lease
\* only, or while nobody has a record yet (execute.go:92-104, 589-603).
LEMMA OthersTell ==
  ASSUME Leased, LeaseInv, TellInv, NEW w \in Workers, NEW v \in Workers,
         v # w, Tell(w), Disciplined(w), Same(v)
  PROVE  Tells(v)'
<1>1. Tells(v) /\ Tells(w)
  BY DEF TellInv
<1>2. lease' = v <=> lease = v
  BY DEF Disciplined
<1>3. CASE store' = store
  BY <1>1, <1>2, <1>3 DEF Tells, Same
<1>4. CASE pc[w] = "create" /\ store'.status # "ABSENT"
  <2>1. store = Absent /\ store.status = "ABSENT"
    BY <1>1, <1>4 DEF Tells, Absent
  <2>2. pc[v] # "create"
    BY <1>4 DEF TellInv
  <2> QED
    BY <1>1, <1>4, <2>1, <2>2 DEF Tells, Same
<1>5. CASE pc[w] = "save" /\ store'.status # "ABSENT"
  <2>1. lease = w
    BY <1>5 DEF Leased, LeaseInv, DrivesUnderLease, Driving
  <2>2. pc[v] # "notify"
    BY <2>1 DEF Leased, LeaseInv, DrivesUnderLease, Driving
  <2>3. store.status # "ABSENT" /\ pc[v] # "create"
    BY <1>1, <1>5 DEF Tells, Absent
  <2> QED
    BY <1>1, <1>5, <2>1, <2>2, <2>3 DEF Tells, Same
<1> QED
  BY <1>3, <1>4, <1>5 DEF Tell

\* TellInv is inductive.
LEMMA TellNext ==
  ASSUME Leased, Leased', LeaseInv, ShapeInv, TellInv, [Next]_vars
  PROVE  TellInv'
<1>1. ASSUME NEW w \in Workers, WorkerStep(w)
      PROVE  TellInv'
  <2>1. Tell(w) /\ Disciplined(w)
    BY <1>1, WorkerTell, WorkerDiscipline
  <2>2. \A v \in Workers \ {w} : Same(v)
    BY <1>1, WorkerTypes DEF LeaseInv, Frame
  <2>3. ASSUME NEW v \in Workers
        PROVE  Tells(v)'
    BY <2>1, <2>2, OthersTell DEF Tell
  <2>4. ASSUME NEW u \in Workers, NEW v \in Workers,
               pc'[u] = "create", pc'[v] = "create"
        PROVE  u = v
    BY <2>1, <2>2, <2>4 DEF Tell, TellInv, Same
  <2> QED
    BY <2>3, <2>4 DEF TellInv
<1>2. CASE Lapse
  <2>1. lease = Orphan /\ UNCHANGED <<store, pc, exec, result>>
    BY <1>2 DEF Lapse, Expire, Leased, locals
  <2>2. \A v \in Workers : lease # v
    BY <2>1, LeaseAssumption
  <2> QED
    BY <2>1, <2>2 DEF TellInv, Tells
<1>3. CASE UNCHANGED vars
  BY <1>3 DEF vars, locals, outside, TellInv, Tells
<1> QED
  BY <1>1, <1>2, <1>3 DEF Next, Rest, WorkerStep

\* A lease that has lapsed under a call stays on the record.
LEMMA LeasedBefore ==
  ASSUME LeaseInv, [Next]_vars, Leased'
  PROVE  Leased
<1>1. ASSUME NEW w \in Workers, WorkerStep(w) PROVE lapsed' = lapsed
  BY <1>1, WorkerDiscipline DEF Disciplined
<1>2. CASE Lapse
  BY <1>2 DEF Lapse, Leased
<1>3. CASE UNCHANGED vars
  BY <1>3 DEF vars, outside, ghosts, Leased
<1> QED
  BY <1>1, <1>2, <1>3 DEF Leased, Next, Rest, WorkerStep

\* A call that reports the saga's outcome reports one that stands in the store
\* (execute.go:582-603, 622-644), for any number of workers, until a lease has
\* lapsed under the call that held it.
THEOREM ReportsStand == Spec => []ToldIsDurable
<1>1. Init => LeaseInv /\ ShapeInv /\ (Leased => TellInv)
  BY TypeInit, ShapeInit, TellInit, LeaseInit
<1>2. LeaseInv /\ ShapeInv /\ (Leased => TellInv) /\ [Next]_vars
        => LeaseInv' /\ ShapeInv' /\ (Leased => TellInv)'
  <2>1. ASSUME LeaseInv, ShapeInv, Leased => TellInv, [Next]_vars, Leased'
        PROVE  TellInv'
    BY <2>1, LeasedBefore, TellNext
  <2> QED
    BY <2>1, LeaseNext, ShapeNext DEF LeaseInv
<1>3. (Leased => TellInv) => ToldIsDurable
  BY DEF TellInv, Tells, ToldIsDurable, At
<1> QED
  BY <1>1, <1>2, <1>3, PTL DEF Spec

===============================================================================
