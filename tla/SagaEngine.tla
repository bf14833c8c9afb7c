------------------------------ MODULE SagaEngine ------------------------------
(***************************************************************************)
(* The engine that drives one execution to a terminal status (execute.go)  *)
(* and the recovery that hands it interrupted executions (recovery.go),    *)
(* run by any number of workers over one shared store.                     *)
(*                                                                         *)
(* A worker is one thread of calls: it is either idle, or inside an        *)
(* Execute or a Recover of the execution.  Every point at which the code   *)
(* calls out (the store, the locker, an Action, a Compensate, an           *)
(* observer, a timer) is a step of its own, because that is where a crash, *)
(* a fault, the end of the context or another worker can come between.     *)
(* pc is the point the call has reached; every transition of the record    *)
(* passes through "renew", "save" and "notify" and then goes on at the     *)
(* point kept in next.                                                     *)
(*                                                                         *)
(* A definition commented as a mutant is a plausible mistake in the one    *)
(* below it; the specification does not use it.                            *)
(***************************************************************************)
EXTENDS SagaExecution, LeasedStore

CONSTANTS
  MaxAttempts,    \* RetryPolicy.MaxAttempts of every step
  HasLocker,      \* the Store also implements Locker
  Policies,       \* the RecoveryPolicy of each RecoveryManager in use
  Idempotent,     \* downstream recognises a repeated OperationID
  Env,            \* what the environment may do, see EnvEvents
  MaxFaults,      \* bound: crashes, errors, panics and lapses in a behaviour
  GhostCap        \* bound: value at which the invocation counters saturate

RecoveryPolicy == {"RecoverAutomatically", "RecoverSkipInFlight"}

EnvEvents ==
  {"crash",          \* a process dies, or restarts
   "store",          \* a call of the store or of the locker returns an error
   "ctxStore",       \* the store refuses a call whose context has ended
   "lapse",          \* the TTL of the lease of a call in progress passes
   "panicStep",      \* an Action or a Compensate panics
   "panicObserver",  \* a Metrics or a Logger panics
   "cancel",         \* the caller cancels the context of its call
   "sagaTimeout",    \* WithTimeout elapses
   "stepTimeout",    \* WithStepTimeout elapses
   "resweep"}        \* Recover is called again and again, not once a start

ASSUME EngineAssumption ==
  /\ MaxAttempts \in Nat \ {0}
  /\ HasLocker \in BOOLEAN
  /\ Policies \subseteq RecoveryPolicy
  /\ Idempotent \in BOOLEAN
  /\ Env \subseteq EnvEvents
  /\ MaxFaults \in Nat
  /\ GhostCap \in Nat

VARIABLES
  pc,         \* where each worker's call stands
  next,       \* where it goes on after the transition being persisted
  exec,       \* the call's own copy of the record
  cur,        \* the step in hand
  failedAt,   \* steps 1..failedAt are the ones to compensate
  attempt,    \* attempts of the step in hand made by this call
  ctx,        \* "live", or why the call's context ended
  role,       \* the entry point of the call: Execute, or the policy of a Recover
  result,     \* what the call is about to return
  swept,      \* the worker has run Recover since its process started
  faults,     \* faults spent
  world,      \* whether each step's effect is in place downstream
  runs,       \* invocations of each Action, up to GhostCap
  comps,      \* invocations of each Compensate, up to GhostCap
  announced,  \* terminal statuses published to the observers
  lapsed      \* a lease has run out under a call in progress

locals == <<next, exec, cur, failedAt, attempt, ctx, role, result>>
ghosts == <<world, runs, comps, announced, lapsed>>
outside == <<store, lease, swept, faults, ghosts>>
vars == <<pc, locals, outside>>

Labels ==
  {"idle", "create", "acquire", "resume", "forward", "attempt", "acting",
   "backoff", "abort", "rollback", "undo", "compensate", "undoing", "renew",
   "save", "notify", "release"}

Results ==
  {"none", "ok", "failed", "locked", "error", "userPanic", "enginePanic"}

StoreTypes ==
  /\ store \in Records
  /\ lease \in Leases
  /\ swept \in [Workers -> BOOLEAN]
  /\ faults \in 0..MaxFaults

ControlTypes ==
  /\ pc \in [Workers -> Labels]
  /\ next \in [Workers -> Labels]
  /\ ctx \in [Workers -> {"live", "cancelled", "sagaTimeout"}]
  /\ role \in [Workers -> {"none", "execute"} \cup RecoveryPolicy]
  /\ result \in [Workers -> Results]

HandTypes ==
  /\ exec \in [Workers -> Records]
  /\ cur \in [Workers -> 0..(NSteps + 1)]
  /\ failedAt \in [Workers -> 0..NSteps]
  /\ attempt \in [Workers -> 0..MaxAttempts]

GhostTypes ==
  /\ world \in [Steps -> {"none", "done", "undone"}]
  /\ runs \in [Steps -> 0..GhostCap]
  /\ comps \in [Steps -> 0..GhostCap]
  /\ announced \subseteq Terminal
  /\ lapsed \in BOOLEAN

TypeOK == StoreTypes /\ ControlTypes /\ HandTypes /\ GhostTypes

Init ==
  /\ store = Absent
  /\ lease = Free
  /\ pc = [w \in Workers |-> "idle"]
  /\ next = [w \in Workers |-> "idle"]
  /\ exec = [w \in Workers |-> Absent]
  /\ cur = [w \in Workers |-> 0]
  /\ failedAt = [w \in Workers |-> 0]
  /\ attempt = [w \in Workers |-> 0]
  /\ ctx = [w \in Workers |-> "live"]
  /\ role = [w \in Workers |-> "none"]
  /\ result = [w \in Workers |-> "none"]
  /\ swept = [w \in Workers |-> FALSE]
  /\ faults = 0
  /\ world = [i \in Steps |-> "none"]
  /\ runs = [i \in Steps |-> 0]
  /\ comps = [i \in Steps |-> 0]
  /\ announced = {}
  /\ lapsed = FALSE

-------------------------------------------------------------------------------
(***************************************************************************)
(* Building blocks.                                                        *)
(***************************************************************************)
At(w, l) == pc[w] = l
Goto(w, l) == pc' = [pc EXCEPT ![w] = l]

\* One more fault out of the behaviour's budget.
Fault(kind) ==
  /\ kind \in Env
  /\ faults < MaxFaults
  /\ faults' = faults + 1

Tick(n) == IF n < GhostCap THEN n + 1 ELSE n

\* The locals of a call that has ended.
Forget(w) ==
  /\ next' = [next EXCEPT ![w] = "idle"]
  /\ exec' = [exec EXCEPT ![w] = Absent]
  /\ cur' = [cur EXCEPT ![w] = 0]
  /\ failedAt' = [failedAt EXCEPT ![w] = 0]
  /\ attempt' = [attempt EXCEPT ![w] = 0]
  /\ ctx' = [ctx EXCEPT ![w] = "live"]
  /\ role' = [role EXCEPT ![w] = "none"]
  /\ result' = [result EXCEPT ![w] = "none"]

\* The call returns before it has deferred a Release.
Leave(w) == Goto(w, "idle") /\ Forget(w)

\* The call ends with res: what is left of it is the deferred Release.
Finish(w, res) ==
  /\ Goto(w, "release")
  /\ result' = [result EXCEPT ![w] = res]

\* The copy becomes r, to be saved before the call goes on at l.
Persist(w, r, l) ==
  /\ exec' = [exec EXCEPT ![w] = r]
  /\ next' = [next EXCEPT ![w] = l]
  /\ Goto(w, IF HasLocker THEN "renew" ELSE "save")
  /\ UNCHANGED result

\* transition refuses an illegal change, and the engine panics on that.
TransitionExec(w, to, l) ==
  IF CanTransitionStatus(exec[w].status, to)
  THEN Persist(w, MoveStatus(exec[w], to), l)
  ELSE Finish(w, "enginePanic") /\ UNCHANGED <<exec, next>>

TransitionStep(w, i, to, l) ==
  IF CanTransitionStepStatus(exec[w].steps[i], to)
  THEN Persist(w, MoveStep(exec[w], i, to), l)
  ELSE Finish(w, "enginePanic") /\ UNCHANGED <<exec, next>>

Ended(w) == ctx[w] # "live"

\* The save at hand runs under the context of the call, except that the
\* changes of steps being compensated run under one that cannot end.
Detached(w) == next[w] \in {"undo", "compensate"}

\* The store and the locker refuse the call at hand, and do nothing.
Refuses(w) == "ctxStore" \in Env /\ Ended(w) /\ ~Detached(w)

\* A write to the store that returns an error: it was refused, or it failed,
\* having written or not.
WriteFails(w) ==
  \/ Refuses(w) /\ UNCHANGED <<store, faults>>
  \/ Fault("store") /\ (UNCHANGED store \/ Put(exec[w]))

-------------------------------------------------------------------------------
(***************************************************************************)
(* Entry points.                                                           *)
(***************************************************************************)

\* Execute builds the record.  Its ID is fresh, so this happens once.
Execute(w) ==
  /\ At(w, "idle") /\ swept[w]
  /\ store = Absent
  /\ \A v \in Workers : ~At(v, "create")
  /\ Goto(w, "create")
  /\ exec' = [exec EXCEPT ![w] = NewExecution]
  /\ role' = [role EXCEPT ![w] = "execute"]
  /\ UNCHANGED <<outside, next, cur, failedAt, attempt, ctx, result>>

\* The first Save, before any lease.
SaveInitial(w) ==
  /\ At(w, "create")
  /\ \/ /\ Put(exec[w])
        /\ Goto(w, "acquire")
        /\ UNCHANGED <<locals, faults>>
     \/ WriteFails(w) /\ Leave(w)
  /\ UNCHANGED <<lease, swept, ghosts>>

\* The policy leaves a record as it is whose steps may have taken effect.
Skips(policy, r) == policy = "RecoverSkipInFlight" /\ HasInFlightStep(r)

\* Recover reads the list of incomplete executions, before any lease, and
\* goes on with the copy it has read.
Recover(w) ==
  /\ At(w, "idle")
  /\ "resweep" \in Env \/ ~swept[w]
  /\ swept' = [swept EXCEPT ![w] = TRUE]
  /\ \/ /\ IsIncomplete(store)
        /\ \E policy \in Policies :
             /\ ~Skips(policy, store)
             /\ role' = [role EXCEPT ![w] = policy]
        /\ Goto(w, "acquire")
        /\ exec' = [exec EXCEPT ![w] = store]
        /\ UNCHANGED faults
     \/ /\ \/ ~IsIncomplete(store)
           \/ \E policy \in Policies : Skips(policy, store)
        /\ UNCHANGED <<pc, exec, role, faults>>
     \/ /\ Fault("store")
        /\ UNCHANGED <<pc, exec, role>>
  /\ UNCHANGED <<store, lease, next, cur, failedAt, attempt, ctx, result,
                 ghosts>>

-------------------------------------------------------------------------------
(***************************************************************************)
(* resume: the lease, then a branch on the status of the copy.  Neither    *)
(* caller passes a terminal copy.                                          *)
(***************************************************************************)
\* Mutant: the error of Acquire is dropped.
AcquireUnchecked(w) ==
  /\ At(w, "acquire")
  /\ \/ /\ IF HasLocker THEN Take(w) ELSE UNCHANGED lease
        /\ Goto(w, "resume")
        /\ UNCHANGED <<locals, faults>>
     \/ /\ HasLocker /\ ~Available(w)
        /\ Leave(w)
        /\ UNCHANGED <<lease, faults>>
     \/ /\ HasLocker /\ Fault("store")
        /\ Goto(w, "resume")
        /\ UNCHANGED <<lease, locals>>
  /\ UNCHANGED <<store, swept, ghosts>>

\* A lease that was taken although Acquire returned an error is nobody's.
AcquireLease(w) ==
  /\ At(w, "acquire")
  /\ \/ /\ IF HasLocker THEN Take(w) ELSE UNCHANGED lease
        /\ Goto(w, "resume")
        /\ UNCHANGED <<locals, faults>>
     \/ /\ HasLocker
        /\ ~Available(w) \/ Refuses(w)
        /\ Leave(w)
        /\ UNCHANGED <<lease, faults>>
     \/ /\ HasLocker
        /\ Fault("store")
        /\ Leave(w)
        /\ UNCHANGED lease \/ (Available(w) /\ lease' = Orphan)
  /\ UNCHANGED <<store, swept, ghosts>>

BeginRun(w) ==
  /\ At(w, "resume") /\ exec[w].status = "PENDING"
  /\ TransitionExec(w, "RUNNING", "resume")
  /\ UNCHANGED <<outside, cur, failedAt, attempt, ctx, role>>

\* A step was recorded FAILED, but not what should have followed.
ResumeFailedStep(w) ==
  /\ At(w, "resume") /\ exec[w].status = "RUNNING"
  /\ \E i \in Steps :
       /\ IsFirstFailed(exec[w], i)
       /\ cur' = [cur EXCEPT ![w] = i]
  /\ Goto(w, "abort")
  /\ UNCHANGED <<outside, next, exec, failedAt, attempt, ctx, role, result>>

ResumeForward(w) ==
  /\ At(w, "resume") /\ exec[w].status = "RUNNING"
  /\ \A i \in Steps : exec[w].steps[i] # "FAILED"
  /\ \E i \in 1..(NSteps + 1) :
       /\ IsFrontier(exec[w], i)
       /\ cur' = [cur EXCEPT ![w] = i]
  /\ Goto(w, "forward")
  /\ UNCHANGED <<outside, next, exec, failedAt, attempt, ctx, role, result>>

ResumeCompensating(w) ==
  /\ At(w, "resume") /\ exec[w].status = "COMPENSATING"
  /\ \E n \in 0..NSteps :
       /\ IsFailedAt(exec[w], n)
       /\ cur' = [cur EXCEPT ![w] = n]
  /\ Goto(w, "rollback")
  /\ UNCHANGED <<outside, next, exec, failedAt, attempt, ctx, role, result>>

-------------------------------------------------------------------------------
(***************************************************************************)
(* resumeRunning's loop over the steps.                                    *)
(***************************************************************************)
\* Mutant: the loop ends one step early.
FinishRunEarly(w) ==
  /\ At(w, "forward") /\ cur[w] = NSteps
  /\ TransitionExec(w, "COMPLETED", "release")
  /\ UNCHANGED <<outside, cur, failedAt, attempt, ctx, role>>

FinishRun(w) ==
  /\ At(w, "forward") /\ cur[w] = NSteps + 1
  /\ TransitionExec(w, "COMPLETED", "release")
  /\ UNCHANGED <<outside, cur, failedAt, attempt, ctx, role>>

\* Mutant: a step found RUNNING is given up.
StopAtInterrupted(w) ==
  /\ At(w, "forward") /\ cur[w] \in Steps
  /\ Ended(w) \/ exec[w].steps[cur[w]] = "RUNNING"
  /\ Goto(w, "abort")
  /\ UNCHANGED <<outside, locals>>

\* The context ended before the step: it is left as it was found, PENDING or
\* RUNNING.
StopForward(w) ==
  /\ At(w, "forward") /\ cur[w] \in Steps
  /\ Ended(w)
  /\ Goto(w, "abort")
  /\ UNCHANGED <<outside, locals>>

\* Mutant: a step found RUNNING is started like a fresh one.
StartStepAgain(w) ==
  /\ At(w, "forward") /\ cur[w] \in Steps
  /\ ~Ended(w)
  /\ TransitionStep(w, cur[w], "RUNNING", "attempt")
  /\ attempt' = [attempt EXCEPT ![w] = 0]
  /\ UNCHANGED <<outside, cur, failedAt, ctx, role>>

\* Mutant: only outcomes are saved, not that a step is under way.
StartStepUnsaved(w) ==
  /\ At(w, "forward") /\ cur[w] \in Steps
  /\ ~Ended(w)
  /\ exec[w].steps[cur[w]] = "PENDING"
  /\ exec' = [exec EXCEPT ![w].steps[cur[w]] = "RUNNING"]
  /\ attempt' = [attempt EXCEPT ![w] = 0]
  /\ Goto(w, "attempt")
  /\ UNCHANGED <<outside, next, cur, failedAt, ctx, role, result>>

StartStep(w) ==
  /\ At(w, "forward") /\ cur[w] \in Steps
  /\ ~Ended(w)
  /\ exec[w].steps[cur[w]] = "PENDING"
  /\ TransitionStep(w, cur[w], "RUNNING", "attempt")
  /\ attempt' = [attempt EXCEPT ![w] = 0]
  /\ UNCHANGED <<outside, cur, failedAt, ctx, role>>

\* The step was under way when an earlier call ended: it is run again.
RetryInterruptedStep(w) ==
  /\ At(w, "forward") /\ cur[w] \in Steps
  /\ ~Ended(w)
  /\ exec[w].steps[cur[w]] # "PENDING"
  /\ attempt' = [attempt EXCEPT ![w] = 0]
  /\ Goto(w, "attempt")
  /\ UNCHANGED <<outside, next, exec, cur, failedAt, ctx, role, result>>

FailStep(w) == TransitionStep(w, cur[w], "FAILED", "abort")

-------------------------------------------------------------------------------
(***************************************************************************)
(* runStep and callAction: one step's attempts.                            *)
(***************************************************************************)
Invoke(w) ==
  /\ At(w, "attempt")
  /\ ~Ended(w)
  /\ attempt' = [attempt EXCEPT ![w] = @ + 1]
  /\ exec' = [exec EXCEPT ![w].attempts[cur[w]] = @ + 1]
  /\ runs' = [runs EXCEPT ![cur[w]] = Tick(@)]
  /\ Goto(w, "acting")
  /\ UNCHANGED <<store, lease, next, cur, failedAt, ctx, role, result, swept,
                 faults, world, comps, announced, lapsed>>

\* The context ended before the attempt.
GiveUpStep(w) ==
  /\ At(w, "attempt")
  /\ Ended(w)
  /\ FailStep(w)
  /\ UNCHANGED <<outside, cur, failedAt, attempt, ctx, role>>

\* Downstream carries the Action out.
ActionApplies(w) ==
  /\ At(w, "acting")
  /\ world[cur[w]] = "none" \/ (~Idempotent /\ world[cur[w]] = "undone")
  /\ world' = [world EXCEPT ![cur[w]] = "done"]
  /\ UNCHANGED <<store, lease, pc, locals, swept, faults, runs, comps,
                 announced, lapsed>>

\* The ways an Action can come back.  "late" is any return after the step's
\* own timeout: callAction turns it into a StepTimeoutError.
Outcomes(w) ==
  (IF world[cur[w]] = "done" \/ (Idempotent /\ world[cur[w]] = "undone")
   THEN {"ok"} ELSE {})
    \cup (IF Idempotent /\ world[cur[w]] # "none" THEN {} ELSE {"err", "fatal"})
    \cup (IF "stepTimeout" \in Env THEN {"late"} ELSE {})

\* Mutant: one attempt too many.
AttemptsLeftInclusive(w) == attempt[w] <= MaxAttempts

AttemptsLeft(w) == attempt[w] < MaxAttempts

\* A success counts unless the saga's own deadline has passed; a retryable
\* error is retried while the context lives and attempts are left.
ActionReturns(w) ==
  /\ At(w, "acting")
  /\ \E out \in Outcomes(w) :
       LET honoured == out = "ok" /\ ctx[w] # "sagaTimeout"
           retried == out \in {"err", "late"} /\ ~Ended(w) /\ AttemptsLeft(w)
       IN \/ /\ honoured
             /\ TransitionStep(w, cur[w], "SUCCEEDED", "forward")
             /\ cur' = [cur EXCEPT ![w] = @ + 1]
          \/ /\ retried
             /\ Goto(w, "backoff")
             /\ UNCHANGED <<next, exec, result, cur>>
          \/ /\ ~honoured /\ ~retried
             /\ FailStep(w)
             /\ UNCHANGED cur
  /\ UNCHANGED <<outside, failedAt, attempt, ctx, role>>

\* sleepOrDone: the delay elapses, or the context ends first.
Backoff(w) ==
  /\ At(w, "backoff")
  /\ \/ Goto(w, "attempt") /\ UNCHANGED <<next, exec, result>>
     \/ Ended(w) /\ FailStep(w)
  /\ UNCHANGED <<outside, cur, failedAt, attempt, ctx, role>>

-------------------------------------------------------------------------------
(***************************************************************************)
(* abort, finishCompensating and compensate.                               *)
(***************************************************************************)
AbortFailed(w) ==
  /\ At(w, "abort")
  /\ ~AnySucceeded(exec[w], cur[w] - 1)
  /\ TransitionExec(w, "FAILED", "release")
  /\ UNCHANGED <<outside, cur, failedAt, attempt, ctx, role>>

AbortCompensating(w) ==
  /\ At(w, "abort")
  /\ AnySucceeded(exec[w], cur[w] - 1)
  /\ TransitionExec(w, "COMPENSATING", "rollback")
  /\ cur' = [cur EXCEPT ![w] = @ - 1]
  /\ UNCHANGED <<outside, failedAt, attempt, ctx, role>>

\* finishCompensating takes over at the step before the failed one.
Rollback(w) ==
  /\ At(w, "rollback")
  /\ failedAt' = [failedAt EXCEPT ![w] = cur[w]]
  /\ Goto(w, "undo")
  /\ UNCHANGED <<outside, next, exec, cur, attempt, ctx, role, result>>

\* The last step among 1..cur that compensate does not skip.
IsNextUndo(w, i) ==
  /\ i \in Undoable(exec[w], cur[w])
  /\ \A j \in Undoable(exec[w], cur[w]) : j <= i

UndoStep(w) ==
  /\ At(w, "undo")
  /\ \E i \in Steps :
       /\ IsNextUndo(w, i)
       /\ cur' = [cur EXCEPT ![w] = i]
       /\ IF exec[w].steps[i] = "SUCCEEDED"
          THEN TransitionStep(w, i, "COMPENSATING", "compensate")
          ELSE Goto(w, "compensate") /\ UNCHANGED <<next, exec, result>>
  /\ UNCHANGED <<outside, failedAt, attempt, ctx, role>>

InvokeCompensate(w) ==
  /\ At(w, "compensate")
  /\ comps' = [comps EXCEPT ![cur[w]] = Tick(@)]
  /\ Goto(w, "undoing")
  /\ UNCHANGED <<store, lease, locals, swept, faults, world, runs, announced,
                 lapsed>>

\* Downstream carries the Compensate out.
UndoApplies(w) ==
  /\ At(w, "undoing")
  /\ world[cur[w]] = "done"
  /\ world' = [world EXCEPT ![cur[w]] = "undone"]
  /\ UNCHANGED <<store, lease, pc, locals, swept, faults, runs, comps,
                 announced, lapsed>>

\* Compensate is called once: an error settles the step, and the loop goes on
\* with the step before it.
UndoReturns(w) ==
  /\ At(w, "undoing")
  /\ \/ /\ world[cur[w]] # "done"
        /\ TransitionStep(w, cur[w], "COMPENSATED", "undo")
     \/ /\ ~Idempotent \/ world[cur[w]] = "done"
        /\ TransitionStep(w, cur[w], "COMPENSATION_FAILED", "undo")
  /\ cur' = [cur EXCEPT ![w] = @ - 1]
  /\ UNCHANGED <<outside, failedAt, attempt, ctx, role>>

FinishRollback(w) ==
  /\ At(w, "undo")
  /\ Undoable(exec[w], cur[w]) = {}
  /\ TransitionExec(w, RollbackOutcome(exec[w], failedAt[w]), "release")
  /\ UNCHANGED <<outside, cur, failedAt, attempt, ctx, role>>

-------------------------------------------------------------------------------
(***************************************************************************)
(* Every transition: renew the lease, save the copy, tell the observers.   *)
(***************************************************************************)
RenewLease(w) ==
  /\ At(w, "renew")
  /\ \/ /\ Take(w)
        /\ Goto(w, "save")
        /\ UNCHANGED <<result, faults>>
     \/ /\ ~Available(w)
        /\ Finish(w, "locked")
        /\ UNCHANGED <<lease, faults>>
     \/ /\ Refuses(w)
        /\ Finish(w, "error")
        /\ UNCHANGED <<lease, faults>>
     \/ /\ Fault("store")
        /\ UNCHANGED lease \/ Take(w)
        /\ Finish(w, "error")
  /\ UNCHANGED <<store, next, exec, cur, failedAt, attempt, ctx, role, swept,
                 ghosts>>

\* Mutant: the error of Save is dropped.
SaveUnchecked(w) ==
  /\ At(w, "save")
  /\ \/ Put(exec[w]) /\ UNCHANGED faults
     \/ WriteFails(w)
  /\ Goto(w, "notify")
  /\ UNCHANGED <<lease, locals, swept, ghosts>>

Save(w) ==
  /\ At(w, "save")
  /\ \/ /\ Put(exec[w])
        /\ Goto(w, "notify")
        /\ UNCHANGED <<result, faults>>
     \/ WriteFails(w) /\ Finish(w, "error")
  /\ UNCHANGED <<lease, next, exec, cur, failedAt, attempt, ctx, role, swept,
                 ghosts>>

\* The record now says where the call goes on; a terminal status ends it.
Notify(w) ==
  /\ At(w, "notify")
  /\ IF IsTerminal(exec[w].status)
     THEN /\ announced' = announced \cup {exec[w].status}
          /\ Finish(w, IF exec[w].status = "COMPLETED" THEN "ok" ELSE "failed")
     ELSE Goto(w, next[w]) /\ UNCHANGED <<announced, result>>
  /\ UNCHANGED <<store, lease, next, exec, cur, failedAt, attempt, ctx, role,
                 swept, faults, world, runs, comps, lapsed>>

\* The deferred Release, whose error is ignored.
Release(w) ==
  /\ At(w, "release")
  /\ \/ GiveUp(w) /\ UNCHANGED faults
     \/ Fault("store") /\ Forsake(w)
  /\ Goto(w, "idle")
  /\ Forget(w)
  /\ UNCHANGED <<store, swept, ghosts>>

-------------------------------------------------------------------------------
(***************************************************************************)
(* The environment.                                                        *)
(***************************************************************************)

\* The process dies wherever it stands, and starts again.
Crash(w) ==
  /\ Fault("crash")
  /\ Forsake(w)
  /\ Goto(w, "idle")
  /\ Forget(w)
  /\ swept' = [swept EXCEPT ![w] = FALSE]
  /\ UNCHANGED <<store, ghosts>>

\* User code panics; the deferred Release still runs.
PanicInStep(w) ==
  /\ At(w, "acting") \/ At(w, "undoing")
  /\ Fault("panicStep")
  /\ Finish(w, "userPanic")
  /\ UNCHANGED <<store, lease, next, exec, cur, failedAt, attempt, ctx, role,
                 swept, ghosts>>

\* The publisher has had the event (its panics are recovered) when the logger
\* or the metrics panic.  The transition to COMPENSATING has no event.
PanicInObserver(w) ==
  /\ At(w, "notify") /\ next[w] # "rollback"
  /\ Fault("panicObserver")
  /\ announced' = announced \cup ({exec[w].status} \cap Terminal)
  /\ Finish(w, "userPanic")
  /\ UNCHANGED <<store, lease, next, exec, cur, failedAt, attempt, ctx, role,
                 swept, world, runs, comps, lapsed>>

\* The context of the call ends.  The saga's timeout only starts once the
\* call has its lease.
ContextEnds(w) ==
  /\ ~At(w, "idle") /\ ~Ended(w)
  /\ \/ /\ "cancel" \in Env
        /\ ctx' = [ctx EXCEPT ![w] = "cancelled"]
     \/ /\ "sagaTimeout" \in Env
        /\ pc[w] \notin {"create", "acquire"}
        /\ ctx' = [ctx EXCEPT ![w] = "sagaTimeout"]
  /\ UNCHANGED <<outside, pc, next, exec, cur, failedAt, attempt, role, result>>

\* A TTL passes: of a lease nobody will renew, or under a call in progress.
Lapse ==
  /\ \/ Expire(lease = Orphan) /\ UNCHANGED <<faults, lapsed>>
     \/ Expire(lease \in Workers) /\ Fault("lapse") /\ lapsed' = TRUE
  /\ UNCHANGED <<store, pc, locals, swept, world, runs, comps, announced>>

\* No call is in progress, and none has to come.
Rest ==
  /\ \A w \in Workers : At(w, "idle")
  /\ UNCHANGED vars

-------------------------------------------------------------------------------
\* What a worker inside a call does on its own.
Engine(w) ==
  \/ SaveInitial(w) \/ AcquireLease(w)
  \/ BeginRun(w) \/ ResumeFailedStep(w) \/ ResumeForward(w)
  \/ ResumeCompensating(w)
  \/ FinishRun(w) \/ StopForward(w) \/ StartStep(w) \/ RetryInterruptedStep(w)
  \/ Invoke(w) \/ GiveUpStep(w) \/ ActionReturns(w) \/ Backoff(w)
  \/ AbortFailed(w) \/ AbortCompensating(w) \/ Rollback(w)
  \/ UndoStep(w) \/ InvokeCompensate(w) \/ UndoReturns(w) \/ FinishRollback(w)
  \/ RenewLease(w) \/ Save(w) \/ Notify(w) \/ Release(w)

Downstream(w) == ActionApplies(w) \/ UndoApplies(w)

Environment(w) ==
  Crash(w) \/ PanicInStep(w) \/ PanicInObserver(w) \/ ContextEnds(w)

Next ==
  \/ \E w \in Workers :
       Execute(w) \/ Recover(w) \/ Engine(w) \/ Downstream(w) \/ Environment(w)
  \/ Lapse
  \/ Rest

Spec == Init /\ [][Next]_vars

\* A call in progress goes on (user code returns, timers fire), a recovery
\* that may run does run, and the lease of a call that is gone expires.
Fairness ==
  /\ \A w \in Workers : WF_vars(Engine(w)) /\ WF_vars(Recover(w))
  /\ WF_vars(lease = Orphan /\ Lapse)

FairSpec == Spec /\ Fairness

===============================================================================
