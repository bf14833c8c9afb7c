---------------------------- MODULE RecoverySweep -----------------------------
(***************************************************************************)
(* One process and all of its executions: Recover goes through the         *)
(* incomplete ones of several sagas (recovery.go), under definitions that  *)
(* may not be the ones they were created with.                             *)
(*                                                                         *)
(* The process runs one version of the program at a time.  A version       *)
(* registers a definition for some of the executions' sagas, with some     *)
(* number of steps, and picks a RecoveryPolicy.  The engine matches the    *)
(* record of an execution with the definition by index alone, so it may    *)
(* meet a record that is longer or shorter than the definition.            *)
(*                                                                         *)
(* The engine is modelled from one save to the next, and only where it     *)
(* works on one execution at a time: SagaEngine has what happens between   *)
(* two saves, and between two workers.  Nobody else writes the records     *)
(* here while a sweep works on the copies it was given; in the code an     *)
(* Execute or another Recover may (SagaEngine has them).                   *)
(***************************************************************************)
EXTENDS Naturals, Sequences, SagaStatus

CONSTANTS
  Ids,            \* the executions in the store, numbered in the order of their
                  \* IDs
  Created,        \* the CreatedAt of each
  Versions,       \* the versions of the program
  Definitions,    \* for each version and execution, the number of steps of the
                  \* definition of its saga, or Unregistered
  Unregistered,
  Compensable,    \* the steps whose Compensate is not nil
  Cautious,       \* the versions whose policy is RecoverSkipInFlight
  Poison,         \* the executions with an Action that may panic
  MaxFaults       \* bound: crashes, and errors of the store or the locker

ASSUME SweepAssumption ==
  /\ Ids \subseteq Nat \ {0}
  /\ Created \in [Ids -> Nat]
  /\ Definitions \in [Versions -> [Ids -> Nat \cup {Unregistered}]]
  /\ Unregistered \notin Nat
  /\ Compensable \subseteq Nat
  /\ Cautious \subseteq Versions
  /\ Poison \subseteq Ids
  /\ MaxFaults \in Nat

VARIABLES
  version,   \* the version the process runs
  pc,        \* where it stands
  rec,       \* the saved record of each execution
  lease,     \* "free", "held" by the call in progress, or "orphan"
  listed,    \* the copies that Recover was given
  todo,      \* the executions its loop has not come to
  answers,   \* its results so far
  at,        \* the execution in hand, or None
  copy,      \* the call's copy of its record
  ctx,       \* "live", or why the context of the call in progress ended
  cut,       \* the executions of the call in progress that were still to be
             \* driven when their context ended
  faults     \* faults spent

loop == <<listed, todo>>
hand == <<at, copy>>
vars == <<version, pc, rec, lease, loop, answers, hand, ctx, cut, faults>>

None == 0

Records == [status : Status, steps : Seq(StepStatus)]
Fresh(n) == [status |-> "PENDING", steps |-> [i \in 1..n |-> "PENDING"]]
NoCopy == Fresh(0)

HasDefinition(x, n) == \E v \in Versions : Definitions[v][x] = n
Lengths ==
  (UNION {{Definitions[v][x] : v \in Versions} : x \in Ids}) \cap Nat

Results == {"settled", "unregistered", "skipped", "locked", "error"}

TypeOK ==
  /\ version \in Versions
  /\ pc \in {"idle", "sweep", "acquire", "drive", "act"}
  /\ rec \in [Ids -> Records]
  /\ lease \in [Ids -> {"free", "held", "orphan"}]
  /\ DOMAIN listed \subseteq Ids
  /\ \A x \in DOMAIN listed : listed[x] \in Records
  /\ todo \subseteq DOMAIN listed
  /\ answers \in Seq([id : Ids, result : Results])
  /\ at \in Ids \cup {None} 
  /\ copy \in Records
  /\ ctx \in {"live", "timeout", "cancelled"}
  /\ cut \subseteq Ids
  /\ faults \in 0..MaxFaults

\* Executions that Execute saved, before a crash of its process or of the call.
Init ==
  /\ version \in Versions
  /\ pc = "idle"
  /\ rec \in {r \in [Ids -> {Fresh(n) : n \in Lengths}] :
       \A x \in Ids : HasDefinition(x, Len(r[x].steps))}
  /\ lease = [x \in Ids |-> "free"]
  /\ listed = <<>> /\ todo = {} /\ answers = <<>>
  /\ at = None /\ copy = NoCopy
  /\ ctx = "live"
  /\ cut = {}
  /\ faults = 0

-------------------------------------------------------------------------------
(***************************************************************************)
(* Records.                                                                *)
(***************************************************************************)
IsIncomplete(r) == ~IsTerminal(r.status)

At(r, S) == {i \in DOMAIN r.steps : r.steps[i] \in S}

InFlight(r) == At(r, {"RUNNING", "COMPENSATING"}) # {}

MoveStatus(r, to) == [r EXCEPT !.status = to]
MoveStep(r, i, to) == [r EXCEPT !.steps[i] = to]

\* Mutant: a step that was started counts as done.
IsFrontierPastStarted(r, i) ==
  /\ i \in 1..(Len(r.steps) + 1)
  /\ \A j \in 1..(i - 1) : r.steps[j] \in {"RUNNING", "SUCCEEDED"}
  /\ i \in DOMAIN r.steps => r.steps[i] \notin {"RUNNING", "SUCCEEDED"}

\* Forward execution goes on at step i, perhaps behind the last one.
IsFrontier(r, i) ==
  /\ i \in 1..(Len(r.steps) + 1)
  /\ \A j \in 1..(i - 1) : r.steps[j] = "SUCCEEDED"
  /\ i \in DOMAIN r.steps => r.steps[i] # "SUCCEEDED"

\* Compensation goes on at step i, the last that has something to undo.  A
\* step the definition no longer has cannot be asked for its Compensate.
IsNextUndo(r, i) ==
  LET left == {j \in At(r, {"SUCCEEDED", "COMPENSATING"}) :
                 j \in Compensable \/ j > Definitions[version][at]}
  IN i \in left /\ \A j \in left : j <= i

NothingToUndo(r) == ~\E i \in DOMAIN r.steps : IsNextUndo(r, i)

-------------------------------------------------------------------------------
(***************************************************************************)
(* The calls of the process, and the ways they end.                        *)
(***************************************************************************)
Registered(x) == Definitions[version][x] # Unregistered

Fault ==
  /\ faults < MaxFaults
  /\ faults' = faults + 1

ForgetLoop == listed' = <<>> /\ todo' = {} /\ answers' = <<>>
ForgetHand == at' = None /\ copy' = NoCopy
ComeToRest == pc' = "idle" /\ ctx' = "live" /\ cut' = {}

Answer(x, result) ==
  answers' = Append(answers, [id |-> x, result |-> result])

\* resume's deferred Release.
GiveBack == lease' = [lease EXCEPT ![at] = "free"]

\* Mutant: the next execution inherits the timeout of the one before.
FinishTimedOut(result) ==
  /\ ForgetHand
  /\ pc' = "sweep"
  /\ Answer(at, result)
  /\ UNCHANGED <<listed, todo, ctx, cut>>

\* resume comes back to Recover.  The saga's own timeout ends with it, the
\* context of the caller does not.
Finish(result) ==
  /\ ForgetHand
  /\ pc' = "sweep"
  /\ Answer(at, result)
  /\ ctx' = IF ctx = "cancelled" THEN ctx ELSE "live"
  /\ UNCHANGED <<listed, todo, cut>>

\* The copy becomes r and is saved; the call goes on at l.  A save that fails
\* may have been done.
Save(r, l) ==
  \/ /\ copy' = r
     /\ rec' = [rec EXCEPT ![at] = r]
     /\ pc' = l
     /\ UNCHANGED <<lease, loop, answers, at, ctx, cut, faults>>
  \/ /\ Fault
     /\ rec' \in {rec, [rec EXCEPT ![at] = r]}
     /\ GiveBack
     /\ Finish("error")

\* The process starts again, perhaps with another version of the program.
Restart ==
  /\ version' \in Versions
  /\ ComeToRest
  /\ ForgetLoop /\ ForgetHand

-------------------------------------------------------------------------------
(***************************************************************************)
(* Recover.                                                                *)
(***************************************************************************)

\* ListIncomplete, at one moment for all executions.
Recover ==
  /\ pc = "idle"
  /\ listed' = [x \in {y \in Ids : IsIncomplete(rec[y])} |-> rec[x]]
  /\ todo' = {y \in Ids : IsIncomplete(rec[y])}
  /\ pc' = "sweep"
  /\ UNCHANGED <<version, rec, lease, answers, hand, ctx, cut, faults>>

\* The order of the sweep.
Before(x, y) ==
  \/ Created[x] < Created[y]
  \/ Created[x] = Created[y] /\ x < y

\* Mutant: executions are sorted by their IDs alone.
IsNextById(x) == x \in todo /\ \A y \in todo : x <= y

\* The loop has come to x.
IsNext(x) == x \in todo /\ \A y \in todo \ {x} : Before(x, y)

\* Mutant: an execution of no registered saga ends the sweep.
ReportUnregisteredAndStop(x) ==
  /\ pc = "sweep" /\ IsNext(x)
  /\ ~Registered(x)
  /\ ComeToRest
  /\ ForgetLoop
  /\ UNCHANGED <<version, rec, lease, hand, faults>>

ReportUnregistered(x) ==
  /\ pc = "sweep" /\ IsNext(x)
  /\ ~Registered(x)
  /\ Answer(x, "unregistered")
  /\ todo' = todo \ {x}
  /\ UNCHANGED <<version, pc, rec, lease, listed, hand, ctx, cut, faults>>

Skip(x) ==
  /\ pc = "sweep" /\ IsNext(x)
  /\ Registered(x)
  /\ version \in Cautious /\ InFlight(listed[x])
  /\ Answer(x, "skipped")
  /\ todo' = todo \ {x}
  /\ UNCHANGED <<version, pc, rec, lease, listed, hand, ctx, cut, faults>>

Resume(x) ==
  /\ pc = "sweep" /\ IsNext(x)
  /\ Registered(x)
  /\ ~(version \in Cautious /\ InFlight(listed[x]))
  /\ pc' = "acquire"
  /\ at' = x /\ copy' = listed[x]
  /\ todo' = todo \ {x}
  /\ UNCHANGED <<version, rec, lease, listed, answers, ctx, cut, faults>>

Return ==
  /\ pc = "sweep" /\ todo = {}
  /\ ComeToRest
  /\ ForgetLoop
  /\ UNCHANGED <<version, rec, lease, hand, faults>>

-------------------------------------------------------------------------------
(***************************************************************************)
(* resume.                                                                 *)
(***************************************************************************)
Acquire ==
  /\ pc = "acquire"
  /\ lease[at] = "free"
  /\ lease' = [lease EXCEPT ![at] = "held"]
  /\ pc' = "drive"
  /\ UNCHANGED <<version, rec, loop, answers, hand, ctx, cut, faults>>

\* A crash left the lease behind, and its TTL has not passed.
ReportLocked ==
  /\ pc = "acquire"
  /\ lease[at] = "orphan"
  /\ Finish("locked")
  /\ UNCHANGED <<version, rec, lease, faults>>

\* Acquire returns an error, having granted the lease or not.
AcquireFails ==
  /\ pc = "acquire"
  /\ Fault
  /\ lease' \in {lease, [lease EXCEPT ![at] = "orphan"]}
  /\ Finish("error")
  /\ UNCHANGED <<version, rec>>

Drives(status) == pc = "drive" /\ copy.status = status

BeginRun ==
  /\ Drives("PENDING")
  /\ Save(MoveStatus(copy, "RUNNING"), "drive")
  /\ UNCHANGED version

\* A step was recorded FAILED, by this call or by one before.
IsFirstFailed(i) ==
  /\ i \in At(copy, {"FAILED"})
  /\ \A j \in At(copy, {"FAILED"}) : i <= j

NoneFailed == ~\E i \in DOMAIN copy.steps : IsFirstFailed(i)

\* The loop ends with the definition's steps, however many the record has.
Complete ==
  /\ Drives("RUNNING") /\ NoneFailed
  /\ \E i \in 1..(Len(copy.steps) + 1) :
       IsFrontier(copy, i) /\ i > Definitions[version][at]
  /\ Save(MoveStatus(copy, "COMPLETED"), "drive")
  /\ UNCHANGED version

\* Mutant: the loop goes one step too far.
ComesOnceMore(i) ==
  /\ Drives("RUNNING") /\ NoneFailed
  /\ IsFrontier(copy, i) /\ i <= Definitions[version][at] + 1

\* The loop's next step, while there is one in the definition.
Comes(i) ==
  /\ Drives("RUNNING") /\ NoneFailed
  /\ IsFrontier(copy, i) /\ i <= Definitions[version][at]

Start(i) ==
  /\ Comes(i) /\ ctx = "live"
  /\ i \in At(copy, {"PENDING"})
  /\ Save(MoveStep(copy, i, "RUNNING"), "act")
  /\ UNCHANGED version

StartAgain(i) ==
  /\ Comes(i) /\ ctx = "live"
  /\ i \in At(copy, {"RUNNING"})
  /\ pc' = "act"
  /\ UNCHANGED <<version, rec, lease, loop, answers, hand, ctx, cut, faults>>

\* Mutant: the step gets the status of a saga.
ActCompleted(i) ==
  /\ pc = "act" /\ IsFrontier(copy, i)
  /\ \E s \in {"COMPLETED", "FAILED"} :
       /\ s = "COMPLETED" => ctx # "timeout"
       /\ Save(MoveStep(copy, i, s), "drive")
  /\ UNCHANGED version

\* runStep returns.  A context that ended before the first attempt keeps the
\* Action from being called; a success behind the saga's deadline is discarded.
Act(i) ==
  /\ pc = "act" /\ IsFrontier(copy, i)
  /\ \E s \in {"SUCCEEDED", "FAILED"} :
       /\ s = "SUCCEEDED" => ctx # "timeout"
       /\ Save(MoveStep(copy, i, s), "drive")
  /\ UNCHANGED version

\* Mutant: the saga turns back even when there is nothing to undo.
AbortToCompensating(i) ==
  /\ \/ Drives("RUNNING") /\ IsFirstFailed(i)
     \/ Comes(i) /\ ctx # "live"
  /\ Save(MoveStatus(copy, "COMPENSATING"), "drive")
  /\ UNCHANGED version

\* abort, at the failed step or at the one the ended context stopped before.
Abort(i) ==
  /\ \/ Drives("RUNNING") /\ IsFirstFailed(i)
     \/ Comes(i) /\ ctx # "live"
  /\ Save(MoveStatus(copy, IF \E j \in 1..(i - 1) : copy.steps[j] = "SUCCEEDED"
                           THEN "COMPENSATING" ELSE "FAILED"),
          "drive")
  /\ UNCHANGED version

Undo(i) ==
  /\ Drives("COMPENSATING")
  /\ IsNextUndo(copy, i) /\ i <= Definitions[version][at]
  /\ \E s \in IF copy.steps[i] = "SUCCEEDED" THEN {"COMPENSATING"}
              ELSE {"COMPENSATED", "COMPENSATION_FAILED"} :
       Save(MoveStep(copy, i, s), "drive")
  /\ UNCHANGED version

FinishRollback ==
  /\ Drives("COMPENSATING") /\ NothingToUndo(copy)
  /\ Save(MoveStatus(copy, IF At(copy, {"COMPENSATION_FAILED"}) # {}
                           THEN "COMPENSATION_FAILED" ELSE "COMPENSATED"),
          "drive")
  /\ UNCHANGED version

Settled ==
  /\ pc = "drive" /\ IsTerminal(copy.status)
  /\ GiveBack
  /\ Finish("settled")
  /\ UNCHANGED <<version, rec, faults>>

\* The loop forward indexes a step that the record does not have; the loop
\* backward one that the definition does not have.
OutOfRange ==
  \/ \E i \in 1..(Len(copy.steps) + 1) :
       Comes(i) /\ ctx = "live" /\ i > Len(copy.steps)
  \/ \E i \in DOMAIN copy.steps :
       /\ Drives("COMPENSATING")
       /\ IsNextUndo(copy, i) /\ i > Definitions[version][at]

\* A panic goes up through Recover and takes the process with it; the deferred
\* Release still runs.
Panic ==
  /\ OutOfRange \/ (pc = "act" /\ at \in Poison)
  /\ GiveBack
  /\ Restart
  /\ UNCHANGED <<rec, faults>>

-------------------------------------------------------------------------------
(***************************************************************************)
(* From outside.                                                           *)
(***************************************************************************)
Crash ==
  /\ Fault
  /\ lease' = [x \in Ids |-> IF lease[x] = "held" THEN "orphan" ELSE lease[x]]
  /\ Restart
  /\ UNCHANGED rec

\* The caller cancels: that is the context of all that is still to be done.
Cancel ==
  /\ pc # "idle" /\ ctx = "live"
  /\ ctx' = "cancelled"
  /\ cut' = cut \cup todo \cup ({at} \cap Ids)
  /\ UNCHANGED <<version, pc, rec, lease, loop, answers, hand, faults>>

\* The saga's own timeout, which starts afresh with each resume.
Timeout ==
  /\ pc \in {"drive", "act"} /\ ctx = "live"
  /\ ctx' = "timeout"
  /\ cut' = cut \cup {at}
  /\ UNCHANGED <<version, pc, rec, lease, loop, answers, hand, faults>>

Lapse(x) ==
  /\ lease[x] = "orphan"
  /\ lease' = [lease EXCEPT ![x] = "free"]
  /\ UNCHANGED <<version, pc, rec, loop, answers, hand, ctx, cut, faults>>

-------------------------------------------------------------------------------
Sweep ==
  \/ Return
  \/ \E x \in Ids : ReportUnregistered(x) \/ Skip(x) \/ Resume(x)

Engine ==
  \/ Acquire \/ ReportLocked \/ AcquireFails
  \/ BeginRun \/ Complete \/ FinishRollback \/ Settled \/ Panic
  \/ \E i \in 1..(Len(copy.steps) + 1) :
       Start(i) \/ StartAgain(i) \/ Act(i) \/ Abort(i) \/ Undo(i)

Next ==
  \/ Recover \/ Sweep \/ Engine
  \/ \E x \in Ids : Lapse(x)
  \/ Crash \/ Cancel \/ Timeout

Spec == Init /\ [][Next]_vars

\* A call goes on, Recover is called again and again, and the lease of a call
\* that is gone expires.
FairSpec ==
  /\ Spec
  /\ WF_vars(Sweep \/ Engine) /\ WF_vars(Recover)
  /\ \A x \in Ids : WF_vars(Lapse(x))

===============================================================================
