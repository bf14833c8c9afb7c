---------------------------- MODULE SagaProperties ----------------------------
(***************************************************************************)
(* What the engine of SagaEngine promises: of every record it saves,       *)
(* whoever races; of its lease; and, for one worker that crashes and       *)
(* recovers, of the relation between the record, the world and what was    *)
(* told to the caller and to the observers.                                *)
(***************************************************************************)
EXTENDS SagaEngine

-------------------------------------------------------------------------------
(***************************************************************************)
(* Records.                                                                *)
(***************************************************************************)
Settled(s) == s \in {"COMPENSATED", "COMPENSATION_FAILED"}
InCompensation(s) == s = "COMPENSATING" \/ Settled(s)

RollingBack(r) ==
  r.status \in {"COMPENSATING", "COMPENSATED", "COMPENSATION_FAILED"}

\* A step is only touched once every step before it has succeeded.
Sequential(r) ==
  \A i, j \in Steps : i < j /\ r.steps[j] # "PENDING" => Reached(r.steps[i])

\* Before the saga turns round no step is compensated, and a step that has no
\* Compensate never is.
ForwardOnly(r) ==
  \A i \in Steps :
    InCompensation(r.steps[i]) => RollingBack(r) /\ i \in Compensable

\* Compensation runs backwards: nothing is compensated before every later
\* step that has to be has been dealt with.
ReverseOrder(r) ==
  \A i, j \in Steps :
    i < j /\ InCompensation(r.steps[i]) /\ j \in Compensable
      /\ Reached(r.steps[j])
    => Settled(r.steps[j])

\* The status of the execution says what became of its steps.
Truthful(r) ==
  /\ r.status = "PENDING" => \A i \in Steps : r.steps[i] = "PENDING"
  /\ r.status = "COMPLETED" => \A i \in Steps : r.steps[i] = "SUCCEEDED"
  /\ r.status = "FAILED" =>
       NSteps > 0 /\ \A i \in Steps : ~Reached(r.steps[i])
  /\ RollingBack(r) =>
       NSteps > 1 /\ Reached(r.steps[1]) /\ ~Reached(r.steps[NSteps])
  /\ r.status \in {"COMPENSATED", "COMPENSATION_FAILED"} =>
       \A i \in Compensable : Reached(r.steps[i]) => Settled(r.steps[i])
  /\ r.status = "COMPENSATED" =>
       \A i \in Steps : r.steps[i] # "COMPENSATION_FAILED"
  /\ r.status = "COMPENSATION_FAILED" =>
       \E i \in Steps : r.steps[i] = "COMPENSATION_FAILED"

\* Attempts counts what was tried, within the retry budget.
Counted(r) ==
  \A i \in Steps :
    /\ r.attempts[i] <= MaxAttempts
    /\ r.steps[i] = "PENDING" => r.attempts[i] = 0
    /\ Reached(r.steps[i]) => r.attempts[i] > 0

WellFormed(r) ==
  /\ r.status \in Status
  /\ Sequential(r) /\ ForwardOnly(r) /\ ReverseOrder(r) /\ Truthful(r)
  /\ Counted(r)

\* Whatever crashes, fails, lapses or races, the statuses of the execution and
\* of its steps in the store go together (execute.go:415-420 relies on it to
\* rebuild failedAt).  It may still be an older record than one it replaced.
RecordShape == store # Absent => WellFormed(store)

\* The engine never asks for an illegal transition (execute.go:551-562).
NoEnginePanic == \A w \in Workers : result[w] # "enginePanic"

-------------------------------------------------------------------------------
(***************************************************************************)
(* Calls.                                                                  *)
(***************************************************************************)

\* The point at which a call goes on once its transition is saved.
Stage(w) == IF pc[w] \in {"renew", "save", "notify"} THEN next[w] ELSE pc[w]

Stepping == {"attempt", "acting", "backoff"}
Undoing == {"undo", "compensate", "undoing"}

\* The points a transition can lead to.
Continuations ==
  {"resume", "forward", "attempt", "abort", "rollback", "undo", "compensate",
   "release"}

\* The step in hand is one of the saga's wherever it is used as an index, and
\* an attempt is only begun within the budget.
InHand(w) ==
  LET l == Stage(w)
  IN /\ l \in Stepping \cup {"abort", "compensate", "undoing"} =>
          cur[w] \in Steps
     /\ l \in {"rollback", "undo"} => cur[w] \in 0..NSteps
     /\ l \in {"attempt", "backoff"} => attempt[w] < MaxAttempts
     /\ pc[w] \in {"renew", "save", "notify"} => next[w] \in Continuations

\* A saved RUNNING step has no attempts yet: they are saved with its outcome.
Unattempted(r) ==
  \A i \in Steps : r.steps[i] = "RUNNING" => r.attempts[i] = 0

\* What the code at stage l takes for granted of its copy r of the record, with
\* step i in hand, steps 1..n to compensate and a attempts made.
ReadyAt(l, r, i, n, a) ==
  /\ l # "idle" => WellFormed(r)
  /\ l \notin Stepping \cup {"release"} => Unattempted(r)
  /\ l \in {"create", "acquire", "resume"} => ~IsTerminal(r.status)
  /\ l = "forward" =>
       /\ r.status = "RUNNING" /\ i > 0
       /\ IsFrontier(r, i)
       /\ i \in Steps => r.steps[i] # "FAILED"
  /\ l \in Stepping =>
       /\ r.status = "RUNNING"
       /\ IsFrontier(r, i)
       /\ r.steps[i] = "RUNNING" /\ r.attempts[i] = a
  /\ l = "acting" => a > 0
  /\ l = "abort" => r.status = "RUNNING" /\ IsFrontier(r, i)
  /\ l = "rollback" =>
       r.status = "COMPENSATING" /\ i > 0 /\ IsFailedAt(r, i)
  /\ l \in Undoing =>
       /\ r.status = "COMPENSATING"
       /\ IsFailedAt(r, n)
       /\ i <= n
       /\ \A j \in (i + 1)..n : j \in Compensable => Settled(r.steps[j])
  /\ l \in {"compensate", "undoing"} =>
       i \in Compensable /\ r.steps[i] = "COMPENSATING"

Ready(w) ==
  /\ ReadyAt(Stage(w), exec[w], cur[w], failedAt[w], attempt[w])
  /\ pc[w] \in {"renew", "save", "notify"} => Unattempted(exec[w])

\* Each call's copy is what the point it stands at needs, and so is the copy a
\* later call would start from.
CallsAreReady ==
  /\ Unattempted(store)
  /\ \A w \in Workers : InHand(w) /\ Ready(w)

-------------------------------------------------------------------------------
(***************************************************************************)
(* The lease (lock.go:12-25, execute.go:141-155 and 582-603).              *)
(***************************************************************************)

\* The call has its lease and has not yet come to its Release.
Driving(w) == pc[w] \notin {"idle", "create", "acquire", "release"}

\* Until a lease has run out under a call in progress, leases protect.
Leased == HasLocker /\ ~lapsed

\* Two workers are never both driving the execution, unless a lease has run
\* out under the call that held it (lock.go:12-17, execute.go:145-151).
MutualExclusion ==
  Leased => \A v, w \in Workers : Driving(v) /\ Driving(w) => v = w

\* Why: a driving call holds the lease.
DrivesUnderLease ==
  Leased => \A w \in Workers : Driving(w) => lease = w

\* A call never leaves with its lease: a worker named by the lease is in the
\* middle of a call that will release it, on every path out.
NoLeaseLeftBehind ==
  \A w \in Workers : lease = w => Driving(w) \/ At(w, "release")

\* What a call reports is what the store holds when it returns: under leases
\* that protect no worker comes in between the last Save and the Release.
ToldIsDurable ==
  Leased => \A w \in Workers : At(w, "release") =>
    /\ result[w] = "ok" => store.status = "COMPLETED"
    /\ result[w] = "failed" =>
         store.status \in {"FAILED", "COMPENSATED", "COMPENSATION_FAILED"}

-------------------------------------------------------------------------------
(***************************************************************************)
(* The record, the world and the observers, when calls do not overlap.     *)
(***************************************************************************)

\* A step is recorded RUNNING before its Action can take effect, SUCCEEDED
\* only if it did, COMPENSATED only if the effect is gone (execute.go:223-245
\* and 510-529).
RecordMatchesWorld ==
  \A i \in Steps :
    /\ world[i] # "none" => store.steps[i] # "PENDING"
    /\ world[i] = "undone" => InCompensation(store.steps[i])
    /\ store.steps[i] = "SUCCEEDED" => world[i] = "done"
    /\ store.steps[i] = "COMPENSATED" => world[i] # "done"

\* A terminal event is only published for the status that stands in the store,
\* even when the call that reached it failed or was cut short afterwards
\* (execute.go:563-566).
EventIsFinal == announced \subseteq {store.status}

\* With steps that recognise a repeated OperationID, a saga that has settled
\* has left nothing behind: COMPLETED means every effect is in place, any
\* other status that only those are which nothing could undo
\* (README.md:301-315).
AllOrNothing ==
  IsTerminal(store.status) =>
    \A i \in Steps :
      IF store.status = "COMPLETED"
      THEN world[i] = "done"
      ELSE world[i] = "done" =>
             \/ store.steps[i] = "COMPENSATION_FAILED"
             \/ store.steps[i] = "SUCCEEDED" /\ i \notin Compensable

\* A recovery under RecoverSkipInFlight calls nothing whose outcome is unknown:
\* it never begins a second round of attempts at an Action nor calls a
\* Compensate a second time, whatever the calls before it were, those under
\* RecoverAutomatically included.  Nor does Execute (recovery.go:29-35).
NothingGuessed ==
  [][\A w \in Workers : role[w] # "RecoverAutomatically" =>
       /\ At(w, "attempt") /\ pc'[w] = "acting" /\ attempt[w] = 0
            => runs[cur[w]] = 0
       /\ At(w, "compensate") /\ pc'[w] = "undoing" => comps[cur[w]] = 0]_vars

\* The saga has turned round, or given up, with a step still under way.
Abandoned(r) ==
  r.status # "RUNNING" /\ \E i \in Steps : r.steps[i] = "RUNNING"

\* A step whose outcome is unknown, so that neither its success nor its failure
\* is recorded and nobody will undo it, is only left behind by a call whose
\* context has ended (execute.go:204-217).
AbandonedByContext ==
  [][Abandoned(store') /\ ~Abandoned(store) =>
       \E w \in Workers : At(w, "save") /\ Ended(w)]_vars

\* Recovery brings every execution that was ever saved to a terminal status
\* (recovery.go:112-117).
EventuallySettled == IsIncomplete(store) ~> IsTerminal(store.status)

\* A call that was entered comes back (or dies with its process).
CallReturns == \A w \in Workers : ~At(w, "idle") ~> At(w, "idle")

\* The store goes through the saga's lawful transitions, one at a time and
\* never back, whatever becomes of the calls that write it.
Contract ==
  INSTANCE SagaContract WITH status <- store.status, steps <- store.steps
KeepsContract == Contract!Spec

-------------------------------------------------------------------------------
(***************************************************************************)
(* Statements of the documentation that the code does not keep: see the    *)
(* README for what refutes them.                                           *)
(***************************************************************************)

\* "a step already compensated is never compensated again" (README.md:155-156).
NeverRecompensates ==
  [][\A w \in Workers :
       At(w, "compensate") /\ pc'[w] = "undoing"
       => store.steps[cur[w]] # "COMPENSATED"]_vars

\* "(or ctx is cancelled partway through...), every already-succeeded step is
\* compensated in reverse order before Execute returns" (execute.go:21-24): said
\* here of the calls that have come as far as abort.
CancelledCallCompensates ==
  \A w \in Workers :
    At(w, "release") /\ ctx[w] = "cancelled" /\ RollingBack(exec[w])
    => \A i \in Compensable : store.steps[i] # "SUCCEEDED"

\* "The step that failed is never compensated: its Action never completed, so
\* there is nothing to undo" (execute.go:25-27).
FailedStepHadNoEffect ==
  \A i \in Steps : store.steps[i] = "FAILED" => world[i] # "done"

===============================================================================
