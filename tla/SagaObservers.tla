---------------------------- MODULE SagaObservers -----------------------------
(***************************************************************************)
(* What the observers of an execution hear (events.go, execute.go:605-708).*)
(*                                                                         *)
(* The audiences are the publishers of a MultiPublisher, in their order,   *)
(* and the Metrics.  Each is called for every transition that has an       *)
(* event, right after the transition has been saved.  A publisher's panic  *)
(* ends the round of the publishers and is recovered.  The Logger is       *)
(* called between the two: it hears what the first publisher hears, and    *)
(* like the Metrics it can panic (the engine's PanicInObserver).           *)
(*                                                                         *)
(* heard and deaf are history variables over SagaEngine: ObservedNext is   *)
(* its next-state relation, each step with what it makes the audiences     *)
(* hear.                                                                   *)
(***************************************************************************)
EXTENDS SagaProperties, Sequences, FiniteSets

CONSTANTS
  NPublishers,   \* length of the MultiPublisher
  MaxDeaf        \* bound: rounds that a publisher's panic cuts short

ASSUME ObserverAssumption == NPublishers \in Nat \ {0} /\ MaxDeaf \in Nat

VARIABLES
  heard,   \* the events each audience was called with, in order
  deaf     \* rounds cut short so far

observed == <<vars, heard, deaf>>

Publishers == 1..NPublishers
Metrics == NPublishers + 1
Audiences == 1..Metrics

-------------------------------------------------------------------------------
(***************************************************************************)
(* The vocabulary.  An event of the execution itself has step 0; NoEvent   *)
(* stands for a transition that has none.                                  *)
(***************************************************************************)
Event(type, i) == [type |-> type, step |-> i]
NoEvent == Event("", 0)

SagaEventType ==
  [RUNNING |-> "SAGA_STARTED", COMPLETED |-> "SAGA_COMPLETED",
   FAILED |-> "SAGA_FAILED", COMPENSATED |-> "SAGA_FAILED",
   COMPENSATION_FAILED |-> "SAGA_FAILED"]

\* Mutant: a compensation that failed is announced like one that did not.
StepEventTypeBlind ==
  [RUNNING |-> "STEP_STARTED", SUCCEEDED |-> "STEP_COMPLETED",
   FAILED |-> "STEP_FAILED", COMPENSATING |-> "COMPENSATION_STARTED",
   COMPENSATED |-> "COMPENSATION_COMPLETED",
   COMPENSATION_FAILED |-> "COMPENSATION_COMPLETED"]

StepEventType ==
  [RUNNING |-> "STEP_STARTED", SUCCEEDED |-> "STEP_COMPLETED",
   FAILED |-> "STEP_FAILED", COMPENSATING |-> "COMPENSATION_STARTED",
   COMPENSATED |-> "COMPENSATION_COMPLETED",
   COMPENSATION_FAILED |-> "COMPENSATION_FAILED"]

SagaEvent(s) ==
  IF s \in DOMAIN SagaEventType THEN Event(SagaEventType[s], 0) ELSE NoEvent

\* The step whose transition the call is persisting, or 0 for one of the
\* execution, told from the point where the call goes on.  (A step that
\* succeeded or was settled is no longer the step in hand.)
Subject(w) ==
  CASE next[w] \in {"attempt", "abort", "compensate"} -> cur[w]
    [] next[w] = "forward" -> cur[w] - 1
    [] next[w] = "undo" -> cur[w] + 1
    [] OTHER -> 0

\* Mutant: a started compensation is not an event.
EventAtLate(w) ==
  IF Subject(w) = 0 THEN SagaEvent(exec[w].status)
  ELSE IF exec[w].steps[Subject(w)] = "COMPENSATING" THEN NoEvent
  ELSE Event(StepEventType[exec[w].steps[Subject(w)]], Subject(w))

\* The event of the transition that w has just saved.
EventAt(w) ==
  IF Subject(w) = 0 THEN SagaEvent(exec[w].status)
  ELSE Event(StepEventType[exec[w].steps[Subject(w)]], Subject(w))

-------------------------------------------------------------------------------
(***************************************************************************)
(* Delivery.                                                               *)
(***************************************************************************)
Hear(e, A) == heard' = [a \in Audiences |->
                          IF a \in A THEN Append(heard[a], e) ELSE heard[a]]

\* Mutant: the publishers are gone through from the last to the first.
PublishedBackwards(k) == k..NPublishers

\* The publishers that are called when the k-th of them panics.
Published(k) == 1..k

\* publish: every publisher, or those up to one that panics.
Round(e, others) ==
  \/ Hear(e, Published(NPublishers) \cup others) /\ UNCHANGED deaf
  \/ /\ deaf < MaxDeaf
     /\ \E k \in 1..(NPublishers - 1) : Hear(e, Published(k) \cup others)
     /\ deaf' = deaf + 1

Silent == UNCHANGED <<heard, deaf>>

\* What a step of w makes the audiences hear.  Only a step that leaves
\* "notify" makes them hear anything; a crash there makes nobody hear, and a
\* panic of the Logger keeps the Metrics from hearing.
Announce(w) ==
  IF At(w, "notify") /\ EventAt(w) # NoEvent
  THEN CASE pc'[w] = "notify" -> Silent
         [] pc'[w] = "idle" -> Silent
         [] pc'[w] = "release" /\ result'[w] = "userPanic" ->
              Round(EventAt(w), {}) \/ Round(EventAt(w), {Metrics})
         [] OTHER -> Round(EventAt(w), {Metrics})
  ELSE Silent

ObservedInit == Init /\ heard = [a \in Audiences |-> <<>>] /\ deaf = 0

ObservedNext ==
  \/ \E w \in Workers :
       /\ \/ Execute(w) \/ Recover(w) \/ Engine(w) \/ Downstream(w)
          \/ Environment(w)
       /\ Announce(w)
  \/ (Lapse \/ Rest) /\ Silent

ObservedSpec == ObservedInit /\ [][ObservedNext]_observed

-------------------------------------------------------------------------------
(***************************************************************************)
(* Properties, for one worker that crashes and recovers.                   *)
(***************************************************************************)
Said(a) == {heard[a][n] : n \in 1..Len(heard[a])}

\* The events of the transitions that lie behind a record.
History(r) ==
  LET Of(type, S) == {Event(type, i) : i \in S}
      In(S) == {i \in Steps : r.steps[i] \in S}
  IN (IF r.status \in {"ABSENT", "PENDING"} THEN {} ELSE Of("SAGA_STARTED", {0}))
       \cup (IF r.status = "COMPLETED" THEN Of("SAGA_COMPLETED", {0}) ELSE {})
       \cup (IF r.status \in {"FAILED", "COMPENSATED", "COMPENSATION_FAILED"}
             THEN Of("SAGA_FAILED", {0}) ELSE {})
       \cup Of("STEP_STARTED", {i \in Steps : r.steps[i] # "PENDING"})
       \cup Of("STEP_COMPLETED", {i \in Steps : Reached(r.steps[i])})
       \cup Of("STEP_FAILED", In({"FAILED"}))
       \cup Of("COMPENSATION_STARTED",
               {i \in Steps : InCompensation(r.steps[i])})
       \cup Of("COMPENSATION_COMPLETED", In({"COMPENSATED"}))
       \cup Of("COMPENSATION_FAILED", In({"COMPENSATION_FAILED"}))

\* Whatever crashes, fails or panics afterwards, an event that anyone has heard
\* is part of what the store says (events.go:39-44: "a publisher can safely
\* treat an Event as confirmation that its status change is final").
EventsAreFinal ==
  LET past == History(store)
  IN \A a \in Audiences : Said(a) \subseteq past

\* An event's place in the course of a saga: forwards through the steps,
\* backwards through the compensations, the end last.
Place(e) ==
  CASE e.type = "SAGA_STARTED" -> 0
    [] e.type = "STEP_STARTED" -> 2 * e.step
    [] e.type \in {"STEP_COMPLETED", "STEP_FAILED"} -> 2 * e.step + 1
    [] e.type = "COMPENSATION_STARTED" -> 4 * NSteps + 2 - 2 * e.step
    [] e.type \in {"COMPENSATION_COMPLETED", "COMPENSATION_FAILED"} ->
         4 * NSteps + 3 - 2 * e.step
    [] OTHER -> 4 * NSteps + 4

\* Nobody hears of a transition twice, or of two in the wrong order, however
\* often the execution is interrupted and recovered (execute.go:551-580).
ToldInOrder ==
  \A a \in Audiences : \A n \in 1..(Len(heard[a]) - 1) :
    Place(heard[a][n]) < Place(heard[a][n + 1])

\* A broken publisher only costs those behind it, and broken Metrics only
\* themselves: the first publisher hears all that anybody does, an earlier one
\* all that a later one does (events.go:58-64 and execute.go:646-663).
EarlierHearsMore ==
  \A a, b \in Audiences :
    a < b /\ (a = 1 \/ b # Metrics) => Said(b) \subseteq Said(a)

\* The event that is still to come.
Due(w) == IF At(w, "notify") THEN {EventAt(w)} ELSE {}

\* An event is lost to an audience only by a fault: a crash, an error of the
\* store or a panic between the save and the call of that audience, each of
\* which costs one (execute.go:559-580, 657-663).
LossesAreFaults ==
  LET told == History(store) \ UNION {Due(w) : w \in Workers}
  IN \A a \in Audiences :
    Cardinality(told \ Said(a))
      <= faults + (IF a \in 2..NPublishers THEN deaf ELSE 0)

===============================================================================
