---------------------------- MODULE SagaExecution -----------------------------
(***************************************************************************)
(* The durable record of one execution (execution.go, step_execution.go)   *)
(* and the questions the engine asks of it when it decides where to go on  *)
(* (execute.go, recovery.go).  A record keeps the saga's Status, the        *)
(* StepStatus of every step and the Attempts counter of every step; names, *)
(* timestamps, payloads and error texts do not steer the engine and are    *)
(* left out.  Steps are numbered 1..NSteps in definition order.            *)
(***************************************************************************)
EXTENDS Naturals, SagaStatus

CONSTANTS NSteps,       \* number of steps of the saga definition
          Compensable   \* the steps whose Compensate is not nil

Steps == 1..NSteps

ASSUME StepsAssumption ==
  /\ NSteps \in Nat
  /\ Compensable \subseteq Steps

Records ==
  [status : Status \cup {"ABSENT"}, steps : [Steps -> StepStatus],
   attempts : [Steps -> Nat]]

\* No record has been saved under the execution's ID.
Absent ==
  [status |-> "ABSENT", steps |-> [i \in Steps |-> "PENDING"],
   attempts |-> [i \in Steps |-> 0]]

\* What Execute builds before its first Save.
NewExecution ==
  [status |-> "PENDING", steps |-> [i \in Steps |-> "PENDING"],
   attempts |-> [i \in Steps |-> 0]]

\* The record after a transition of the execution, or of step i.
MoveStatus(r, to) == [r EXCEPT !.status = to]
MoveStep(r, i, to) == [r EXCEPT !.steps[i] = to]

\* ListIncomplete returns exactly these.
IsIncomplete(r) == r # Absent /\ ~IsTerminal(r.status)

\* The step reached SUCCEEDED at some time, and may have gone on from there
\* into compensation.
Reached(s) ==
  s \in {"SUCCEEDED", "COMPENSATING", "COMPENSATED", "COMPENSATION_FAILED"}

\* Step i is the first one recorded FAILED.
IsFirstFailed(r, i) ==
  /\ r.steps[i] = "FAILED"
  /\ \A j \in 1..(i - 1) : r.steps[j] # "FAILED"

\* Forward execution goes on at step i: everything before it is SUCCEEDED.
IsFrontier(r, i) ==
  /\ \A j \in 1..(i - 1) : r.steps[j] = "SUCCEEDED"
  /\ i \in Steps => r.steps[i] # "SUCCEEDED"

\* Mutant: a step whose compensation was interrupted does not count.
IsFailedAtSucceeded(r, n) ==
  /\ n > 0 => r.steps[n] = "SUCCEEDED"
  /\ \A j \in (n + 1)..NSteps : r.steps[j] # "SUCCEEDED"

\* Steps 1..n are the ones an interrupted compensation has to look at.
IsFailedAt(r, n) ==
  /\ n > 0 => Reached(r.steps[n])
  /\ \A j \in (n + 1)..NSteps : ~Reached(r.steps[j])

AnySucceeded(r, n) == \E i \in 1..n : r.steps[i] = "SUCCEEDED"

\* Mutant: an interrupted compensation is not taken up again.
UndoableSucceeded(r, n) ==
  {i \in (1..n) \cap Compensable : r.steps[i] = "SUCCEEDED"}

\* The steps among 1..n that still have something to compensate.
Undoable(r, n) ==
  {i \in (1..n) \cap Compensable :
     r.steps[i] \in {"SUCCEEDED", "COMPENSATING"}}

\* Mutant: the last of the steps is not looked at.
RollbackOutcomeShort(r, n) ==
  IF \E i \in 1..n : i < n /\ r.steps[i] = "COMPENSATION_FAILED"
  THEN "COMPENSATION_FAILED" ELSE "COMPENSATED"

\* The status a finished compensation of steps 1..n settles on.
RollbackOutcome(r, n) ==
  IF \E i \in 1..n : r.steps[i] = "COMPENSATION_FAILED"
  THEN "COMPENSATION_FAILED" ELSE "COMPENSATED"

\* Mutant: a compensation under way does not count.
HasInFlightAction(r) == \E i \in Steps : r.steps[i] = "RUNNING"

HasInFlightStep(r) ==
  \E i \in Steps : r.steps[i] \in {"RUNNING", "COMPENSATING"}

===============================================================================
