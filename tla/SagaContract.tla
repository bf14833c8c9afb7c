----------------------------- MODULE SagaContract -----------------------------
(***************************************************************************)
(* What a reader of the store may rely on: the saga seen as nothing but    *)
(* its durable statuses, changed one lawful transition at a time.  There   *)
(* are no calls, leases, crashes or retries here; SagaEngine implements    *)
(* this through all of them as long as calls do not overlap.               *)
(***************************************************************************)
EXTENDS Naturals, SagaStatus

CONSTANTS NSteps, Compensable

VARIABLES status, steps

contractVars == <<status, steps>>

Steps == 1..NSteps

Succeeded(i) == steps[i] = "SUCCEEDED"
Settled(i) == steps[i] \in {"COMPENSATED", "COMPENSATION_FAILED"}

Init ==
  /\ status = "ABSENT"
  /\ steps = [i \in Steps |-> "PENDING"]

Become(s) == status' = s /\ UNCHANGED steps
Move(i, s) == steps' = [steps EXCEPT ![i] = s] /\ UNCHANGED status

Create == status = "ABSENT" /\ Become("PENDING")
Begin == status = "PENDING" /\ Become("RUNNING")

\* Steps run in order, each after the success of the one before.
Start(i) ==
  /\ status = "RUNNING" /\ steps[i] = "PENDING"
  /\ \A j \in 1..(i - 1) : Succeeded(j)
  /\ Move(i, "RUNNING")

Conclude(i) ==
  /\ status = "RUNNING" /\ steps[i] = "RUNNING"
  /\ \E s \in {"SUCCEEDED", "FAILED"} : Move(i, s)

Complete ==
  /\ status = "RUNNING" /\ \A i \in Steps : Succeeded(i)
  /\ Become("COMPLETED")

\* The saga gives up: for good if there is nothing to undo.
Fail ==
  /\ status = "RUNNING" /\ Steps # {} /\ ~\E i \in Steps : Succeeded(i)
  /\ Become("FAILED")

TurnBack ==
  /\ status = "RUNNING"
  /\ \E i \in Steps : Succeeded(i)
  /\ \E i \in Steps : ~Succeeded(i)
  /\ Become("COMPENSATING")

\* Compensation goes backwards, and no step is compensated twice.
Undo(i) ==
  /\ status = "COMPENSATING" /\ i \in Compensable /\ Succeeded(i)
  /\ \A j \in Compensable : j > i =>
       steps[j] \in {"PENDING", "RUNNING", "FAILED"} \/ Settled(j)
  /\ Move(i, "COMPENSATING")

ConcludeUndo(i) ==
  /\ status = "COMPENSATING" /\ steps[i] = "COMPENSATING"
  /\ \E s \in {"COMPENSATED", "COMPENSATION_FAILED"} : Move(i, s)

Settle ==
  /\ status = "COMPENSATING"
  /\ \A i \in Compensable : steps[i] # "COMPENSATING" /\ ~Succeeded(i)
  /\ Become(IF \E i \in Steps : steps[i] = "COMPENSATION_FAILED"
            THEN "COMPENSATION_FAILED" ELSE "COMPENSATED")

Next ==
  \/ Create \/ Begin \/ Complete \/ Fail \/ TurnBack \/ Settle
  \/ \E i \in Steps : Start(i) \/ Conclude(i) \/ Undo(i) \/ ConcludeUndo(i)

Spec == Init /\ [][Next]_contractVars

===============================================================================
