------------------------------ MODULE SagaStatus ------------------------------
(***************************************************************************)
(* The two state machines of the library: the Status of an execution and   *)
(* the StepStatus of one of its steps, with the tables of legal            *)
(* transitions (status.go, step_status.go, transitions.go).  The values    *)
(* are the strings the code persists.                                      *)
(***************************************************************************)

Status ==
  {"PENDING", "RUNNING", "COMPLETED", "COMPENSATING", "COMPENSATED",
   "FAILED", "COMPENSATION_FAILED"}

Terminal == {"COMPLETED", "COMPENSATED", "FAILED", "COMPENSATION_FAILED"}

IsTerminal(s) == s \in Terminal

StatusTransitions ==
  ({"PENDING"} \X {"RUNNING"})
    \cup ({"RUNNING"} \X {"COMPLETED", "COMPENSATING", "FAILED"})
    \cup ({"COMPENSATING"} \X {"COMPENSATED", "COMPENSATION_FAILED"})

CanTransitionStatus(from, to) == <<from, to>> \in StatusTransitions

StepStatus ==
  {"PENDING", "RUNNING", "SUCCEEDED", "FAILED", "COMPENSATING",
   "COMPENSATED", "COMPENSATION_FAILED"}

StepStatusTransitions ==
  ({"PENDING"} \X {"RUNNING"})
    \cup ({"RUNNING"} \X {"SUCCEEDED", "FAILED"})
    \cup ({"SUCCEEDED"} \X {"COMPENSATING"})
    \cup ({"COMPENSATING"} \X {"COMPENSATED", "COMPENSATION_FAILED"})

CanTransitionStepStatus(from, to) == <<from, to>> \in StepStatusTransitions

===============================================================================
