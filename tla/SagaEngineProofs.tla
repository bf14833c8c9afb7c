--------------------------- MODULE SagaEngineProofs ---------------------------
(***************************************************************************)
(* Proofs about SagaEngine for any set of workers, any saga and any        *)
(* environment: its types and the lease.                                   *)
(***************************************************************************)
EXTENDS SagaProperties, TLAPS

-------------------------------------------------------------------------------
(***************************************************************************)
(* Records and how a transition changes one.                               *)
(***************************************************************************)

\* A change of status leaves the steps alone (execution.go:92-107).
LEMMA StatusUpdate ==
  ASSUME NEW r \in Records, NEW s \in Status
  PROVE  /\ [r EXCEPT !.status = s] \in Records
         /\ [r EXCEPT !.status = s].status = s
         /\ [r EXCEPT !.status = s].steps = r.steps
         /\ [r EXCEPT !.status = s].attempts = r.attempts
BY DEF Records

\* A change of one step leaves the rest alone (step_execution.go:52-72).
LEMMA StepUpdate ==
  ASSUME NEW r \in Records, NEW i \in Steps, NEW s \in StepStatus
  PROVE  /\ [r EXCEPT !.steps[i] = s] \in Records
         /\ [r EXCEPT !.steps[i] = s].status = r.status
         /\ [r EXCEPT !.steps[i] = s].steps = [r.steps EXCEPT ![i] = s]
         /\ [r EXCEPT !.steps[i] = s].attempts = r.attempts
BY DEF Records

\* An attempt is counted in one step (execute.go:291).
LEMMA AttemptsUpdate ==
  ASSUME NEW r \in Records, NEW i \in Steps
  PROVE  /\ [r EXCEPT !.attempts[i] = @ + 1] \in Records
         /\ [r EXCEPT !.attempts[i] = @ + 1].status = r.status
         /\ [r EXCEPT !.attempts[i] = @ + 1].steps = r.steps
         /\ [r EXCEPT !.attempts[i] = @ + 1].attempts
              = [r.attempts EXCEPT ![i] = @ + 1]
BY DEF Records

\* The two records a call can begin from without a store.
LEMMA InitialRecords ==
  Absent \in Records /\ NewExecution \in Records
BY DEF Absent, NewExecution, Records, Status, StepStatus

-------------------------------------------------------------------------------
(***************************************************************************)
(* Calls and how a step of one worker leaves the others alone.             *)
(***************************************************************************)
USE StepsAssumption, LeaseAssumption, EngineAssumption DEF Steps

\* The call of v is where it was, with the same locals.
Same(v) ==
  /\ pc'[v] = pc[v] /\ next'[v] = next[v] /\ exec'[v] = exec[v]
  /\ cur'[v] = cur[v] /\ failedAt'[v] = failedAt[v]
  /\ attempt'[v] = attempt[v] /\ ctx'[v] = ctx[v] /\ role'[v] = role[v]
  /\ result'[v] = result[v]

Frame(w) == \A v \in Workers \ {w} : Same(v)

\* The inductive invariant of the types.
TypeInv == TypeOK /\ \A w \in Workers : InHand(w)

\* What a transition does to the variables it changes: it is either refused,
\* and the call ends, or r is to be saved and the call goes on at l.
Moved(w, r, l) ==
  /\ pc' \in [Workers -> Labels] /\ next' \in [Workers -> Labels]
  /\ exec' \in [Workers -> Records] /\ result' \in [Workers -> Results]
  /\ \A v \in Workers \ {w} :
       /\ pc'[v] = pc[v] /\ next'[v] = next[v] /\ exec'[v] = exec[v]
       /\ result'[v] = result[v]
  /\ \/ /\ pc'[w] \in {"renew", "save"} /\ next'[w] = l
        /\ exec'[w] = r /\ result'[w] = result[w]
     \/ /\ pc'[w] = "release" /\ exec'[w] = exec[w]

\* Persist hands the new record to the renew, save, notify sequence
\* (execute.go:563).
LEMMA PersistMoves ==
  ASSUME TypeOK, NEW w \in Workers, NEW r \in Records, NEW l \in Labels,
         Persist(w, r, l)
  PROVE  Moved(w, r, l)
BY DEF TypeOK, ControlTypes, HandTypes, Persist, Goto, Moved, Labels

\* A refused transition ends the call (execute.go:560-562).
LEMMA RefusalMoves ==
  ASSUME TypeOK, NEW w \in Workers, NEW r, NEW l,
         Finish(w, "enginePanic"), UNCHANGED <<exec, next>>
  PROVE  Moved(w, r, l)
BY DEF TypeOK, ControlTypes, HandTypes, Finish, Goto, Moved, Labels, Results

\* transitionStep (execute.go:571-580).
LEMMA StepMoves ==
  ASSUME TypeOK, NEW w \in Workers, NEW i \in Steps, NEW to \in StepStatus,
         NEW l \in Labels, TransitionStep(w, i, to, l)
  PROVE  Moved(w, [exec[w] EXCEPT !.steps[i] = to], l)
<1>1. [exec[w] EXCEPT !.steps[i] = to] \in Records
  BY StepUpdate DEF TypeOK, HandTypes
<1> QED
  BY <1>1, PersistMoves, RefusalMoves DEF TransitionStep, MoveStep

\* transitionExec (execute.go:559-568).
LEMMA ExecMoves ==
  ASSUME TypeOK, NEW w \in Workers, NEW to \in Status,
         NEW l \in Labels, TransitionExec(w, to, l)
  PROVE  Moved(w, [exec[w] EXCEPT !.status = to], l)
<1>1. [exec[w] EXCEPT !.status = to] \in Records
  BY StatusUpdate DEF TypeOK, HandTypes
<1> QED
  BY <1>1, PersistMoves, RefusalMoves DEF TransitionExec, MoveStatus

-------------------------------------------------------------------------------
(***************************************************************************)
(* Types: every step of a worker keeps them, keeps its own hand within     *)
(* bounds, and leaves the other workers' calls alone.                      *)
(***************************************************************************)
\* Execute builds the record (execute.go:80-95).
LEMMA ExecuteTypes ==
  ASSUME TypeInv, NEW w \in Workers, Execute(w)
  PROVE  TypeOK' /\ InHand(w)' /\ Frame(w)
<1> USE DEF Execute, Goto, outside, ghosts, locals
<1>1. StoreTypes'
  BY DEF TypeInv, TypeOK, StoreTypes
<1>2. ControlTypes'
  BY DEF TypeInv, TypeOK, ControlTypes, Labels
<1>3. HandTypes'
  BY InitialRecords DEF TypeInv, TypeOK, ControlTypes, HandTypes, InHand,
     Continuations, Stage, At, Stepping
<1>4. GhostTypes'
  BY DEF TypeInv, TypeOK, GhostTypes
<1>5. Frame(w)
  BY DEF Frame, Same
<1>6. InHand(w)'
  BY <1>2, <1>3 DEF TypeInv, TypeOK, ControlTypes, InHand, Stage, At, Stepping
<1> QED
  BY <1>1, <1>2, <1>3, <1>4, <1>5, <1>6 DEF TypeOK

\* Execute's first Save (execute.go:100-104).
LEMMA SaveInitialTypes ==
  ASSUME TypeInv, NEW w \in Workers, SaveInitial(w)
  PROVE  TypeOK' /\ InHand(w)' /\ Frame(w)
<1> USE DEF SaveInitial, Goto, ghosts, locals, WriteFails, Fault, Put, Leave,
   Forget
<1>1. StoreTypes'
  BY DEF TypeInv, TypeOK, StoreTypes, HandTypes
<1>2. ControlTypes'
  BY DEF TypeInv, TypeOK, ControlTypes, Results, Labels
<1>3. HandTypes'
  BY InitialRecords DEF TypeInv, TypeOK, HandTypes
<1>4. GhostTypes'
  BY DEF TypeInv, TypeOK, GhostTypes
<1>5. Frame(w)
  BY DEF Frame, Same, TypeInv, TypeOK, ControlTypes, HandTypes
<1>6. InHand(w)'
  BY <1>2, <1>3 DEF TypeInv, TypeOK, ControlTypes, InHand, Stage, At, Stepping
<1> QED
  BY <1>1, <1>2, <1>3, <1>4, <1>5, <1>6 DEF TypeOK

\* Recover lists and filters (recovery.go:124-155).
LEMMA RecoverTypes ==
  ASSUME TypeInv, NEW w \in Workers, Recover(w)
  PROVE  TypeOK' /\ InHand(w)' /\ Frame(w)
<1> USE DEF Recover, Goto, outside, ghosts, locals, Fault, StoreTypes
<1>1. StoreTypes'
  BY DEF TypeInv, TypeOK, StoreTypes
<1>2. ControlTypes'
  BY DEF TypeInv, TypeOK, ControlTypes, Labels
<1>3. HandTypes'
  BY DEF TypeInv, TypeOK, HandTypes
<1>4. GhostTypes'
  BY DEF TypeInv, TypeOK, GhostTypes
<1>5. Frame(w)
  BY DEF Frame, Same, TypeInv, TypeOK, ControlTypes, HandTypes
<1>6. InHand(w)'
  BY <1>2, <1>3 DEF TypeInv, TypeOK, ControlTypes, InHand, Stage, At, Stepping
<1> QED
  BY <1>1, <1>2, <1>3, <1>4, <1>5, <1>6 DEF TypeOK

\* resume takes the lease (execute.go:140-155).
LEMMA AcquireLeaseTypes ==
  ASSUME TypeInv, NEW w \in Workers, AcquireLease(w)
  PROVE  TypeOK' /\ InHand(w)' /\ Frame(w)
<1> USE DEF AcquireLease, Goto, ghosts, locals, Fault, Take, Leave, Forget,
   Leases
<1>1. StoreTypes'
  BY DEF TypeInv, TypeOK, StoreTypes
<1>2. ControlTypes'
  BY DEF TypeInv, TypeOK, ControlTypes, Results, Labels
<1>3. HandTypes'
  BY InitialRecords DEF TypeInv, TypeOK, HandTypes
<1>4. GhostTypes'
  BY DEF TypeInv, TypeOK, GhostTypes
<1>5. Frame(w)
  BY DEF Frame, Same, TypeInv, TypeOK, ControlTypes, HandTypes
<1>6. InHand(w)'
  BY <1>2, <1>3 DEF TypeInv, TypeOK, ControlTypes, InHand, Stage, At, Stepping
<1> QED
  BY <1>1, <1>2, <1>3, <1>4, <1>5, <1>6 DEF TypeOK

\* resume starts a PENDING execution (execute.go:173-177).
LEMMA BeginRunTypes ==
  ASSUME TypeInv, NEW w \in Workers, BeginRun(w)
  PROVE  TypeOK' /\ InHand(w)' /\ Frame(w)
<1> USE DEF BeginRun, outside, ghosts
<1>1. Moved(w, [exec[w] EXCEPT !.status = "RUNNING"], "resume")
  BY ExecMoves DEF TypeInv, Status, StepStatus, Labels
<1> HIDE DEF BeginRun
<1>2. StoreTypes' /\ GhostTypes'
  BY DEF BeginRun, TypeInv, TypeOK, StoreTypes, GhostTypes
<1>3. ControlTypes'
  BY <1>1 DEF BeginRun, TypeInv, TypeOK, ControlTypes, Moved, Goto, Labels
<1>4. HandTypes'
  <2>1. exec' \in [Workers -> Records]
    BY <1>1 DEF TypeInv, TypeOK, HandTypes, Moved
  <2>2. cur' \in [Workers -> 0..(NSteps + 1)]
        /\ attempt' \in [Workers -> 0..MaxAttempts]
    BY <1>1 DEF BeginRun, TypeInv, TypeOK, HandTypes, InHand, Stage, At
  <2> QED
    BY <2>1, <2>2 DEF BeginRun, TypeInv, TypeOK, HandTypes
<1>5. Frame(w)
  BY <1>1 DEF BeginRun, TypeInv, TypeOK, ControlTypes, HandTypes, Moved,
     Frame, Same, Goto
<1>6. InHand(w)'
  BY <1>1, <1>3, <1>4 DEF BeginRun, TypeInv, TypeOK, ControlTypes, HandTypes,
     Moved, InHand, Continuations, Stage, At, Stepping, Goto
<1> QED
  BY <1>2, <1>3, <1>4, <1>5, <1>6 DEF TypeOK

\* resumeRunning finds a FAILED step (execute.go:196-200).
LEMMA ResumeFailedStepTypes ==
  ASSUME TypeInv, NEW w \in Workers, ResumeFailedStep(w)
  PROVE  TypeOK' /\ InHand(w)' /\ Frame(w)
<1> USE DEF ResumeFailedStep, Goto, outside, ghosts, locals
<1>1. StoreTypes'
  BY DEF TypeInv, TypeOK, StoreTypes
<1>2. ControlTypes'
  BY DEF TypeInv, TypeOK, ControlTypes, Labels
<1>3. HandTypes'
  BY DEF TypeInv, TypeOK, HandTypes
<1>4. GhostTypes'
  BY DEF TypeInv, TypeOK, GhostTypes
<1>5. Frame(w)
  BY DEF Frame, Same
<1>6. InHand(w)'
  BY <1>2, <1>3 DEF TypeInv, TypeOK, ControlTypes, HandTypes, InHand,
     Continuations, Stage, At, Stepping
<1> QED
  BY <1>1, <1>2, <1>3, <1>4, <1>5, <1>6 DEF TypeOK

\* resumeRunning looks for where to go on (execute.go:203-210).
LEMMA ResumeForwardTypes ==
  ASSUME TypeInv, NEW w \in Workers, ResumeForward(w)
  PROVE  TypeOK' /\ InHand(w)' /\ Frame(w)
<1> USE DEF ResumeForward, Goto, outside, ghosts, locals
<1>1. StoreTypes'
  BY DEF TypeInv, TypeOK, StoreTypes
<1>2. ControlTypes'
  BY DEF TypeInv, TypeOK, ControlTypes, Labels
<1>3. HandTypes'
  BY DEF TypeInv, TypeOK, HandTypes
<1>4. GhostTypes'
  BY DEF TypeInv, TypeOK, GhostTypes
<1>5. Frame(w)
  BY DEF Frame, Same
<1>6. InHand(w)'
  BY <1>2, <1>3 DEF TypeInv, TypeOK, ControlTypes, InHand, Stage, At, Stepping
<1> QED
  BY <1>1, <1>2, <1>3, <1>4, <1>5, <1>6 DEF TypeOK

\* resumeCompensating rebuilds failedAt (execute.go:421-433).
LEMMA ResumeCompensatingTypes ==
  ASSUME TypeInv, NEW w \in Workers, ResumeCompensating(w)
  PROVE  TypeOK' /\ InHand(w)' /\ Frame(w)
<1> USE DEF ResumeCompensating, Goto, outside, ghosts, locals
<1>1. StoreTypes'
  BY DEF TypeInv, TypeOK, StoreTypes
<1>2. ControlTypes'
  BY DEF TypeInv, TypeOK, ControlTypes, Labels
<1>3. HandTypes'
  BY DEF TypeInv, TypeOK, HandTypes
<1>4. GhostTypes'
  BY DEF TypeInv, TypeOK, GhostTypes
<1>5. Frame(w)
  BY DEF Frame, Same
<1>6. InHand(w)'
  BY <1>2, <1>3 DEF TypeInv, TypeOK, ControlTypes, HandTypes, InHand,
     Continuations, Stage, At, Stepping
<1> QED
  BY <1>1, <1>2, <1>3, <1>4, <1>5, <1>6 DEF TypeOK

\* resumeRunning's last transition (execute.go:249-254).
LEMMA FinishRunTypes ==
  ASSUME TypeInv, NEW w \in Workers, FinishRun(w)
  PROVE  TypeOK' /\ InHand(w)' /\ Frame(w)
<1> USE DEF FinishRun, outside, ghosts
<1>1. Moved(w, [exec[w] EXCEPT !.status = "COMPLETED"], "release")
  BY ExecMoves DEF TypeInv, Status, StepStatus, Labels
<1> HIDE DEF FinishRun
<1>2. StoreTypes' /\ GhostTypes'
  BY DEF FinishRun, TypeInv, TypeOK, StoreTypes, GhostTypes
<1>3. ControlTypes'
  BY <1>1 DEF FinishRun, TypeInv, TypeOK, ControlTypes, Moved, Goto, Labels
<1>4. HandTypes'
  <2>1. exec' \in [Workers -> Records]
    BY <1>1 DEF TypeInv, TypeOK, HandTypes, Moved
  <2>2. cur' \in [Workers -> 0..(NSteps + 1)]
        /\ attempt' \in [Workers -> 0..MaxAttempts]
    BY <1>1 DEF FinishRun, TypeInv, TypeOK, HandTypes, InHand, Stage, At
  <2> QED
    BY <2>1, <2>2 DEF FinishRun, TypeInv, TypeOK, HandTypes
<1>5. Frame(w)
  BY <1>1 DEF FinishRun, TypeInv, TypeOK, ControlTypes, HandTypes, Moved,
     Frame, Same, Goto
<1>6. InHand(w)'
  BY <1>1, <1>3, <1>4 DEF FinishRun, TypeInv, TypeOK, ControlTypes, HandTypes,
     Moved, InHand, Continuations, Stage, At, Stepping, Goto
<1> QED
  BY <1>2, <1>3, <1>4, <1>5, <1>6 DEF TypeOK

\* The context ended between two steps (execute.go:214-218).
LEMMA StopForwardTypes ==
  ASSUME TypeInv, NEW w \in Workers, StopForward(w)
  PROVE  TypeOK' /\ InHand(w)' /\ Frame(w)
<1> USE DEF StopForward, Goto, outside, ghosts, locals
<1>1. StoreTypes'
  BY DEF TypeInv, TypeOK, StoreTypes
<1>2. ControlTypes'
  BY DEF TypeInv, TypeOK, ControlTypes, Labels
<1>3. HandTypes'
  BY DEF TypeInv, TypeOK, HandTypes
<1>4. GhostTypes'
  BY DEF TypeInv, TypeOK, GhostTypes
<1>5. Frame(w)
  BY DEF Frame, Same
<1>6. InHand(w)'
  BY DEF TypeInv, TypeOK, ControlTypes, InHand, Stage, At
<1> QED
  BY <1>1, <1>2, <1>3, <1>4, <1>5, <1>6 DEF TypeOK

\* A PENDING step is recorded RUNNING (execute.go:221-227).
LEMMA StartStepTypes ==
  ASSUME TypeInv, NEW w \in Workers, StartStep(w)
  PROVE  TypeOK' /\ InHand(w)' /\ Frame(w)
<1> USE DEF StartStep, outside, ghosts
<1>1. Moved(w, [exec[w] EXCEPT !.steps[cur[w]] = "RUNNING"], "attempt")
  BY StepMoves DEF TypeInv, Status, StepStatus, Labels
<1> HIDE DEF StartStep
<1>2. StoreTypes' /\ GhostTypes'
  BY DEF StartStep, TypeInv, TypeOK, StoreTypes, GhostTypes
<1>3. ControlTypes'
  BY <1>1 DEF StartStep, TypeInv, TypeOK, ControlTypes, Moved, Goto, Labels
<1>4. HandTypes'
  <2>1. exec' \in [Workers -> Records]
    BY <1>1 DEF TypeInv, TypeOK, HandTypes, Moved
  <2>2. cur' \in [Workers -> 0..(NSteps + 1)]
        /\ attempt' \in [Workers -> 0..MaxAttempts]
    BY <1>1 DEF StartStep, TypeInv, TypeOK, HandTypes, InHand, Stage, At
  <2> QED
    BY <2>1, <2>2 DEF StartStep, TypeInv, TypeOK, HandTypes
<1>5. Frame(w)
  BY <1>1 DEF StartStep, TypeInv, TypeOK, ControlTypes, HandTypes, Moved,
     Frame, Same, Goto
<1>6. InHand(w)'
  BY <1>1, <1>3, <1>4 DEF StartStep, TypeInv, TypeOK, ControlTypes, HandTypes,
     Moved, InHand, Continuations, Stage, At, Stepping, Goto
<1> QED
  BY <1>2, <1>3, <1>4, <1>5, <1>6 DEF TypeOK

\* A step found RUNNING is run again (execute.go:228-233).
LEMMA RetryInterruptedStepTypes ==
  ASSUME TypeInv, NEW w \in Workers, RetryInterruptedStep(w)
  PROVE  TypeOK' /\ InHand(w)' /\ Frame(w)
<1> USE DEF RetryInterruptedStep, Goto, outside, ghosts, locals
<1>1. StoreTypes'
  BY DEF TypeInv, TypeOK, StoreTypes
<1>2. ControlTypes'
  BY DEF TypeInv, TypeOK, ControlTypes, Labels
<1>3. HandTypes'
  BY DEF TypeInv, TypeOK, HandTypes
<1>4. GhostTypes'
  BY DEF TypeInv, TypeOK, GhostTypes
<1>5. Frame(w)
  BY DEF Frame, Same
<1>6. InHand(w)'
  BY <1>2, <1>3 DEF TypeInv, TypeOK, ControlTypes, HandTypes, InHand,
     Continuations, Stage, At, Stepping
<1> QED
  BY <1>1, <1>2, <1>3, <1>4, <1>5, <1>6 DEF TypeOK

\* runStep begins an attempt (execute.go:286-292).
LEMMA InvokeTypes ==
  ASSUME TypeInv, NEW w \in Workers, Invoke(w)
  PROVE  TypeOK' /\ InHand(w)' /\ Frame(w)
<1> USE DEF Invoke, Goto, outside, ghosts, locals, Tick
<1>0. cur[w] \in Steps
  BY DEF TypeInv, InHand, Continuations, Stage, At, Stepping
<1>1. StoreTypes'
  BY DEF TypeInv, TypeOK, StoreTypes
<1>2. ControlTypes'
  BY DEF TypeInv, TypeOK, ControlTypes, Labels
<1>3. HandTypes'
  <2>1. [exec[w] EXCEPT !.attempts[cur[w]] = @ + 1] \in Records
    BY <1>0, AttemptsUpdate DEF TypeInv, TypeOK, HandTypes
  <2>2. exec' \in [Workers -> Records]
    BY <2>1 DEF TypeInv, TypeOK, HandTypes
  <2>3. attempt' \in [Workers -> 0..MaxAttempts]
    BY DEF TypeInv, TypeOK, HandTypes, InHand, Stage, At
  <2> QED
    BY <2>2, <2>3 DEF TypeInv, TypeOK, HandTypes
<1>4. GhostTypes'
  BY <1>0 DEF TypeInv, TypeOK, GhostTypes
<1>5. Frame(w)
  BY DEF Frame, Same
<1>6. InHand(w)'
  BY <1>2, <1>3 DEF TypeInv, TypeOK, ControlTypes, InHand, Stage, At, Stepping
<1> QED
  BY <1>1, <1>2, <1>3, <1>4, <1>5, <1>6 DEF TypeOK

\* runStep gives up before an attempt (execute.go:287-289, 234-240).
LEMMA GiveUpStepTypes ==
  ASSUME TypeInv, NEW w \in Workers, GiveUpStep(w)
  PROVE  TypeOK' /\ InHand(w)' /\ Frame(w)
<1> USE DEF GiveUpStep, outside, ghosts
<1>0. cur[w] \in Steps
  BY DEF TypeInv, InHand, Continuations, Stage, At, Stepping
<1>1. Moved(w, [exec[w] EXCEPT !.steps[cur[w]] = "FAILED"], "abort")
  BY <1>0, StepMoves DEF TypeInv, Status, StepStatus, Labels, FailStep
<1> HIDE DEF GiveUpStep
<1>2. StoreTypes' /\ GhostTypes'
  BY DEF GiveUpStep, TypeInv, TypeOK, StoreTypes, GhostTypes
<1>3. ControlTypes'
  BY <1>1 DEF GiveUpStep, TypeInv, TypeOK, ControlTypes, Moved, Goto, Labels
<1>4. HandTypes'
  <2>1. exec' \in [Workers -> Records]
    BY <1>1 DEF TypeInv, TypeOK, HandTypes, Moved
  <2>2. cur' \in [Workers -> 0..(NSteps + 1)]
        /\ attempt' \in [Workers -> 0..MaxAttempts]
    BY <1>0 DEF GiveUpStep, TypeInv, TypeOK, HandTypes, InHand, Stage, At
  <2> QED
    BY <2>1, <2>2 DEF GiveUpStep, TypeInv, TypeOK, HandTypes
<1>5. Frame(w)
  BY <1>1 DEF GiveUpStep, TypeInv, TypeOK, ControlTypes, HandTypes, Moved,
     Frame, Same, Goto
<1>6. InHand(w)'
  BY <1>1, <1>3, <1>4, <1>0 DEF GiveUpStep, TypeInv, TypeOK, ControlTypes,
     HandTypes, Moved, InHand, Continuations, Stage, At, Stepping, Goto
<1> QED
  BY <1>2, <1>3, <1>4, <1>5, <1>6 DEF TypeOK

\* runStep weighs what the Action returned (execute.go:294-312).
LEMMA ActionReturnsTypes ==
  ASSUME TypeInv, NEW w \in Workers, ActionReturns(w)
  PROVE  TypeOK' /\ InHand(w)' /\ Frame(w)
<1> USE DEF ActionReturns, outside, ghosts
<1>0. cur[w] \in Steps
  BY DEF TypeInv, InHand, Continuations, Stage, At, Stepping
<1>1. \/ /\ Moved(w, [exec[w] EXCEPT !.steps[cur[w]] = "SUCCEEDED"], "forward")
        /\ cur' = [cur EXCEPT ![w] = @ + 1]
     \/ /\ Goto(w, "backoff") /\ attempt[w] < MaxAttempts
        /\ UNCHANGED <<next, exec, result, cur>>
     \/ /\ Moved(w, [exec[w] EXCEPT !.steps[cur[w]] = "FAILED"], "abort")
        /\ UNCHANGED cur
  BY <1>0, StepMoves DEF TypeInv, Status, StepStatus, Labels, FailStep,
     AttemptsLeft
<1> HIDE DEF ActionReturns
<1>2. StoreTypes' /\ GhostTypes'
  BY DEF ActionReturns, TypeInv, TypeOK, StoreTypes, GhostTypes
<1>3. ControlTypes'
  BY <1>1 DEF ActionReturns, TypeInv, TypeOK, ControlTypes, Moved, Goto, Labels
<1>4. HandTypes'
  <2>1. exec' \in [Workers -> Records]
    BY <1>1 DEF TypeInv, TypeOK, HandTypes, Moved
  <2>2. cur' \in [Workers -> 0..(NSteps + 1)]
        /\ attempt' \in [Workers -> 0..MaxAttempts]
    BY <1>0 DEF ActionReturns, TypeInv, TypeOK, HandTypes, InHand, Stage, At
  <2> QED
    BY <2>1, <2>2 DEF ActionReturns, TypeInv, TypeOK, HandTypes
<1>5. Frame(w)
  BY <1>1 DEF ActionReturns, TypeInv, TypeOK, ControlTypes, HandTypes, Moved,
     Frame, Same, Goto
<1>6. InHand(w)'
  BY <1>1, <1>3, <1>4, <1>0 DEF ActionReturns, TypeInv, TypeOK, ControlTypes,
     HandTypes, Moved, InHand, Continuations, Stage, At, Stepping, Goto
<1> QED
  BY <1>2, <1>3, <1>4, <1>5, <1>6 DEF TypeOK

\* sleepOrDone between two attempts (execute.go:360-377).
LEMMA BackoffTypes ==
  ASSUME TypeInv, NEW w \in Workers, Backoff(w)
  PROVE  TypeOK' /\ InHand(w)' /\ Frame(w)
<1> USE DEF Backoff, outside, ghosts
<1>0. cur[w] \in Steps
  BY DEF TypeInv, InHand, Continuations, Stage, At, Stepping
<1>1. \/ Goto(w, "attempt") /\ UNCHANGED <<next, exec, result>>
     \/ Moved(w, [exec[w] EXCEPT !.steps[cur[w]] = "FAILED"], "abort")
  BY <1>0, StepMoves DEF TypeInv, Status, StepStatus, Labels, FailStep
<1> HIDE DEF Backoff
<1>2. StoreTypes' /\ GhostTypes'
  BY DEF Backoff, TypeInv, TypeOK, StoreTypes, GhostTypes
<1>3. ControlTypes'
  BY <1>1 DEF Backoff, TypeInv, TypeOK, ControlTypes, Moved, Goto, Labels
<1>4. HandTypes'
  <2>1. exec' \in [Workers -> Records]
    BY <1>1 DEF TypeInv, TypeOK, HandTypes, Moved
  <2>2. cur' \in [Workers -> 0..(NSteps + 1)]
        /\ attempt' \in [Workers -> 0..MaxAttempts]
    BY <1>0 DEF Backoff, TypeInv, TypeOK, HandTypes, InHand, Stage, At
  <2> QED
    BY <2>1, <2>2 DEF Backoff, TypeInv, TypeOK, HandTypes
<1>5. Frame(w)
  BY <1>1 DEF Backoff, TypeInv, TypeOK, ControlTypes, HandTypes, Moved, Frame,
     Same, Goto
<1>6. InHand(w)'
  BY <1>1, <1>3, <1>4, <1>0 DEF Backoff, TypeInv, TypeOK, ControlTypes,
     HandTypes, Moved, InHand, Continuations, Stage, At, Stepping, Goto
<1> QED
  BY <1>2, <1>3, <1>4, <1>5, <1>6 DEF TypeOK

\* abort with nothing to undo (execute.go:393-398).
LEMMA AbortFailedTypes ==
  ASSUME TypeInv, NEW w \in Workers, AbortFailed(w)
  PROVE  TypeOK' /\ InHand(w)' /\ Frame(w)
<1> USE DEF AbortFailed, outside, ghosts
<1>1. Moved(w, [exec[w] EXCEPT !.status = "FAILED"], "release")
  BY ExecMoves DEF TypeInv, Status, StepStatus, Labels
<1> HIDE DEF AbortFailed
<1>2. StoreTypes' /\ GhostTypes'
  BY DEF AbortFailed, TypeInv, TypeOK, StoreTypes, GhostTypes
<1>3. ControlTypes'
  BY <1>1 DEF AbortFailed, TypeInv, TypeOK, ControlTypes, Moved, Goto, Labels
<1>4. HandTypes'
  <2>1. exec' \in [Workers -> Records]
    BY <1>1 DEF TypeInv, TypeOK, HandTypes, Moved
  <2>2. cur' \in [Workers -> 0..(NSteps + 1)]
        /\ attempt' \in [Workers -> 0..MaxAttempts]
    BY <1>1 DEF AbortFailed, TypeInv, TypeOK, HandTypes, InHand, Stage, At
  <2> QED
    BY <2>1, <2>2 DEF AbortFailed, TypeInv, TypeOK, HandTypes
<1>5. Frame(w)
  BY <1>1 DEF AbortFailed, TypeInv, TypeOK, ControlTypes, HandTypes, Moved,
     Frame, Same, Goto
<1>6. InHand(w)'
  BY <1>1, <1>3, <1>4 DEF AbortFailed, TypeInv, TypeOK, ControlTypes,
     HandTypes, Moved, InHand, Continuations, Stage, At, Stepping, Goto
<1> QED
  BY <1>2, <1>3, <1>4, <1>5, <1>6 DEF TypeOK

\* abort turns the saga round (execute.go:400-403).
LEMMA AbortCompensatingTypes ==
  ASSUME TypeInv, NEW w \in Workers, AbortCompensating(w)
  PROVE  TypeOK' /\ InHand(w)' /\ Frame(w)
<1> USE DEF AbortCompensating, outside, ghosts
<1>0. cur[w] \in Steps
  BY DEF TypeInv, InHand, Continuations, Stage, At, Stepping
<1>1. Moved(w, [exec[w] EXCEPT !.status = "COMPENSATING"], "rollback")
  BY <1>0, ExecMoves DEF TypeInv, Status, StepStatus, Labels
<1> HIDE DEF AbortCompensating
<1>2. StoreTypes' /\ GhostTypes'
  BY DEF AbortCompensating, TypeInv, TypeOK, StoreTypes, GhostTypes
<1>3. ControlTypes'
  BY <1>1 DEF AbortCompensating, TypeInv, TypeOK, ControlTypes, Moved, Goto,
     Labels
<1>4. HandTypes'
  <2>1. exec' \in [Workers -> Records]
    BY <1>1 DEF TypeInv, TypeOK, HandTypes, Moved
  <2>2. cur' \in [Workers -> 0..(NSteps + 1)]
        /\ attempt' \in [Workers -> 0..MaxAttempts]
    BY <1>0 DEF AbortCompensating, TypeInv, TypeOK, HandTypes, InHand, Stage,
       At
  <2> QED
    BY <2>1, <2>2 DEF AbortCompensating, TypeInv, TypeOK, HandTypes
<1>5. Frame(w)
  BY <1>1 DEF AbortCompensating, TypeInv, TypeOK, ControlTypes, HandTypes,
     Moved, Frame, Same, Goto
<1>6. InHand(w)'
  BY <1>1, <1>3, <1>4, <1>0 DEF AbortCompensating, TypeInv, TypeOK,
     ControlTypes, HandTypes, Moved, InHand, Continuations, Stage, At,
     Stepping, Goto
<1> QED
  BY <1>2, <1>3, <1>4, <1>5, <1>6 DEF TypeOK

\* finishCompensating begins (execute.go:441-449).
LEMMA RollbackTypes ==
  ASSUME TypeInv, NEW w \in Workers, Rollback(w)
  PROVE  TypeOK' /\ InHand(w)' /\ Frame(w)
<1> USE DEF Rollback, Goto, outside, ghosts, locals
<1>1. StoreTypes'
  BY DEF TypeInv, TypeOK, StoreTypes
<1>2. ControlTypes'
  BY DEF TypeInv, TypeOK, ControlTypes, Labels
<1>3. HandTypes'
  BY DEF TypeInv, TypeOK, HandTypes, InHand, Stage, At, Stepping
<1>4. GhostTypes'
  BY DEF TypeInv, TypeOK, GhostTypes
<1>5. Frame(w)
  BY DEF Frame, Same
<1>6. InHand(w)'
  BY <1>2, <1>3 DEF TypeInv, TypeOK, ControlTypes, InHand, Stage, At, Stepping
<1> QED
  BY <1>1, <1>2, <1>3, <1>4, <1>5, <1>6 DEF TypeOK

\* compensate takes up a step (execute.go:499-518).
LEMMA UndoStepTypes ==
  ASSUME TypeInv, NEW w \in Workers, UndoStep(w)
  PROVE  TypeOK' /\ InHand(w)' /\ Frame(w)
<1> USE DEF UndoStep, outside, ghosts
<1>1. \E i \in Steps :
       /\ cur' = [cur EXCEPT ![w] = i]
       /\ \/ Moved(w, [exec[w] EXCEPT !.steps[i] = "COMPENSATING"],
                "compensate")
          \/ Goto(w, "compensate") /\ UNCHANGED <<next, exec, result>>
  BY StepMoves DEF TypeInv, Status, StepStatus, Labels
<1> HIDE DEF UndoStep
<1>2. StoreTypes' /\ GhostTypes'
  BY DEF UndoStep, TypeInv, TypeOK, StoreTypes, GhostTypes
<1>3. ControlTypes'
  BY <1>1 DEF UndoStep, TypeInv, TypeOK, ControlTypes, Moved, Goto, Labels
<1>4. HandTypes'
  <2>1. exec' \in [Workers -> Records]
    BY <1>1 DEF TypeInv, TypeOK, HandTypes, Moved
  <2>2. cur' \in [Workers -> 0..(NSteps + 1)]
        /\ attempt' \in [Workers -> 0..MaxAttempts]
    BY <1>1 DEF UndoStep, TypeInv, TypeOK, HandTypes, InHand, Stage, At
  <2> QED
    BY <2>1, <2>2 DEF UndoStep, TypeInv, TypeOK, HandTypes
<1>5. Frame(w)
  BY <1>1 DEF UndoStep, TypeInv, TypeOK, ControlTypes, HandTypes, Moved,
     Frame, Same, Goto
<1>6. InHand(w)'
  BY <1>1, <1>3, <1>4 DEF UndoStep, TypeInv, TypeOK, ControlTypes, HandTypes,
     Moved, InHand, Continuations, Stage, At, Stepping, Goto
<1> QED
  BY <1>2, <1>3, <1>4, <1>5, <1>6 DEF TypeOK

\* invokeCompensate (execute.go:544-549).
LEMMA InvokeCompensateTypes ==
  ASSUME TypeInv, NEW w \in Workers, InvokeCompensate(w)
  PROVE  TypeOK' /\ InHand(w)' /\ Frame(w)
<1> USE DEF InvokeCompensate, Goto, outside, ghosts, locals, Tick
<1>0. cur[w] \in Steps
  BY DEF TypeInv, InHand, Continuations, Stage, At, Stepping
<1>1. StoreTypes'
  BY DEF TypeInv, TypeOK, StoreTypes
<1>2. ControlTypes'
  BY DEF TypeInv, TypeOK, ControlTypes, Labels
<1>3. HandTypes'
  BY DEF TypeInv, TypeOK, HandTypes
<1>4. GhostTypes'
  BY <1>0 DEF TypeInv, TypeOK, GhostTypes
<1>5. Frame(w)
  BY DEF Frame, Same
<1>6. InHand(w)'
  BY DEF TypeInv, TypeOK, ControlTypes, InHand, Stage, At
<1> QED
  BY <1>1, <1>2, <1>3, <1>4, <1>5, <1>6 DEF TypeOK

\* compensate records what Compensate returned (execute.go:520-530).
LEMMA UndoReturnsTypes ==
  ASSUME TypeInv, NEW w \in Workers, UndoReturns(w)
  PROVE  TypeOK' /\ InHand(w)' /\ Frame(w)
<1> USE DEF UndoReturns, outside, ghosts
<1>0. cur[w] \in Steps
  BY DEF TypeInv, InHand, Continuations, Stage, At, Stepping
<1>1. \E s \in {"COMPENSATED", "COMPENSATION_FAILED"} :
       Moved(w, [exec[w] EXCEPT !.steps[cur[w]] = s], "undo")
  BY <1>0, StepMoves DEF TypeInv, Status, StepStatus, Labels
<1> HIDE DEF UndoReturns
<1>2. StoreTypes' /\ GhostTypes'
  BY DEF UndoReturns, TypeInv, TypeOK, StoreTypes, GhostTypes
<1>3. ControlTypes'
  BY <1>1 DEF UndoReturns, TypeInv, TypeOK, ControlTypes, Moved, Goto, Labels
<1>4. HandTypes'
  <2>1. exec' \in [Workers -> Records]
    BY <1>1 DEF TypeInv, TypeOK, HandTypes, Moved
  <2>2. cur' \in [Workers -> 0..(NSteps + 1)]
        /\ attempt' \in [Workers -> 0..MaxAttempts]
    BY <1>0 DEF UndoReturns, TypeInv, TypeOK, HandTypes, InHand, Stage, At
  <2> QED
    BY <2>1, <2>2 DEF UndoReturns, TypeInv, TypeOK, HandTypes
<1>5. Frame(w)
  BY <1>1 DEF UndoReturns, TypeInv, TypeOK, ControlTypes, HandTypes, Moved,
     Frame, Same, Goto
<1>6. InHand(w)'
  BY <1>1, <1>3, <1>4, <1>0 DEF UndoReturns, TypeInv, TypeOK, ControlTypes,
     HandTypes, Moved, InHand, Continuations, Stage, At, Stepping, Goto
<1> QED
  BY <1>2, <1>3, <1>4, <1>5, <1>6 DEF TypeOK

\* compensate's verdict and the last transition (execute.go:455-464, 532-539).
LEMMA FinishRollbackTypes ==
  ASSUME TypeInv, NEW w \in Workers, FinishRollback(w)
  PROVE  TypeOK' /\ InHand(w)' /\ Frame(w)
<1> USE DEF FinishRollback, outside, ghosts
<1>1. \E s \in {"COMPENSATED", "COMPENSATION_FAILED"} :
       Moved(w, [exec[w] EXCEPT !.status = s], "release")
  BY ExecMoves DEF TypeInv, Status, StepStatus, Labels, RollbackOutcome
<1> HIDE DEF FinishRollback
<1>2. StoreTypes' /\ GhostTypes'
  BY DEF FinishRollback, TypeInv, TypeOK, StoreTypes, GhostTypes
<1>3. ControlTypes'
  BY <1>1 DEF FinishRollback, TypeInv, TypeOK, ControlTypes, Moved, Goto,
     Labels
<1>4. HandTypes'
  <2>1. exec' \in [Workers -> Records]
    BY <1>1 DEF TypeInv, TypeOK, HandTypes, Moved
  <2>2. cur' \in [Workers -> 0..(NSteps + 1)]
        /\ attempt' \in [Workers -> 0..MaxAttempts]
    BY <1>1 DEF FinishRollback, TypeInv, TypeOK, HandTypes, InHand, Stage, At
  <2> QED
    BY <2>1, <2>2 DEF FinishRollback, TypeInv, TypeOK, HandTypes
<1>5. Frame(w)
  BY <1>1 DEF FinishRollback, TypeInv, TypeOK, ControlTypes, HandTypes, Moved,
     Frame, Same, Goto
<1>6. InHand(w)'
  BY <1>1, <1>3, <1>4 DEF FinishRollback, TypeInv, TypeOK, ControlTypes,
     HandTypes, Moved, InHand, Continuations, Stage, At, Stepping, Goto
<1> QED
  BY <1>2, <1>3, <1>4, <1>5, <1>6 DEF TypeOK

\* save renews the lease (execute.go:590-598).
LEMMA RenewLeaseTypes ==
  ASSUME TypeInv, NEW w \in Workers, RenewLease(w)
  PROVE  TypeOK' /\ InHand(w)' /\ Frame(w)
<1> USE DEF RenewLease, Goto, ghosts, Fault, Take, Finish, Leases
<1>1. StoreTypes'
  BY DEF TypeInv, TypeOK, StoreTypes
<1>2. ControlTypes'
  BY DEF TypeInv, TypeOK, ControlTypes, Results, Labels
<1>3. HandTypes'
  BY DEF TypeInv, TypeOK, HandTypes
<1>4. GhostTypes'
  BY DEF TypeInv, TypeOK, GhostTypes
<1>5. Frame(w)
  BY DEF Frame, Same, TypeInv, TypeOK, ControlTypes, HandTypes
<1>6. InHand(w)'
  BY <1>2, <1>3 DEF TypeInv, TypeOK, ControlTypes, InHand, Stage, At, Stepping
<1> QED
  BY <1>1, <1>2, <1>3, <1>4, <1>5, <1>6 DEF TypeOK

\* save writes the record (execute.go:599-602).
LEMMA SaveTypes ==
  ASSUME TypeInv, NEW w \in Workers, Save(w)
  PROVE  TypeOK' /\ InHand(w)' /\ Frame(w)
<1> USE DEF Save, Goto, ghosts, WriteFails, Fault, Put, Finish
<1>1. StoreTypes'
  BY DEF TypeInv, TypeOK, StoreTypes, HandTypes
<1>2. ControlTypes'
  BY DEF TypeInv, TypeOK, ControlTypes, Results, Labels
<1>3. HandTypes'
  BY DEF TypeInv, TypeOK, HandTypes
<1>4. GhostTypes'
  BY DEF TypeInv, TypeOK, GhostTypes
<1>5. Frame(w)
  BY DEF Frame, Same, TypeInv, TypeOK, ControlTypes, HandTypes
<1>6. InHand(w)'
  BY <1>2, <1>3 DEF TypeInv, TypeOK, ControlTypes, InHand, Stage, At, Stepping
<1> QED
  BY <1>1, <1>2, <1>3, <1>4, <1>5, <1>6 DEF TypeOK

\* notifyExec and notifyStep (execute.go:622-644).
LEMMA NotifyTypes ==
  ASSUME TypeInv, NEW w \in Workers, Notify(w)
  PROVE  TypeOK' /\ InHand(w)' /\ Frame(w)
<1> USE DEF Notify, Goto, outside, ghosts, locals, Finish, IsTerminal
<1>1. StoreTypes'
  BY DEF TypeInv, TypeOK, StoreTypes
<1>2. ControlTypes'
  BY DEF TypeInv, TypeOK, ControlTypes, Results, Labels
<1>3. HandTypes'
  BY DEF TypeInv, TypeOK, HandTypes
<1>4. GhostTypes'
  BY DEF TypeInv, TypeOK, GhostTypes
<1>5. Frame(w)
  BY DEF Frame, Same, TypeInv, TypeOK, ControlTypes, HandTypes
<1>6. InHand(w)'
  BY <1>2, <1>3 DEF TypeInv, TypeOK, ControlTypes, InHand, Stage, At, Stepping
<1> QED
  BY <1>1, <1>2, <1>3, <1>4, <1>5, <1>6 DEF TypeOK

\* The deferred Release (execute.go:152-154).
LEMMA ReleaseTypes ==
  ASSUME TypeInv, NEW w \in Workers, Release(w)
  PROVE  TypeOK' /\ InHand(w)' /\ Frame(w)
<1> USE DEF Release, Goto, outside, ghosts, locals, GiveUp, Fault, Forsake,
   Forget, Leases
<1>1. StoreTypes'
  BY DEF TypeInv, TypeOK, StoreTypes
<1>2. ControlTypes'
  BY DEF TypeInv, TypeOK, ControlTypes, Results, Labels
<1>3. HandTypes'
  BY InitialRecords DEF TypeInv, TypeOK, ControlTypes, HandTypes, InHand,
     Continuations, Stage, At, Stepping
<1>4. GhostTypes'
  BY DEF TypeInv, TypeOK, GhostTypes
<1>5. Frame(w)
  BY DEF Frame, Same
<1>6. InHand(w)'
  BY <1>2, <1>3 DEF TypeInv, TypeOK, ControlTypes, InHand, Stage, At, Stepping
<1> QED
  BY <1>1, <1>2, <1>3, <1>4, <1>5, <1>6 DEF TypeOK

\* An Action takes effect downstream (execute.go:333, 340).
LEMMA ActionAppliesTypes ==
  ASSUME TypeInv, NEW w \in Workers, ActionApplies(w)
  PROVE  TypeOK' /\ InHand(w)' /\ Frame(w)
<1> USE DEF ActionApplies, Goto, outside, ghosts, locals
<1>1. StoreTypes'
  BY DEF TypeInv, TypeOK, StoreTypes
<1>2. ControlTypes'
  BY DEF TypeInv, TypeOK, ControlTypes
<1>3. HandTypes'
  BY DEF TypeInv, TypeOK, HandTypes
<1>4. GhostTypes'
  BY DEF TypeInv, TypeOK, GhostTypes
<1>5. Frame(w)
  BY DEF Frame, Same
<1>6. InHand(w)'
  BY DEF TypeInv, TypeOK, ControlTypes, InHand, Stage, At
<1> QED
  BY <1>1, <1>2, <1>3, <1>4, <1>5, <1>6 DEF TypeOK

\* A Compensate takes effect downstream (execute.go:548).
LEMMA UndoAppliesTypes ==
  ASSUME TypeInv, NEW w \in Workers, UndoApplies(w)
  PROVE  TypeOK' /\ InHand(w)' /\ Frame(w)
<1> USE DEF UndoApplies, Goto, outside, ghosts, locals
<1>1. StoreTypes'
  BY DEF TypeInv, TypeOK, StoreTypes
<1>2. ControlTypes'
  BY DEF TypeInv, TypeOK, ControlTypes
<1>3. HandTypes'
  BY DEF TypeInv, TypeOK, HandTypes
<1>4. GhostTypes'
  BY DEF TypeInv, TypeOK, GhostTypes
<1>5. Frame(w)
  BY DEF Frame, Same
<1>6. InHand(w)'
  BY DEF TypeInv, TypeOK, ControlTypes, InHand, Stage, At
<1> QED
  BY <1>1, <1>2, <1>3, <1>4, <1>5, <1>6 DEF TypeOK

\* A process dies between any two steps (execute.go:120-130).
LEMMA CrashTypes ==
  ASSUME TypeInv, NEW w \in Workers, Crash(w)
  PROVE  TypeOK' /\ InHand(w)' /\ Frame(w)
<1> USE DEF Crash, Goto, outside, ghosts, locals, Fault, Forsake, Forget,
   Leases
<1>1. StoreTypes'
  BY DEF TypeInv, TypeOK, StoreTypes
<1>2. ControlTypes'
  BY DEF TypeInv, TypeOK, ControlTypes, Results, Labels
<1>3. HandTypes'
  BY InitialRecords DEF TypeInv, TypeOK, ControlTypes, HandTypes, InHand,
     Continuations, Stage, At, Stepping
<1>4. GhostTypes'
  BY DEF TypeInv, TypeOK, GhostTypes
<1>5. Frame(w)
  BY DEF Frame, Same
<1>6. InHand(w)'
  BY <1>2, <1>3 DEF TypeInv, TypeOK, ControlTypes, InHand, Stage, At, Stepping
<1> QED
  BY <1>1, <1>2, <1>3, <1>4, <1>5, <1>6 DEF TypeOK

\* User code panics through the engine (execute.go:333, 548).
LEMMA PanicInStepTypes ==
  ASSUME TypeInv, NEW w \in Workers, PanicInStep(w)
  PROVE  TypeOK' /\ InHand(w)' /\ Frame(w)
<1> USE DEF PanicInStep, Goto, outside, ghosts, locals, Fault, Finish
<1>1. StoreTypes'
  BY DEF TypeInv, TypeOK, StoreTypes
<1>2. ControlTypes'
  BY DEF TypeInv, TypeOK, ControlTypes, Results, Labels
<1>3. HandTypes'
  BY DEF TypeInv, TypeOK, HandTypes
<1>4. GhostTypes'
  BY DEF TypeInv, TypeOK, GhostTypes
<1>5. Frame(w)
  BY DEF Frame, Same
<1>6. InHand(w)'
  BY <1>2, <1>3 DEF TypeInv, TypeOK, ControlTypes, InHand, Stage, At, Stepping
<1> QED
  BY <1>1, <1>2, <1>3, <1>4, <1>5, <1>6 DEF TypeOK

\* A logger or metrics panic (execute.go:684, 698).
LEMMA PanicInObserverTypes ==
  ASSUME TypeInv, NEW w \in Workers, PanicInObserver(w)
  PROVE  TypeOK' /\ InHand(w)' /\ Frame(w)
<1> USE DEF PanicInObserver, Goto, outside, ghosts, locals, Fault, Finish
<1>1. StoreTypes'
  BY DEF TypeInv, TypeOK, StoreTypes
<1>2. ControlTypes'
  BY DEF TypeInv, TypeOK, ControlTypes, Results, Labels
<1>3. HandTypes'
  BY DEF TypeInv, TypeOK, HandTypes
<1>4. GhostTypes'
  BY DEF TypeInv, TypeOK, GhostTypes
<1>5. Frame(w)
  BY DEF Frame, Same
<1>6. InHand(w)'
  BY <1>2, <1>3 DEF TypeInv, TypeOK, ControlTypes, InHand, Stage, At, Stepping
<1> QED
  BY <1>1, <1>2, <1>3, <1>4, <1>5, <1>6 DEF TypeOK

\* The context is cancelled or times out (execute.go:160-166).
LEMMA ContextEndsTypes ==
  ASSUME TypeInv, NEW w \in Workers, ContextEnds(w)
  PROVE  TypeOK' /\ InHand(w)' /\ Frame(w)
<1> USE DEF ContextEnds, Goto, outside, ghosts, locals, Ended
<1>1. StoreTypes'
  BY DEF TypeInv, TypeOK, StoreTypes
<1>2. ControlTypes'
  BY DEF TypeInv, TypeOK, ControlTypes
<1>3. HandTypes'
  BY DEF TypeInv, TypeOK, HandTypes
<1>4. GhostTypes'
  BY DEF TypeInv, TypeOK, GhostTypes
<1>5. Frame(w)
  BY DEF Frame, Same, TypeInv, TypeOK, ControlTypes, HandTypes
<1>6. InHand(w)'
  BY DEF TypeInv, TypeOK, ControlTypes, InHand, Stage, At
<1> QED
  BY <1>1, <1>2, <1>3, <1>4, <1>5, <1>6 DEF TypeOK

\* Any step of a worker.
WorkerStep(w) ==
  Execute(w) \/ Recover(w) \/ Engine(w) \/ Downstream(w) \/ Environment(w)

\* The lemmas above, together.
LEMMA WorkerTypes ==
  ASSUME TypeInv, NEW w \in Workers, WorkerStep(w)
  PROVE  TypeOK' /\ InHand(w)' /\ Frame(w)
  BY ExecuteTypes, SaveInitialTypes, RecoverTypes, AcquireLeaseTypes,
     BeginRunTypes, ResumeFailedStepTypes, ResumeForwardTypes,
     ResumeCompensatingTypes, FinishRunTypes, StopForwardTypes,
     StartStepTypes, RetryInterruptedStepTypes, InvokeTypes, GiveUpStepTypes,
     ActionReturnsTypes, BackoffTypes, AbortFailedTypes,
     AbortCompensatingTypes, RollbackTypes, UndoStepTypes,
     InvokeCompensateTypes, UndoReturnsTypes, FinishRollbackTypes,
     RenewLeaseTypes, SaveTypes, NotifyTypes, ReleaseTypes,
     ActionAppliesTypes, UndoAppliesTypes, CrashTypes, PanicInStepTypes,
     PanicInObserverTypes, ContextEndsTypes DEF WorkerStep, Engine,
     Downstream, Environment

\* A worker that does not move keeps its hand.
LEMMA HandFramed ==
  ASSUME NEW v \in Workers, InHand(v), Same(v)
  PROVE  InHand(v)'
BY DEF InHand, Continuations, Stage, Same

\* No call is in progress at first.
LEMMA TypeInit == ASSUME Init PROVE TypeInv
<1>1. TypeOK
  <2>1. StoreTypes
    BY InitialRecords DEF Init, StoreTypes, Leases
  <2>4. ControlTypes
    BY DEF Init, ControlTypes, Labels, Results
  <2>2. HandTypes
    BY InitialRecords DEF Init, HandTypes
  <2>3. GhostTypes
    <3>1. /\ world = [i \in Steps |-> "none"]
          /\ runs = [i \in Steps |-> 0] /\ comps = [i \in Steps |-> 0]
          /\ announced = {}
      BY DEF Init
    <3>2. lapsed \in BOOLEAN
      BY Zenon DEF Init
    <3> QED
      BY <3>1, <3>2 DEF GhostTypes
  <2> QED
    BY <2>1, <2>2, <2>3, <2>4 DEF TypeOK
<1>2. \A w \in Workers : InHand(w)
  BY DEF Init, InHand, Stage, Stepping
<1> QED
  BY <1>1, <1>2 DEF TypeInv

\* One worker moves at a time, and each step of it keeps the types.
LEMMA TypeNext == ASSUME TypeInv, [Next]_vars PROVE TypeInv'
<1>1. ASSUME NEW w \in Workers, WorkerStep(w) PROVE TypeInv'
  <2>1. TypeOK' /\ InHand(w)' /\ Frame(w)
    BY <1>1, WorkerTypes
  <2>2. \A v \in Workers \ {w} : InHand(v)'
    BY <2>1, HandFramed DEF Frame, TypeInv
  <2> QED
    BY <2>1, <2>2 DEF TypeInv
<1>2. CASE Lapse
  <2>1. TypeOK'
    <3>1. StoreTypes'
      BY <1>2 DEF Lapse, Expire, Fault, TypeInv, TypeOK, StoreTypes, Leases
    <3>2. ControlTypes' /\ HandTypes'
      BY <1>2 DEF Lapse, locals, TypeInv, TypeOK, ControlTypes, HandTypes
    <3>3. GhostTypes'
      BY <1>2 DEF Lapse, TypeInv, TypeOK, GhostTypes
    <3> QED
      BY <3>1, <3>2, <3>3 DEF TypeOK
  <2>2. \A v \in Workers : Same(v)
    BY <1>2 DEF Lapse, locals, Same
  <2> QED
    BY <2>1, <2>2, HandFramed DEF TypeInv
<1>3. CASE UNCHANGED vars
  <2>1. TypeOK'
    BY <1>3 DEF vars, outside, locals, ghosts, TypeInv, TypeOK, StoreTypes,
       ControlTypes, HandTypes, GhostTypes
  <2>2. \A v \in Workers : Same(v)
    BY <1>3 DEF vars, locals, Same
  <2> QED
    BY <2>1, <2>2, HandFramed DEF TypeInv
<1> QED
  BY <1>1, <1>2, <1>3 DEF Next, Rest, WorkerStep

\* The variables keep their types: above all, no call ever leaves the range of
\* the saga's steps or begins an attempt beyond the retry budget
\* (execute.go:212-213, 286-307, 499-504).
THEOREM TypeCorrect == Spec => []TypeOK
<1>1. Init => TypeInv
  BY TypeInit
<1>2. TypeInv /\ [Next]_vars => TypeInv'
  BY TypeNext
<1>3. TypeInv => TypeOK
  BY DEF TypeInv
<1> QED
  BY <1>1, <1>2, <1>3, PTL DEF Spec

-------------------------------------------------------------------------------
(***************************************************************************)
(* The lease.                                                              *)
(***************************************************************************)
LeaseInv == TypeInv /\ DrivesUnderLease /\ NoLeaseLeftBehind

\* What a step of w does to the lease: nothing to that of another worker, and
\* w keeps it for as long as it drives and no longer than its call.
Disciplined(w) ==
  /\ lapsed' = lapsed
  /\ \A v \in Workers \ {w} : lease' = v <=> lease = v
  /\ Leased' /\ Driving(w)' => lease' = w
  /\ lease' = w => Driving(w)' \/ At(w, "release")'

\* Most steps leave the lease alone and stay inside the call.
LEMMA QuietSteps ==
  ASSUME LeaseInv, NEW w \in Workers, lease' = lease, lapsed' = lapsed,
         pc[w] # pc'[w] => (Driving(w)' => Driving(w)),
         Driving(w) \/ At(w, "release") => Driving(w)' \/ At(w, "release")'
  PROVE  Disciplined(w)
BY DEF LeaseInv, Leased, DrivesUnderLease, NoLeaseLeftBehind, Disciplined,
   Driving, At

\* Every step of a worker handles the lease as Disciplined says
\* (execute.go:140-155, 589-603).
LEMMA WorkerDiscipline ==
  ASSUME LeaseInv, NEW w \in Workers, WorkerStep(w)
  PROVE  Disciplined(w)
<1> pc \in [Workers -> Labels] /\ lease \in Leases
  BY DEF LeaseInv, TypeInv, TypeOK, StoreTypes, ControlTypes
<1> USE DEF Leased, ghosts
<1>1. CASE Execute(w)
  BY <1>1, QuietSteps DEF Execute, Driving, At, Goto, outside, locals
<1>2. CASE SaveInitial(w)
  BY <1>2, QuietSteps DEF SaveInitial, Driving, At, Goto, Leave
<1>3. CASE Recover(w)
  BY <1>3, QuietSteps DEF Recover, Driving, At, Goto, outside, locals
<1>4. CASE AcquireLease(w)
  BY <1>4 DEF AcquireLease, Driving, At, Goto, Leases, Disciplined, LeaseInv,
     DrivesUnderLease, NoLeaseLeftBehind, Take, Available, Leave
<1>5. CASE BeginRun(w)
  BY <1>5, QuietSteps DEF BeginRun, Driving, At, Goto, outside,
     locals, TransitionExec, Persist, Finish
<1>6. CASE ResumeFailedStep(w)
  BY <1>6, QuietSteps DEF ResumeFailedStep, Driving, At, Goto, outside,
     locals
<1>7. CASE ResumeForward(w)
  BY <1>7, QuietSteps DEF ResumeForward, Driving, At, Goto, outside,
     locals
<1>8. CASE ResumeCompensating(w)
  BY <1>8, QuietSteps DEF ResumeCompensating, Driving, At, Goto, outside,
     locals
<1>9. CASE FinishRun(w)
  BY <1>9, QuietSteps DEF FinishRun, Driving, At, Goto, outside,
     locals, TransitionExec, Persist, Finish
<1>10. CASE StopForward(w)
  BY <1>10, QuietSteps DEF StopForward, Driving, At, Goto, outside,
     locals
<1>11. CASE StartStep(w)
  BY <1>11, QuietSteps DEF StartStep, Driving, At, Goto, outside,
     locals, TransitionStep, Persist, Finish
<1>12. CASE RetryInterruptedStep(w)
  BY <1>12, QuietSteps DEF RetryInterruptedStep, Driving, At, Goto, outside,
     locals
<1>13. CASE Invoke(w)
  BY <1>13, QuietSteps DEF Invoke, Driving, At, Goto, outside, locals
<1>14. CASE GiveUpStep(w)
  BY <1>14, QuietSteps DEF GiveUpStep, Driving, At, Goto, outside,
     locals, FailStep, TransitionStep, Persist, Finish
<1>15. CASE ActionReturns(w)
  BY <1>15, QuietSteps DEF ActionReturns, Driving, At, Goto, outside,
     locals, FailStep, TransitionStep, Persist, Finish
<1>16. CASE Backoff(w)
  BY <1>16, QuietSteps DEF Backoff, Driving, At, Goto, outside,
     locals, FailStep, TransitionStep, Persist, Finish
<1>17. CASE AbortFailed(w)
  BY <1>17, QuietSteps DEF AbortFailed, Driving, At, Goto, outside,
     locals, TransitionExec, Persist, Finish
<1>18. CASE AbortCompensating(w)
  BY <1>18, QuietSteps DEF AbortCompensating, Driving, At, Goto, outside,
     locals, TransitionExec, Persist, Finish
<1>19. CASE Rollback(w)
  BY <1>19, QuietSteps DEF Rollback, Driving, At, Goto, outside,
     locals
<1>20. CASE UndoStep(w)
  BY <1>20, QuietSteps DEF UndoStep, Driving, At, Goto, outside,
     locals, TransitionStep, Persist, Finish
<1>21. CASE InvokeCompensate(w)
  BY <1>21, QuietSteps DEF InvokeCompensate, Driving, At, Goto, outside,
     locals
<1>22. CASE UndoReturns(w)
  BY <1>22, QuietSteps DEF UndoReturns, Driving, At, Goto, outside,
     locals, TransitionStep, Persist, Finish
<1>23. CASE FinishRollback(w)
  BY <1>23, QuietSteps DEF FinishRollback, Driving, At, Goto, outside,
     locals, TransitionExec, Persist, Finish
<1>24. CASE RenewLease(w)
  BY <1>24 DEF RenewLease, Driving, At, Goto, Leases, Disciplined, LeaseInv,
     DrivesUnderLease, NoLeaseLeftBehind, Take, Available, Finish
<1>25. CASE Save(w)
  BY <1>25, QuietSteps DEF Save, Driving, At, Goto, outside, locals,
     Finish
<1>26. CASE Notify(w)
  BY <1>26, QuietSteps DEF Notify, Driving, At, Goto, outside, locals,
     Finish, TypeInv, InHand, Continuations, LeaseInv
<1>27. CASE Release(w)
  BY <1>27 DEF Release, Driving, At, Goto, Leases, Disciplined, LeaseInv,
     DrivesUnderLease, NoLeaseLeftBehind, GiveUp, Forsake, Finish
<1>28. CASE ActionApplies(w)
  BY <1>28, QuietSteps DEF ActionApplies, Driving, At, Goto, outside,
     locals
<1>29. CASE UndoApplies(w)
  BY <1>29, QuietSteps DEF UndoApplies, Driving, At, Goto, outside,
     locals
<1>30. CASE Crash(w)
  BY <1>30 DEF Crash, Driving, At, Goto, Leases, Disciplined, LeaseInv,
     DrivesUnderLease, NoLeaseLeftBehind, Forsake
<1>31. CASE PanicInStep(w)
  BY <1>31, QuietSteps DEF PanicInStep, Driving, At, Goto, outside,
     locals, Finish
<1>32. CASE PanicInObserver(w)
  BY <1>32, QuietSteps DEF PanicInObserver, Driving, At, Goto, outside,
     locals, Finish
<1>33. CASE ContextEnds(w)
  BY <1>33, QuietSteps DEF ContextEnds, Driving, At, Goto, outside,
     locals
<1> QED
  BY <1>1, <1>2, <1>3, <1>4, <1>5, <1>6, <1>7, <1>8, <1>9, <1>10, <1>11,
     <1>12, <1>13, <1>14, <1>15, <1>16, <1>17, <1>18, <1>19, <1>20, <1>21,
     <1>22, <1>23, <1>24, <1>25, <1>26, <1>27, <1>28, <1>29, <1>30, <1>31,
     <1>32, <1>33 DEF WorkerStep, Engine, Downstream, Environment

\* No lease is out at first.
LEMMA LeaseInit == Init => LeaseInv
<1>1. ASSUME Init PROVE DrivesUnderLease /\ NoLeaseLeftBehind
  BY <1>1 DEF Init, DrivesUnderLease, NoLeaseLeftBehind, Driving, At
<1> QED
  BY <1>1, TypeInit DEF LeaseInv

\* A lease changes hands only by Acquire, Release, the end of a process, or the
\* passing of its TTL.
LEMMA LeaseNext == ASSUME LeaseInv, [Next]_vars PROVE LeaseInv'
<1>1. TypeInv'
  BY TypeNext DEF LeaseInv
<1>2. ASSUME NEW w \in Workers, WorkerStep(w)
      PROVE  (DrivesUnderLease /\ NoLeaseLeftBehind)'
  <2>1. Disciplined(w) /\ Frame(w)
    BY <1>2, WorkerDiscipline, WorkerTypes DEF LeaseInv
  <2>2. \A v \in Workers \ {w} : pc'[v] = pc[v]
    BY <2>1 DEF Frame, Same
  <2> QED
    BY <2>1, <2>2 DEF Disciplined, LeaseInv, Leased, DrivesUnderLease,
       NoLeaseLeftBehind, Driving, At
<1>3. CASE Lapse
  BY <1>1, <1>3 DEF Lapse, Expire, LeaseInv, Leased, TypeInv, TypeOK,
     GhostTypes, locals, DrivesUnderLease, NoLeaseLeftBehind, Driving, At
<1>4. CASE UNCHANGED vars
  BY <1>1, <1>4 DEF vars, outside, ghosts, LeaseInv, Leased,
     DrivesUnderLease, NoLeaseLeftBehind, Driving, At
<1> QED
  BY <1>1, <1>2, <1>3, <1>4 DEF Next, Rest, WorkerStep, LeaseInv

\* Until a lease has lapsed under the call that held it, a driving call holds
\* its lease; and whatever happens, a lease that names a worker is one its call
\* is still to release (execute.go:140-155, 589-603).
THEOREM LeaseCorrect == Spec => [](DrivesUnderLease /\ NoLeaseLeftBehind)
<1>1. Init => LeaseInv
  BY LeaseInit
<1>2. LeaseInv /\ [Next]_vars => LeaseInv'
  BY LeaseNext
<1>3. LeaseInv => DrivesUnderLease /\ NoLeaseLeftBehind
  BY DEF LeaseInv
<1> QED
  BY <1>1, <1>2, <1>3, PTL DEF Spec

\* So until then two workers are never both driving the execution
\* (lock.go:13-17).
THEOREM Exclusion == Spec => []MutualExclusion
<1>1. DrivesUnderLease => MutualExclusion
  BY DEF DrivesUnderLease, MutualExclusion
<1> QED
  BY <1>1, LeaseCorrect, PTL

\* No call returns with its lease, on whatever path it leaves, even where leases
\* lapse under live owners (execute.go:147-155).
THEOREM LeasesAreReturned == Spec => []NoLeaseLeftBehind
<1>1. DrivesUnderLease /\ NoLeaseLeftBehind => NoLeaseLeftBehind
  OBVIOUS
<1> QED
  BY <1>1, LeaseCorrect, PTL

===============================================================================
