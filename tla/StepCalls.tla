------------------------------- MODULE StepCalls ------------------------------
(***************************************************************************)
(* The calls of one execution under a clock: the definition is built step  *)
(* by step (definition.go, step.go), and then each step's Action is        *)
(* attempted under its RetryPolicy and its timeouts, and each Compensate   *)
(* called once (execute.go, retry.go).  Actions and Compensates pass their *)
(* OperationID (idempotency.go) to a gateway that remembers the keys it    *)
(* has processed (examples/payment).                                       *)
(*                                                                         *)
(* Time passes while the engine is in an Action or a Compensate, or waits  *)
(* between two attempts, and a deadline fires before time goes on past it. *)
(* Saves succeed, and no one else wants the lease: SagaEngine has the      *)
(* faults of the store and the other workers.                              *)
(***************************************************************************)
EXTENDS RetryPolicy, Sequences, SagaStatus

CONSTANTS
  Menu,           \* the arguments of AddStep
  Unset,          \* a step without a RetryPolicy of its own
  SagaPolicy,     \* the saga's RetryPolicy
  SagaTimeout,    \* WithTimeout; 0 is none
  LockTTL,        \* WithLockTTL
  ActionTime,     \* bound: the time an Action or a Compensate takes at most
  MaxSteps,       \* bound: steps added
  MaxCrashes      \* bound: crashes, each followed by a Recover

\* A name is a sequence of parts, joined by "/"; a blank one has none.
StepDefinitions ==
  [name : Seq(STRING), compensable : BOOLEAN, timeout : Nat,
   policy : {Unset} \cup Policies]

ASSUME CallsAssumption ==
  /\ Menu \subseteq StepDefinitions
  /\ SagaPolicy \in Policies
  /\ {SagaTimeout, LockTTL, ActionTime, MaxSteps, MaxCrashes} \subseteq Nat

VARIABLES
  defn,        \* the steps of the definition
  frozen,      \* Freeze has been called
  status,      \* the status of the execution
  steps,       \* the statuses of its steps
  pc,          \* where the engine stands
  at,          \* the step in hand
  attempt,     \* its attempts by this call
  delay,       \* the delay before the next one
  cause,       \* "live", or why the context of the call ended
  stepCause,   \* the same for the context of the attempt
  clock,       \* time since the Action, the Compensate or the wait began
  sagaClock,   \* time since the call began
  leaseAge,    \* time since the lease was acquired or renewed
  charged,     \* the keys that the gateway has processed
  carried,     \* how often it has carried out each operation
  crashes

definition == <<defn, frozen>>
timers == <<cause, stepCause, clock, sagaClock, leaseAge>>
gateway == <<charged, carried>>
vars == <<definition, status, steps, pc, at, attempt, delay, timers, gateway,
          crashes>>

Steps == 1..Len(defn)

\* The operations that are asked of the gateway.
Operations == (1..MaxSteps) \X {"do", "undo"}

PolicyOf(i) == IF defn[i].policy = Unset THEN SagaPolicy ELSE defn[i].policy

TypeOK ==
  /\ defn \in Seq(Menu) /\ frozen \in BOOLEAN
  /\ status \in {"PENDING", "RUNNING", "COMPENSATING", "DONE"}
  /\ steps \in [IF pc = "build" THEN {} ELSE Steps -> StepStatus]
  /\ pc \in {"build", "next", "attempt", "acting", "waiting", "undoing", "idle"}
  /\ at \in 0..Len(defn)
  /\ attempt \in 0..(IF at = 0 THEN 0 ELSE MaxAttempts(PolicyOf(at)))
  /\ delay \in Durations
  /\ cause \in {"live", "cancelled", "sagaTimeout"}
  /\ stepCause \in {"live", "outer", "stepTimeout"}
  /\ clock \in Nat /\ sagaClock \in 0..SagaTimeout /\ leaseAge \in 0..LockTTL
  /\ carried \in [Operations -> 0..2]
  /\ crashes \in 0..MaxCrashes

Init ==
  /\ defn = <<>> /\ frozen = FALSE
  /\ status = "PENDING" /\ steps = <<>>
  /\ pc = "build"
  /\ at = 0 /\ attempt = 0 /\ delay = 0
  /\ cause = "live" /\ stepCause = "live"
  /\ clock = 0 /\ sagaClock = 0 /\ leaseAge = 0
  /\ charged = {} /\ carried = [op \in Operations |-> 0]
  /\ crashes = 0

-------------------------------------------------------------------------------
(***************************************************************************)
(* The definition.                                                         *)
(***************************************************************************)
\* Mutant: a name may be used twice.
AddStepAgain(s) ==
  /\ pc = "build" /\ ~frozen /\ Len(defn) < MaxSteps
  /\ s.name # <<>>
  /\ defn' = Append(defn, s)
  /\ UNCHANGED <<frozen, status, steps, pc, at, attempt, delay, timers, gateway,
                 crashes>>

\* Anything else than a new step with a name panics, and changes nothing.
AddStep(s) ==
  /\ pc = "build" /\ ~frozen /\ Len(defn) < MaxSteps
  /\ s.name # <<>>
  /\ \A i \in Steps : defn[i].name # s.name
  /\ defn' = Append(defn, s)
  /\ UNCHANGED <<frozen, status, steps, pc, at, attempt, delay, timers, gateway,
                 crashes>>

Freeze ==
  /\ pc = "build" /\ ~frozen
  /\ frozen' = TRUE
  /\ UNCHANGED <<defn, status, steps, pc, at, attempt, delay, timers, gateway,
                 crashes>>

\* Mutant: the key tells the attempts apart.
KeyPerAttempt(op) ==
  LET name == Append(defn[op[1]].name, attempt)
  IN IF op[2] = "do" THEN name ELSE Append(name, "compensate")

\* The keys of the operations on a step.  They start with the ID of the
\* execution, which is left out: there is one.
Key(op) ==
  LET name == defn[op[1]].name
  IN IF op[2] = "do" THEN name ELSE Append(name, "compensate")

-------------------------------------------------------------------------------
(***************************************************************************)
(* The engine.                                                             *)
(***************************************************************************)
\* A saved change of the record renews the lease.
Renew == leaseAge' = 0

Rest == <<definition, gateway, crashes>>

\* Execute, up to the first step; it freezes the definition.
Execute ==
  /\ pc = "build"
  /\ frozen' = TRUE
  /\ status' = "RUNNING"
  /\ steps' = [i \in Steps |-> "PENDING"]
  /\ pc' = "next" /\ at' = IF defn = <<>> THEN 0 ELSE 1
  /\ UNCHANGED <<defn, attempt, delay, timers, gateway, crashes>>

StartStep ==
  /\ pc = "next" /\ status = "RUNNING" /\ cause = "live"
  /\ at \in Steps /\ steps[at] \in {"PENDING", "RUNNING"}
  /\ steps' = [steps EXCEPT ![at] = "RUNNING"]
  /\ leaseAge' = IF steps[at] = "PENDING" THEN 0 ELSE leaseAge
  /\ pc' = "attempt"
  /\ UNCHANGED <<Rest, status, at, attempt, delay, cause, stepCause, clock,
                 sagaClock>>

\* Mutant: the attempts are counted on for the next step.
ConcludeCounting(s, i) ==
  /\ steps' = [steps EXCEPT ![at] = s]
  /\ at' = i
  /\ pc' = "next"
  /\ stepCause' = "live" /\ clock' = 0
  /\ Renew
  /\ UNCHANGED <<status, attempt, delay, cause, sagaClock>>

\* The step ends as s, and the loop goes on at step i.
Conclude(s, i) ==
  /\ steps' = [steps EXCEPT ![at] = s]
  /\ at' = i
  /\ attempt' = 0
  /\ pc' = "next"
  /\ stepCause' = "live" /\ clock' = 0
  /\ Renew
  /\ UNCHANGED <<status, delay, cause, sagaClock>>

FailStep == Conclude("FAILED", at)

\* runStep finds the context ended.
GiveUpStep ==
  /\ pc = "attempt" /\ cause # "live"
  /\ FailStep
  /\ UNCHANGED Rest

Invoke ==
  /\ pc = "attempt" /\ cause = "live"
  /\ attempt' = attempt + 1
  /\ pc' = "acting" /\ stepCause' = "live" /\ clock' = 0
  /\ UNCHANGED <<Rest, status, steps, at, delay, cause, sagaClock, leaseAge>>

Asked == <<at, IF pc = "acting" THEN "do" ELSE "undo">>

\* The gateway processes a key it has not seen.
Charge ==
  /\ pc \in {"acting", "undoing"}
  /\ Key(Asked) \notin charged
  /\ charged' = charged \cup {Key(Asked)}
  /\ carried' = [carried EXCEPT ![Asked] = @ + 1]
  /\ UNCHANGED <<definition, status, steps, pc, at, attempt, delay, timers,
                 crashes>>

\* Mutant: what an Action returns counts, however late.
LateNever == FALSE

\* callAction discards what comes back after the attempt's own timeout.
Late == stepCause = "stepTimeout"

\* Mutant: one attempt too many.
AttemptsLeftInclusive == attempt <= MaxAttempts(PolicyOf(at))

AttemptsLeft == attempt < MaxAttempts(PolicyOf(at))

\* An Action succeeds once the gateway has processed its key.
ActionSucceeds ==
  /\ pc = "acting" /\ Key(Asked) \in charged
  /\ ~Late /\ cause # "sagaTimeout"
  /\ Conclude("SUCCEEDED", IF at = Len(defn) THEN at ELSE at + 1)
  /\ UNCHANGED Rest

\* Mutant: the delay is that before the attempt just made.
WaitTooShort ==
  /\ pc' = "waiting" /\ stepCause' = "live" /\ clock' = 0
  /\ delay' \in IF attempt = 1 THEN {0} ELSE Delays(PolicyOf(at), attempt)
  /\ UNCHANGED <<status, steps, at, attempt, cause, sagaClock, leaseAge>>

Wait ==
  /\ pc' = "waiting" /\ stepCause' = "live" /\ clock' = 0
  /\ delay' \in Delays(PolicyOf(at), attempt + 1)
  /\ UNCHANGED <<status, steps, at, attempt, cause, sagaClock, leaseAge>>

\* It fails, for good (NonRetryable) or not; or what it returned is discarded.
ActionFails ==
  /\ pc = "acting"
  /\ \E nonRetryable \in BOOLEAN :
       LET retried == /\ cause = "live" /\ AttemptsLeft
                      /\ Late \/ ~nonRetryable
       IN (retried /\ Wait) \/ (~retried /\ FailStep)
  /\ UNCHANGED Rest

\* sleepOrDone.
Wake ==
  /\ pc = "waiting" /\ clock >= delay
  /\ delay > 0 \/ cause = "live"
  /\ pc' = "attempt" /\ delay' = 0
  /\ UNCHANGED <<Rest, status, steps, at, attempt, timers>>

WaitCut ==
  /\ pc = "waiting" /\ cause # "live"
  /\ FailStep
  /\ UNCHANGED Rest

Failed == \E i \in Steps : steps[i] = "FAILED"
AllSucceeded == \A i \in Steps : steps[i] = "SUCCEEDED"

Complete ==
  /\ pc = "next" /\ status = "RUNNING" /\ AllSucceeded
  /\ status' = "DONE" /\ pc' = "idle"
  /\ Renew
  /\ UNCHANGED <<Rest, steps, at, attempt, delay, cause, stepCause, clock,
                 sagaClock>>

Abort ==
  /\ pc = "next" /\ status = "RUNNING"
  /\ Failed \/ (cause # "live" /\ ~AllSucceeded)
  /\ \/ /\ \E i \in Steps : steps[i] = "SUCCEEDED"
        /\ status' = "COMPENSATING" /\ UNCHANGED pc
     \/ /\ ~\E i \in Steps : steps[i] = "SUCCEEDED"
        /\ status' = "DONE" /\ pc' = "idle"
  /\ Renew
  /\ UNCHANGED <<Rest, steps, at, attempt, delay, cause, stepCause, clock,
                 sagaClock>>

ToUndo ==
  {i \in Steps : defn[i].compensable /\ steps[i] \in {"SUCCEEDED", "COMPENSATING"}}

\* Compensate is called under a context that does not end.
Undo(i) ==
  /\ pc = "next" /\ status = "COMPENSATING"
  /\ i \in ToUndo /\ \A j \in ToUndo : j <= i
  /\ steps' = [steps EXCEPT ![i] = "COMPENSATING"]
  /\ leaseAge' = IF steps[i] = "SUCCEEDED" THEN 0 ELSE leaseAge
  /\ pc' = "undoing" /\ at' = i /\ clock' = 0
  /\ UNCHANGED <<Rest, status, attempt, delay, cause, stepCause, sagaClock>>

CompensateReturns ==
  /\ pc = "undoing"
  /\ \E s \in {"COMPENSATED", "COMPENSATION_FAILED"} :
       /\ s = "COMPENSATED" => Key(Asked) \in charged
       /\ Conclude(s, at)
  /\ UNCHANGED Rest

Settle ==
  /\ pc = "next" /\ status = "COMPENSATING" /\ ToUndo = {}
  /\ status' = "DONE" /\ pc' = "idle"
  /\ Renew
  /\ UNCHANGED <<Rest, steps, at, attempt, delay, cause, stepCause, clock,
                 sagaClock>>

-------------------------------------------------------------------------------
(***************************************************************************)
(* Time, the caller, and crashes.                                          *)
(***************************************************************************)
StepDue ==
  /\ pc = "acting" /\ stepCause = "live"
  /\ defn[at].timeout > 0 /\ clock >= defn[at].timeout

SagaDue ==
  /\ status = "RUNNING" /\ cause = "live"
  /\ SagaTimeout > 0 /\ sagaClock >= SagaTimeout

UpTo(n, bound) == IF n < bound THEN n + 1 ELSE n

Tick ==
  /\ pc \in {"acting", "waiting", "undoing"}
  /\ clock < IF pc = "waiting" THEN delay ELSE ActionTime
  /\ ~StepDue /\ ~SagaDue
  /\ clock' = clock + 1
  /\ sagaClock' = UpTo(sagaClock, SagaTimeout)
  /\ leaseAge' = UpTo(leaseAge, LockTTL)
  /\ UNCHANGED <<Rest, status, steps, pc, at, attempt, delay, cause, stepCause>>

StepDeadline ==
  /\ StepDue
  /\ stepCause' = "stepTimeout"
  /\ UNCHANGED <<Rest, status, steps, pc, at, attempt, delay, cause, clock,
                 sagaClock, leaseAge>>

\* The context of the call ends, and with it that of the attempt, if it lives.
\* Nothing looks at it once the saga turns back.
EndContext(why) ==
  /\ status = "RUNNING" /\ cause = "live"
  /\ cause' = why
  /\ stepCause' = IF pc = "acting" /\ stepCause = "live" THEN "outer"
                   ELSE stepCause
  /\ UNCHANGED <<Rest, status, steps, pc, at, attempt, delay, clock, sagaClock,
                 leaseAge>>

SagaDeadline == SagaDue /\ EndContext("sagaTimeout")

Cancel == EndContext("cancelled")

\* The process dies, and once the lease has run out Recover resumes.
Crash ==
  /\ pc \notin {"build", "idle"} /\ crashes < MaxCrashes
  /\ crashes' = crashes + 1
  /\ pc' = "next" /\ attempt' = 0 /\ delay' = 0
  /\ cause' = "live" /\ stepCause' = "live"
  /\ clock' = 0 /\ sagaClock' = 0 /\ Renew
  /\ UNCHANGED <<definition, status, steps, at, gateway>>

-------------------------------------------------------------------------------
Build == Freeze \/ Execute \/ \E s \in Menu : AddStep(s)

Forward ==
  \/ StartStep \/ GiveUpStep \/ Invoke
  \/ ActionSucceeds \/ ActionFails
  \/ Wake \/ WaitCut \/ Complete

Backward ==
  \/ Abort \/ CompensateReturns \/ Settle
  \/ \E i \in Steps : Undo(i)

Outside ==
  \/ Charge \/ Tick \/ StepDeadline \/ SagaDeadline \/ Cancel \/ Crash

\* The execution is at its end.
Stop == pc = "idle" /\ UNCHANGED vars

Next == Build \/ Forward \/ Backward \/ Outside \/ Stop

Spec == Init /\ [][Next]_vars

===============================================================================
