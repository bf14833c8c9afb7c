# A TLA+ development of go-orchestrator

`saga` is a Go library that runs a *saga*: a list of steps, each with an
`Action` and perhaps a `Compensate`, executed in order, compensated in reverse
order when one of them fails, and resumed after a crash from a record saved in a
`Store`. This directory models the library's engine and its recovery, checks the
models with TLC and proves theorems about them with TLAPS.

Paths and line numbers refer to the repository's root (`src/` in PROJECT.json).

## 1. Inventory

| part | source | state | operations | talks to |
|---|---|---|---|---|
| status machines | `status.go`, `step_status.go`, `transitions.go` | the two transition tables | `canTransitionStatus`, `canTransitionStepStatus` | engine |
| execution record | `execution.go`, `step_execution.go` | status, steps' statuses, attempts | `transition`, `Clone` | engine, store |
| engine | `execute.go` | per call: the copy of the record, the step in hand, the attempt, `failedAt`, the context, the lock owner | `Execute`, `resume`, `resumeRunning`, `runStep`, `callAction`, `sleepOrDone`, `abort`, `resumeCompensating`, `finishCompensating`, `compensate`, `transitionExec/Step`, `save`, `notifyExec/Step` | store, locker, user code, observers, timers |
| recovery | `recovery.go` | policy, registered sagas | `Recover` | lister, engine |
| store and lock contracts | `store.go`, `lock.go` | the saved record, the lease | `Save`, `Get`, `ListIncomplete`, `Acquire`, `Release` | engine, recovery |
| memory store | `store/memory/memory.go` | two maps behind one mutex | the same, with `Clone` in and out | the clock |
| retry policies | `retry.go` | - | `MaxAttempts`, `Delay`; the four constructors | engine |
| operation IDs | `idempotency.go` | - | `operationID`, `compensationOperationID` | user code, downstream |
| definition, steps, options | `definition.go`, `step.go`, `options.go` | the steps, `frozen` | `AddStep`, `Freeze` | engine |
| events, observers | `events.go`, `observability.go` | - | `Publish`, metrics, logger, tracer | engine |
| errors, IDs | `errors.go`, `internal/idgen` | - | - | everything |
| examples | `examples/` | - | three programs | - |

How they interact: a process calls `Execute` (a new execution) or `Recover` (all
incomplete ones, one after the other). Both end in `resume`, which takes the
execution's lease if the store has leases, branches on the status of its copy of
the record, and drives the copy to a terminal status. Every change of a status
goes through `transitionExec` or `transitionStep`: change the copy, renew the
lease, save the copy, tell the observers. User code is called between two such
changes. The lease is given back by a deferred call on every way out.

What is hard here: processes crash between any two of these calls; a store call
may fail having done its work or not; contexts end at any time, by
cancellation, by the saga's timeout or by a step's, and race with the return of an
`Action`; several workers recover the same execution; a lease may lapse under a
live owner; the copy a recovery starts from may be old; a sweep over many
executions may be cut, cancelled or brought down by a panic at any of them; the
program, and with it the definitions, may change between two processes; observers
panic; delays overflow. PROJECT.json lists the hazards one by one, at their lines,
with the properties that cover them.

What makes the parts correct:

* *record*: only lawful transitions; steps start in order; compensation runs
  backwards, never touches a step without a `Compensate` or one that did not
  succeed, and is complete when the status says so; the status tells the truth
  about the steps.
* *engine*: never asks for an unlawful transition; the record never claims more
  than what happened in the world; an event is final; what a call reports is what
  the store holds; calls return.
* *lease*: one driver at a time until a lease has run out under its owner; no lease
  survives its call except by a crash or a lost `Release`.
* *recovery*: every execution is brought to a terminal status as long as somebody
  keeps calling `Recover`; under `RecoverSkipInFlight` nothing is guessed; a step of
  unknown outcome is only left behind by a call whose context has ended.
* *sweep*: `Recover` answers for what it listed, once each and in order;
  nothing is rolled back without a cause; a changed definition or a panic costs no
  more than it must.
* *observers*: an event is told after its transition is durable, in order, never
  twice, and is lost only by a fault.
* *calls*: one key, so one effect, per operation, through retries and recovery; no
  success after its deadline; no attempt before its delay; a lease that outlives
  the longest step.
* *memory store*: what is saved does not change but by a `Save`, whatever callers do to
  the executions they hold; a lease excludes others for exactly the time it was
  granted for, unless its holder gives it up before.
* *the whole*: with idempotent steps a settled saga has left all of its effects
  behind, or none that could be undone.

## 2. Modules

| module | what it is |
|---|---|
| `SagaStatus` | the statuses and the two transition tables, as in the code |
| `SagaExecution` | the record, and the questions the engine asks of it: where to resume, what `failedAt` was, what is left to undo, what the outcome is |
| `LeasedStore` | the store and the lease as the interfaces promise them |
| `SagaEngine` | engine and recovery: one action per point at which the code calls out |
| `SagaContract` | the abstract specification: the durable statuses and nothing else |
| `SagaProperties` | the properties, and the refinement mapping to `SagaContract` |
| `MCSagaEngine` | the module the configurations of the engine run |
| `SagaObservers` | what publishers and `Metrics` hear of an execution: history variables over `SagaEngine`, and their properties |
| `MCSagaObservers` | the module of the run `solo_atomic` |
| `RecoverySweep` | one process: `Recover` over several executions and sagas, and a program that changes between its processes |
| `SweepProperties` | its properties, and each execution as an instance of `SagaContract` |
| `MCRecoverySweep` | the instance of the run `sweep` |
| `RetryPolicy` | the delays, with integers of a given width |
| `StepCalls` | the definition, and the calls of one execution under a clock: attempts, waits, deadlines, keys |
| `StepProperties` | its properties |
| `MCStepCalls` | the instance of the run `step_calls` |
| `MemoryStore` | the in-memory store: heap, both maps, clock; its properties and its lock as an instance of `LeasedStore` |
| `MCMemoryStore` | the module the configuration of the memory store runs |
| `SagaEngineProofs` | theorems: types, the lease, mutual exclusion |
| `SagaShapeProofs` | theorems: every saved record is well formed, no unlawful transition |
| `SagaSoloProofs` | theorems for calls that do not overlap: record, world and events fit each other, the store follows `SagaContract` |
| `SagaOutcomeProofs` | theorems: what can be concluded from an outcome |
| `SagaObserversProofs` | theorems: who hears what, that it is final and in order, and what it takes to miss it |
| `MemoryStoreProofs` | theorems: what is saved stays saved, the leases implement the locks |
| `RecoverySweepProofs` | theorems: the order of a sweep's answers, what completed means, who panics, what is rolled back, and that every execution goes through `SagaContract` |
| `StepCallsProofs` | theorems: one effect per operation, no late success, reports are true; the delays, the spacing of attempts and the lease |

`SagaEngine` extends `SagaExecution` (which extends `SagaStatus`) and `LeasedStore`:
the engine is modelled over the store's interface. `MemoryStore` is the reference
implementation of that interface and instantiates `LeasedStore` once per execution
ID. `SagaObservers` extends `SagaEngine` by what is heard. `RecoverySweep` and
`StepCalls` look at the same engine from further away and from closer up: the one
from one save to the next, for many executions; the other from one call of user
code to the next, with time. `RecoverySweep` is tied to the core by `SagaContract`,
which `SagaEngine` implements for one worker and every execution of a sweep
implements too.

### SagaEngine and the code

A *worker* is a goroutine (of one process or of several) that is idle or inside
one `Execute` or `Recover` of the execution. `pc` is the point its call has
reached, `next` the point at which it goes on once the transition it is persisting
has been saved; the other variables of a worker are the locals of the code: `exec`
is its `*Execution`, `cur` the loop index, `failedAt` the bound that `compensate`
gets, `attempt` the loop variable of `runStep`, `ctx` its context, `result` what
the call is about to return.

| code | actions, with the `pc` they leave |
|---|---|
| `Execute` | `Execute` (idle), `SaveInitial` (create) |
| `Recover` | `Recover` (idle): list, policy, copy |
| `resume` | `AcquireLease` (acquire); then by status `BeginRun`, `ResumeFailedStep`, `ResumeForward`, `ResumeCompensating` (resume); `Release` (release) |
| `resumeRunning` | `StartStep`, `RetryInterruptedStep`, `StopForward`, `FinishRun` (forward) |
| `runStep`, `callAction`, `sleepOrDone` | `Invoke`, `GiveUpStep` (attempt), `ActionReturns` (acting), `Backoff` (backoff) |
| `abort` | `AbortFailed`, `AbortCompensating` (abort) |
| `finishCompensating`, `compensate` | `Rollback` (rollback), `UndoStep`, `FinishRollback` (undo), `InvokeCompensate` (compensate), `UndoReturns` (undoing) |
| `save` | `RenewLease` (renew), `Save` (save) |
| `notifyExec`, `notifyStep` | `Notify` (notify) |

`TransitionExec` and `TransitionStep` are the functions of the same name: the
check against the table, the panic if it refuses, and the way through renew, save
and notify. Everything between two calls out is one step, since nothing else sees
the copy in between.

The environment (`Crash`, `PanicInStep`, `PanicInObserver`, `ContextEnds`,
`Lapse`, and the errors of store and locker) does what the constant `Env` lets it do.
A crash forgets
the worker's locals, leaves its lease to nobody (`Orphan`) and makes the worker
start with a `Recover`, as the README of the library asks. A store or locker call
that fails may have done its work (`WriteFails`). A *ctxStore* store or locker refuses
calls whose context has ended and does nothing (`Refuses`); the memory store does not. A
call whose first save or `Acquire` fails or is refused returns before the `Release` has
been deferred (`Leave`, `execute.go:100-101, 146-151`); every other way out leads
through `Release`. A lease that nobody will renew lapses at any time and for nothing; one
that runs out under its call is a fault, and `lapsed` remembers it. `Execute` waits for the worker's first
`Recover`, which is the startup order that the library's README describes;
without an incomplete execution that `Recover` does nothing, so nothing else is
excluded by it.

`world` is what the steps' effects look like downstream, seen by nobody but the
properties. `ActionApplies` and `UndoApplies` are steps of the downstream system:
an effect may come into place at any time during the call, or not at all, and the
call may return an error in either case. With `Idempotent` the steps are assumed to
use their `OperationID` as the library's README asks and to be atomic: a repeated
call of what was done reports success, an error means the effect is not in place,
and an `Action` whose effect has been undone does not bring it back.

Left out: names, payloads, error texts, timestamps, log lines and spans; durations
(a timeout, a backoff, a TTL may pass at any time); `CurrentStep`, which nothing
reads; the sort and the sequence of several executions in one `Recover`, which
`RecoverySweep` has.

### SagaObservers and the code

`ObservedNext` is the next-state relation of `SagaEngine`, each step with what it makes
the audiences hear: the publishers of a `MultiPublisher` in their order, and
the `Metrics`. `SagaEventType` and `StepEventType` are the two vocabularies. `EventAt(w)` is
the event of the transition that `w` has just saved; the engine's `next` tells
whether it is one of a step. Only a step that leaves `notify` is heard (`Announce`): all of
`publish`, `logEvent` and `incEventCounter` happen in it, a publisher's panic ends
the round of the publishers (`Round`), the engine's `PanicInObserver` is a Logger
that panics before the `Metrics` are called or `Metrics` that do so afterwards.
The Logger hears exactly what the first publisher hears.

### RecoverySweep and the code

One process works on one execution at a time, so there is one `pc`. `Recover` is
the call of the `Lister`; `IsNext` is the loop over the sorted list; `ReportUnregistered`,
`Skip` and `Resume` are the three ways through its body, and `Finish` the return of
`resume`. `answers` are the `RecoveryResult`s. The engine's actions are those of
`SagaEngine` with everything between two saves taken together; `Act` is `runStep`.

`Definitions[v][x]` is the number of steps that version `v` of the program gives
the saga of execution `x`, or `Unregistered`. The code matches the record and the
definition by index alone: `Complete` and `Comes` end the loop with the
definition's steps (`execute.go:212`), `IsFrontier` goes by the record's, and
`OutOfRange` is where the two do not fit: `exec.Steps[i]` (`execute.go:222`) of a
definition that has become longer, `rs.steps[i]` (`execute.go:504`) of one that has
become shorter. `Panic` is that, or an `Action` that panics (`Poison`): it goes up
through `Recover`, which does not recover, and the process starts again.

Other workers are left out here, and so are executions that are created during a
sweep: a sweep does not look at them. The store does not honour contexts.

### RetryPolicy, StepCalls and the code

A policy is a record: `FixedDelay` is an exponential one whose base is its cap,
`NoRetry` one of a single attempt, and the jitter, in hundredths, is 0 unless
`WithJitter` sets it. `Rounds(p)[j]` is the delay after `j` rounds of the loop of
`exponentialBackoffPolicy.Delay`, the product wrapped to `Width` bits, and `Backoff`
what the method returns; `Delays` is the set of what the jitter may make of it, with
both ends of the range for a conversion that overflows. `Policies` are the policies
there can be, negative bases and caps among them. The loop and the powers of two are
recursive functions, so that the prover can reason about them.

`StepCalls` first builds a definition (`AddStep`, `Freeze`, `Execute`), then runs it. The
clocks count from the last call or wait, from the start of the call (for `WithTimeout`)
and from the last renewal of the lease, and saturate where nothing tells later
values apart. `Tick` lets time pass only inside an `Action`, a `Compensate` or a
wait, and not past a deadline that has not fired; `StepDeadline` and `SagaDeadline` fire at
any later moment before the next tick. `cause` and `stepCause` are `context.Cause` of
the call's context and of the attempt's: whichever came first stays. `Charge` is
the gateway of `examples/payment`, which the `Action`s and `Compensate`s call with
their `OperationID`, at most once and at any moment of the call; an error, with or without
`NonRetryable`, may follow in either case. A name is a sequence of parts that are
joined by `/`, so that the key of a `Compensate` is its step's name and one more part.

Left out: failing saves, other workers, and an `Action` that goes on past
`ActionTime`, for which `SagaEngine` has a lapsing lease.

### MemoryStore and the code

The mutex makes every operation one step. `heap` and `arrays` are the Go heap: an
`Execution` is a cell with a status and with the address of the array behind its
`Steps`, so that copying the struct and cloning it differ. `held` are the pointers
callers have; `Settle` ends each step and forgets what nobody points to. `Build`,
`Transition`, `TransitionStep` and `Drop` are what the engine does with an execution
of its own. `Clones` and `ClonedArrays` are `Clone`, with the timestamps counted to
the array. `leases` holds an owner and an expiry as in the code, `now` is the clock.
`saved` (what each last `Save` was given) and `granted` (until when each owner was told
it holds the lease) are history variables, read by the properties only.

`Holder(id)` maps the map of leases to the lease of `LeasedStore`: the owner as long
as the expiry has not been reached, and otherwise nobody. An owner ID stands for a
call here, so the mapped lease is never `Orphan`: a call that is gone is a caller
that does not come back.

Left out: `Input` and `Output`, which `Clone` shares on purpose and says so; a nil
execution, an empty ID and a `Get` of an unknown ID, which are errors and change
nothing.

## 3. Runs

All runs of the engine are instances of `MCSagaEngine`, or of `MCSagaObservers` over it,
and differ in what the environment may do. Deadlock is checked in each of them; `Rest`
lets a system rest whose workers are all idle, so that a call that cannot go on is found
as a deadlock.

| run | bounds | shows |
|---|---|---|
| `solo_recovery` | 1 worker, 4 steps (1 and 3 compensable), 2 attempts, recoveries under either policy, 2 faults of any kind except a lapse; 0.8M states | the record never misrepresents the world (`RecordMatchesWorld`), an announced outcome is the durable one (`EventIsFinal`), the engine implements `SagaContract` (`KeepsContract`), `RecoverSkipInFlight` repeats nothing (`NothingGuessed`), only a call whose context has ended leaves a step of unknown outcome behind (`AbandonedByContext`) |
| `solo_atomic` | the same saga with 1 attempt, 2 faults, idempotent steps, no locker, no deadline and no cancellation; 2 publishers, 1 round cut short by a publisher's panic; 0.4M states | `AllOrNothing`; what observers hear is final (`EventsAreFinal`), told once and in order (`ToldInOrder`), lost only by a fault (`LossesAreFaults`), and never to those before a broken one (`EarlierHearsMore`) |
| `duo` | 2 workers, 2 steps, idempotent steps, 1 fault: a crash, an error, a panicking step or a lease that runs out under its call; fairness; 0.4M states | `TypeOK`, `RecordShape`, `NoEnginePanic`, `CallsAreReady`, `NoLeaseLeftBehind`; until a lease has run out, `MutualExclusion`, `DrivesUnderLease`, `ToldIsDurable`; `EventuallySettled`, `CallReturns` |
| `memory_store` | 2 callers, 1 ID, 3 addresses, statuses up to `COMPLETED` and a step up to `RUNNING`, TTLs 1 and 2, clock up to 3 | `TypeOK`, `Persisted`, `OneRecordMoves`, `OneHolder`, `RefusalIsWarranted`, `LockRefined` |
| `sweep` | 3 executions of up to 3 steps, 2 versions of the program (one cautious, one without the first's saga, one of whose definitions is shorter), 1 panicking `Action`, 1 crash or store error, leases left behind, cancellation, timeouts, fairness; 0.35M states | `TypeOK`, `AnswersInOrder`, `CompletedMeans`, `PanicsByDrift`; `RollbackHasCause`, `KeepsContracts`, `EventuallyReached` |
| `step_calls` | up to 3 of 5 steps (2 of which `AddStep` refuses), durations of 4 bits, an `Action` of up to 2 ticks, step timeouts 1 and 2, saga timeout 22, TTL 21, 1 crash; 1.3M states | `TypeOK`, `OncePerOperation`, `ReportedIsDone`, `BackoffIsExact`, `LeaseOutlivesBudget`; `Timely`, `AttemptsSpaced` |
| `stale_snapshot` | 2 workers, no fault at all | refutes `NeverRecompensates` |
| `ctx_store` | 1 worker, no locker, cancellation, a store that honours contexts, no other failure | refutes `CancelledCallCompensates` |
| `startup_once` | 1 worker, 1 crash, `Recover` once per start, fairness | refutes `EventuallySettled` |
| `late_success` | 1 worker, a step timeout | refutes `FailedStepHadNoEffect` |
| `shared_key` | the steps of `step_calls`, up to 2 of them, no crash | refutes `CompensatedIsUndone` |
| `long_backoff` | 1 step of 3 attempts, durations of 4 bits, delays from 4, capped at 7, the longest one | refutes `DelaysAreKept` |

Why the bounds are enough. Four steps with two compensable ones that are not
adjacent is the smallest saga in which a compensation skips a step between two
others, has one after it to undo first and a failing step behind it. Two attempts
separate the first, the last and the one in between a retry. Two faults in a solo
run let a crash fall into the recovery from another fault; invocations need only be
counted up to one to see a second round begin. Two workers are all there is to a race
for one lease, and one fault is what it takes to part a lease from its call: a lease that
runs out under its call lets both drive, and overwrite each other. What is proved (below)
holds for any number of workers, steps, attempts and faults.

Three addresses are the map's execution and two that callers hold, of one caller or of
two: every way in which two of them could share an array. A clock up to 3 lets a
lease of either length lapse and another be granted, renewed and released. The
proofs about the memory store have none of these bounds.

Three executions are one in hand, one behind it and one before it, in an order
that is not the one of their IDs; two of them are created at the same moment. The two
versions differ in every way the engine can notice: a saga that is not registered, a
definition that is longer than a record, one that is shorter, another policy. With
4 bits the longest duration is 7 ticks: `BackoffIsExact` goes through every base, every
cap and every attempt up to two doublings past the width, which is every path
through the loop; nothing in it depends on the width being 64. In `step_calls` a
retried step has two, three and four attempts in all, one of its delays overflows by
doubling and one by jitter; one policy has a negative base, which wraps to a positive
delay; and the TTL is above the budget of some steps and below that of others.

Fairness. `Engine(w)`: a goroutine that can go on is scheduled, store calls and
user code return, and timers fire; `Recover(w)`: with `resweep` in `Env`, somebody
calls `Recover` again and again, which is the caller's part (without it the
property fails, see `startup_once`); and the lease of a process that is gone
expires. Nothing is assumed of faults, of new executions, or of effects
downstream. In `RecoverySweep` the same three: the sweep and the engine go on,
`Recover` is called again, a lease left behind expires. `EventuallyReached` is about the
executions that have nothing deadly sorted before them; nothing more holds, since a panic
ends the process at the same execution every time.

### What the refuting runs show

* `stale_snapshot`. `Recover` lists the incomplete executions first and resumes
  the listed copies later (`recovery.go:125, 151`); `resume` takes the lease but
  does not read the record again (`execute.go:145`). A worker that listed before
  another one finished, and takes the lease after it has been released, starts from
  the old copy: it compensates again what the store records as compensated, and
  overwrites a terminal record. No fault is needed. `README.md:155-156` promises
  that a compensated step is never compensated again.
* `ctx_store`. Only `compensate` runs under a context that cannot be cancelled
  (`execute.go:448`); the save of `COMPENSATING` that leads to it (`execute.go:400`) does
  not. A store that honours its context refuses that save, and the cancelled call
  returns before the first `Compensate`, which `execute.go:442-445` wants to exclude and
  `execute.go:21-24` does exclude. The property speaks of calls that have turned round:
  one that is ended by a refused save of a step's own status (`execute.go:236, 243`) has
  not come to `abort`, and `execute.go:37-40` says that a store failure returns at once.
* `startup_once`. A process that restarts within the TTL of its own lost lease finds
  the execution locked, reports that, and never comes back to it
  (`recovery.go:112-113`, `README.md:149`).
* `late_success`. A success after the step's timeout is discarded
  (`execute.go:341-343`): the step is recorded `FAILED`, its effect is in place, and
  nothing will undo it (`execute.go:25-27`).
* `shared_key`. The key of a `Compensate` "must never be mistaken" for that of an
  `Action` (`idempotency.go:54-56`). A step named `X/compensate` has as its key the one of
  the compensation of step `X` (`idempotency.go:49, 58`), and `AddStep` allows the name: a
  gateway that has processed the one takes the other for a repetition, and the record
  says `COMPENSATED` of a step that was not undone. `ReportedIsDone`, in `step_calls`, is
  about all other names.
* `long_backoff`. `retry.go:66-67` and `80-83` promise a delay that doubles and is capped
  at `maxDelay`. The product is not checked (`retry.go:72`): with a cap above half the
  longest duration, such as `math.MaxInt64` for no cap, a delay below the cap doubles to a
  negative one, the next attempt follows at once, and later ones wait for whatever the
  product has wrapped to.
  `BackoffIsExact` and `AttemptsSpaced`, in `step_calls`, are about all other delays.

### Met on the way

Three more places where the code and its documentation part, found while
modelling; the properties of passing runs state what the code does.

* `recovery.go:119-121` says that one execution that fails to resume does not stop
  the rest. One that panics does, and does so again in every later sweep:
  `EventuallyReached` promises nothing to those behind it.
* `README.md:315-318` says that observers never change the outcome. A publisher's
  panic is recovered (`execute.go:661`), one of `Metrics` or of the Logger's handler is
  not: `PanicInObserver` ends the call.
* `README.md:207-210` warns of a TTL shorter than the longest `Action`. The lease is
  renewed by saves only, and there is none between the attempts of a step, so short `Action`s
  with their backoff can outlast it as well: `LeaseOutlivesBudget` compares the TTL with
  all attempts and waits of a step. The proof brought out that the waits of a negative
  base belong to it: such a base is no wait at first, but doubled often enough it wraps
  to a positive delay, which only the cap bounds (`LongestWait`).

## 4. Proofs

About the engine, for every value of the constants that satisfies the named
assumptions (`StepsAssumption`, `LeaseAssumption`, `EngineAssumption`: the numbers
are natural, at least one attempt, `Free` and `Orphan` are no workers):

* `TypeCorrect`: `Spec => []TypeOK`. Not inductive alone: that `cur` indexes a
  step and that `attempt` stays within the budget depends on where the call stands,
  and on where it will go on when a transition has been saved. `TypeInv` adds
  `InHand`, which says so for the point `Stage(w)`, that is `next` while a transition
  is being persisted and `pc` otherwise.
* `LeaseCorrect`: `Spec => [](DrivesUnderLease /\ NoLeaseLeftBehind)`. With
  `TypeInv` the conjunction is inductive. `Disciplined(w)` says what a step of `w`
  may do to the lease; most steps do nothing to it (`QuietSteps`). `Leased`, which guards
  `DrivesUnderLease`, is a condition on the state: there is a locker, and no lease has run
  out yet under a call in progress (`lapsed`).
* `Exclusion`: `Spec => []MutualExclusion`, from the one before.
* `ShapeCorrect`: `Spec => [](RecordShape /\ NoEnginePanic /\ CallsAreReady)`. The
  argument uses no lease, which is why it holds when leases lapse and copies are
  stale. `Ready(w)` says what the code at each point takes for granted of the call's
  own copy; no other worker can touch that copy, and the store only receives a copy
  that is well formed and whose step under way has no saved attempts
  (`Unattempted`), so a later `Recover` starts from one. The first part of
  `SagaShapeProofs` is about records alone (`SucceedReady`, `UndoReady`,
  `SettleReady` and others: one lemma per kind of transition), the second shows
  each step of a worker `Sound`, the third puts them together. `duo` checks
  the same invariants on an instance.

About the engine while calls do not overlap (`Alone`: there is at most one worker;
it may crash, fail, be cancelled and be recovered at any point). The hypothesis is
needed: `Recover` reads the record before it takes the lease, so with two workers a
call can go on with a stale copy, and `stale_snapshot` shows what follows.

* `WorldIsRecorded`: `Spec => []RecordMatchesWorld`, `EventsStand`: `Spec =>
  []EventIsFinal`, and `ContractIsKept`: `Spec => KeepsContract`. None of the three
  is inductive: what is about to be saved has to be known as well. `TrackInv` says
  that at every point the call's copy has the statuses of the store (`Agrees`),
  except between a transition and its save, where it is one lawful transition ahead
  (`Follows`) and already fits the world (`Matches`). `Turns` and `Moves` are the
  lawful transitions with all that the engine knows when it asks for them; each is
  shown to be one action of `SagaContract`.
* `NothingIsLeftBehind`: with idempotent steps, no cancellation and no deadline
  (`Undisturbed`), `Spec => []AllOrNothing`. `CleanInv`: a step recorded `FAILED` has
  no effect, and no step is `RUNNING` once the saga has given up. The
  hypothesis is not idle: a late success is discarded with its effect in place
  (`late_success`), a call cancelled before it retries an interrupted step leaves that
  step `RUNNING` and not undone (`StopForward`), and without recognised `OperationID`s
  an error says nothing of the effect.
* `AbandonedOnlyByContext`: `Spec => AbandonedByContext`. `QuitInv`: a copy that has
  given up, or is about to be saved, with a step still under way belongs to a call whose
  context has ended. Such a step is nobody's any more: its success is not recorded, nor
  its failure, and compensation passes it over (`StopForward`, `execute.go:213-217`).
* `NothingIsGuessed`: `Spec => NothingGuessed`, for each call by itself, whatever policy the
  calls before it had. `GuessInv` is about calls that do not recover automatically
  (`Careful`): a step that is in flight is the one in hand, so one that begins with a step
  in flight is refused by the policy; what has not begun has not been called; and the
  attempts of the round bound the invocations.
* `HeardIsFinal`: `ObservedSpec => [](EventsAreFinal /\ ToldInOrder)`, and its second
  half as `ToldInTurn`. `HeardInv`: a transition that is being saved is of the step
  that `Subject` tells (`Names`), and one that has been saved and not yet told is in the
  store's history and comes after everything that anyone has heard (`IsNews`).
  `TurnIsNews` and `MoveIsNews` show that the event of a lawful transition comes
  after all those that lie behind the record, which rests on `WellFormed`.
* `LossesHaveCauses`: `ObservedSpec => []LossesAreFaults`. `LossInv`: what each audience
  has missed is finite and not more than its faults allow, and a call has nothing to
  report before its `Release` (`Unreported`), so that only a call that has panicked leaves
  `notify` as one. A step makes at most one more event missed: a save puts one event into
  the history, and makes it due (`SavedIsAllNews`, `UntoldCosts`); one that is refused
  writes nothing; who is not told of the event that was due has a fault to thank or a
  publisher ahead of it (`TellingCosts`).

About any number of workers again:

* `ReportsStand`: `Spec => []ToldIsDurable`. `TellInv`: as long as no lease has run out
  under a call, from the save to the `Release` the store holds the call's outcome and the
  call holds the lease, so that nobody else saves (`OthersTell`); and the first save,
  which has no lease, is alone.
* `FirstHearsAll`: `ObservedSpec => []EarlierHearsMore`. An event reaches the
  publishers up to some one, and the `Metrics` or not (`Reach`).

About the memory store, for any callers, IDs, addresses and TTLs
(`MemoryAssumption`: there is an ID and an address, nil is neither a caller nor an
address, TTLs and the clock are natural numbers):

* `PersistedIsKept`: `Spec => []Persisted`, and `OneRecordMovesAtATime`: `Spec =>
  OneRecordMoves`. `Persisted` is not inductive: a caller that held the map's own
  execution, or one that shared its array, would change it. `Apart` excludes both.
  `ClonesAreApart` is what `Clone` has to give; each operation has a lemma of its
  own (`SaveKeeps`, `HandKeeps`, ...).
* `OneHolderAtATime`, `RefusalsAreWarranted`: from `Told`, which relates what owners
  were told to what the map says, in both directions.
* `LocksAreRefined`: `Spec => LockRefined`, the property of the run, and
  `LeasesImplementLocks`: `Spec => Lock(id)!LockSpec(...)` for every ID, its form as a
  refinement. The lock is told by what was granted, not by the map, when a lease may end:
  `Expire` only once the time granted to the holder has passed (`Over`), `GiveUp` only of
  one who has no claim left after the step (`Released`), so a `Release` by somebody else is
  a step of no lock.
* `MemoryTypes`: `Spec => []TypeOK`.

The parts of conjunctions above have theorems of their own: `LeasesAreReturned` for
`NoLeaseLeftBehind`, `NoIllegalTransition` for `NoEnginePanic`, `CopiesFit` for
`CallsAreReady`.

About the sweep, for any executions, times of creation, versions and definitions
(`SweepAssumption`):

* `SweepTypes`: `Spec => []TypeOK`, and `AnswersComeInOrder`: `Spec =>
  []AnswersInOrder`, from the loop's own invariant (`LoopInv`): `Before` is a strict
  order (`BeforeIsAnOrder`), and `IsNext` picks its least among those to come.
* `CompletedIsRun`, `OnlyDriftPanics`: from `Sound`, which says of every record that
  some version's definition has its length, that a record that still goes forward
  has no step in compensation, and that a completed one is as `CompletedMeans` says.
  That the copy in hand is the saved record (`HandInv`) makes it inductive.
* `RollbacksHaveACause`: `Spec => RollbackHasCause`. `CutInv` relates `cut` to the
  context: once the caller's has ended, everything in hand or to come is in `cut`;
  when the saga's own has, it is the one in hand and ends with it.
* `ContractsAreKept`: `Spec => KeepsContracts`. Every action that saves is shown to be
  one action of `SagaContract`, wherever the definition is as long as the record.
  `OrderInv` adds that a step is touched only after all before it have succeeded.

About the calls, for any definition, policies, timeouts and bounds
(`CallsAssumption`, `WidthAssumption`):

* `SuccessesAreTimely`: `Spec => Timely`. The invariant: during an attempt that has
  a timeout and lives, the clock has not passed it.
* `CarriedOutOnce`: `Spec => []OncePerOperation`: an operation has been carried out
  at most once if its key is in `charged`, and not at all otherwise. The keys of a
  definition do not change once it runs.
* `ReportsAreTrue`: `Spec => []ReportedIsDone`. `AddStep` keeps names apart, so the
  `Action`s have different keys, and so have the `Compensate`s; what remains is an `Action`
  that bears the key of a `Compensate`, which `KeyTaken` leaves out.
* `CallsTyped`: `Spec => []TypeOK`. `AttemptInv`: an attempt that is called for is within
  the budget of the step's policy, and a call that waits has one left; `WaitInv`: the
  delay being waited for is one of `Delays`. That every such delay is a duration is
  `DelaysFit`, about the loop and the jitter.
* `BackoffAsMeant`: `Spec => []BackoffIsExact`, for every width. `ExactRounds` shows by
  induction on the rounds that the loop doubles and caps as meant while nothing
  overflows (`BackoffMeets`), `BeyondLongest` that after an overflow the delay is still no
  longer than what was meant, which the bounds on the waits need.
* `AttemptsAreSpaced`: `Spec => AttemptsSpaced`. `RestInv`: when an attempt after the first
  is due, the clock has counted the whole delay since the attempt before (`Rested`).
* `LeaseOutlives`: `Spec => []LeaseOutlivesBudget`. `LeaseInv` bounds the age of the lease by
  the attempts made and the waits waited (`Waits`, which only grows: `WaitsGrow`), plus
  what the clock has counted of the one in hand. The conclusion compares that bound,
  not the age, with the TTL. `DelaysLast` bounds each delay by `LongestWait`.

The delays are recursive functions, and a recursive definition is a `CHOOSE`: that such
a function exists and is the only one has to be shown. The induction theorems of the
library take an operator as a parameter and cannot be applied here, so `LeastOf` shows
that a set of natural numbers that is not empty has a least element, and `Induction`
follows for sets. A `Course` is a function that begins at a value and makes each value
of the one before by a table; `CourseExists` and `SameCourse` then give the equations of
`TwoTo` (`PowersOfTwo`), `Rounds` (`RoundsOf`) and `Waits` (`WaitsAre`).

Only model-checked: liveness under fairness (`EventuallySettled`, `CallReturns`,
`EventuallyReached`), which is out of the prover's reach. Every other property of a
passing run has a theorem.

## 5. What is not modelled

* *Data*: inputs, outputs, error texts and wrapping (`errors.go`), timestamps, log
  lines, metrics' values, spans. None of them steers the engine. `CurrentStep` is
  written and never read.
* *Programmer errors*: `nil` arguments and empty saga names, which panic before there
  is any state; a nil execution, an unknown or empty ID in the memory store.
* *`noopStore`*: with it nothing is stored and nothing can be recovered.
* *`idgen`*: 128 random bits are fresh, by assumption.
* *Examples*: but for the payment gateway, programs that print.
* *A sweep among other workers*: `SagaEngine` has the race of two workers for one
  execution, `RecoverySweep` one worker with several executions and nobody else who
  writes them. In the code there may be others, an `Execute` in the same process or
  another worker's `Recover`, and then a record can change between the listing and its
  turn. `stale_snapshot` shows what that does to one execution; what is checked and
  proved of `RecoverySweep` is about a process that works alone.
* *Nested jitter*, `WithJitter(WithJitter(...))`, and a `RetryPolicy` of the
  caller's own, which may return any delay: `SagaEngine` allows any.

## 6. Plan

Done: the engine and its recovery, the store, the sweep, the observers, the calls;
the theorems of section 4. Left:

1. What two workers do to the record when one of them has a stale copy: which of the
   properties proved for one worker survive in a weaker form.
