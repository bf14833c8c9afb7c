----------------------------- MODULE MemoryStore ------------------------------
(***************************************************************************)
(* The in-memory reference Store (store/memory/memory.go): a map of        *)
(* executions and a map of leases behind one mutex, which makes each       *)
(* operation a single step here.                                           *)
(*                                                                         *)
(* An *Execution is a cell of the heap, and the cell's steps field is the  *)
(* cell of the array behind its Steps slice; copying the struct copies the *)
(* reference and not the array.  The timestamps an Execution points to     *)
(* live and are cloned with that array.  A record has one step here, which *)
(* is enough to tell an array that is shared from one that is not.         *)
(*                                                                         *)
(* A caller holds the executions it built or was given and goes on         *)
(* changing them after Save, as the engine does with the execution it      *)
(* drives.  It presents its own name as the owner of a lease.              *)
(***************************************************************************)
EXTENDS Naturals, Functions, SagaStatus

CONSTANTS
  Callers,      \* calls of the engine, each with its owner ID
  IDs,          \* execution IDs
  Nil,          \* the nil *Execution
  Cells,        \* bound: the addresses there are
  Reachable,    \* bound: the statuses the callers' executions pass through
  StepReachable,\* bound: and those of their steps
  TTLs,         \* the lease durations callers ask for
  MaxNow        \* bound: the last time of the clock

ASSUME MemoryAssumption ==
  /\ IDs # {} /\ Cells # {}
  /\ Nil \notin Cells \cup Callers
  /\ "PENDING" \in Reachable /\ Reachable \subseteq Status
  /\ "PENDING" \in StepReachable /\ StepReachable \subseteq StepStatus
  /\ TTLs \subseteq Nat
  /\ MaxNow \in Nat

VARIABLES
  heap,     \* the Execution at each address
  arrays,   \* the array of step statuses at each address
  held,     \* the executions each caller has a pointer to
  data,     \* Store.data
  saved,    \* what the last Save of each ID was given
  leases,   \* Store.leases
  now,      \* time.Now
  granted   \* until when each caller was told it holds each lease

records == <<heap, arrays, held, data, saved>>
locks == <<leases, now, granted>>
vars == <<records, locks>>

Blank == [id |-> CHOOSE id \in IDs : TRUE, status |-> "PENDING",
          steps |-> CHOOSE a \in Cells : TRUE]

NoLease == [owner |-> Nil, expires |-> 0]

Contents(a) == [status |-> heap[a].status, step |-> arrays[heap[a].steps]]

Executions == [id : IDs, status : Status, steps : Cells]
Snapshots == [status : Status, step : StepStatus]

TypeOK ==
  /\ heap \in [Cells -> Executions]
  /\ arrays \in [Cells -> StepStatus]
  /\ held \in [Callers -> SUBSET Cells]
  /\ data \in [IDs -> Cells \cup {Nil}]
  /\ saved \in [IDs -> Snapshots \cup {Nil}]
  /\ leases \in [IDs -> [owner : Callers \cup {Nil}, expires : Nat]]
  /\ now \in 0..MaxNow
  /\ granted \in [IDs -> [Callers -> Nat]]

\* New.
Init ==
  /\ heap = [a \in Cells |-> Blank]
  /\ arrays = [a \in Cells |-> "PENDING"]
  /\ held = [c \in Callers |-> {}]
  /\ data = [id \in IDs |-> Nil]
  /\ saved = [id \in IDs |-> Nil]
  /\ leases = [id \in IDs |-> NoLease]
  /\ now = 0
  /\ granted = [id \in IDs |-> [c \in Callers |-> 0]]

-------------------------------------------------------------------------------
(***************************************************************************)
(* The heap.                                                               *)
(***************************************************************************)
Pointed(hd, d) ==
  (UNION {hd[c] : c \in Callers}) \cup ({d[id] : id \in IDs} \ {Nil})

Objects == Pointed(held, data)

\* Addresses an allocation may use.
Unused == Cells \ (Objects \cup {heap[a].steps : a \in Objects})

\* The callers and the map go on with pointers hd and d to heap h and arrays
\* s; what nobody points to any more is collected.
Settle(h, s, hd, d) ==
  LET alive == Pointed(hd, d) IN
  /\ heap' = [a \in Cells |-> IF a \in alive THEN h[a] ELSE Blank]
  /\ arrays' = [a \in Cells |->
                  IF \E o \in alive : h[o].steps = a THEN s[a] ELSE "PENDING"]
  /\ held' = hd
  /\ data' = d

\* Where the copies of a set of executions go, one new cell for each.
Targets(objs) == CHOOSE f \in Injection(objs, Unused) : TRUE

\* The execution that f[o] is a copy of.
Origin(f, a) == CHOOSE o \in DOMAIN f : f[o] = a

\* Mutant: the struct is copied and the array behind Steps is shared.
ShallowClones(f) ==
  [a \in Cells |-> IF a \in Range(f) THEN heap[Origin(f, a)] ELSE heap[a]]

\* Mutant: the clone is left without its Steps.
ClonesWithoutSteps(f) ==
  [a \in Cells |-> IF a \in Range(f)
                   THEN [heap[Origin(f, a)] EXCEPT !.steps = Nil] ELSE heap[a]]

\* The heap with a Clone of every o in the domain of f at f[o] ...
Clones(f) ==
  [a \in Cells |-> IF a \in Range(f)
                   THEN [heap[Origin(f, a)] EXCEPT !.steps = a] ELSE heap[a]]

\* ... and the arrays with the arrays of those clones.
ClonedArrays(f) ==
  [a \in Cells |-> IF a \in Range(f)
                   THEN arrays[heap[Origin(f, a)].steps] ELSE arrays[a]]

-------------------------------------------------------------------------------
(***************************************************************************)
(* What callers do with executions of their own.                           *)
(***************************************************************************)
\* Execute builds the record of a new execution.
Build(c, id) ==
  \E a \in Unused :
    /\ Settle([heap EXCEPT ![a] = [id |-> id, status |-> "PENDING", steps |-> a]],
              [arrays EXCEPT ![a] = "PENDING"],
              [held EXCEPT ![c] = @ \cup {a}], data)
    /\ UNCHANGED <<saved, locks>>

Transition(c, a, to) ==
  /\ CanTransitionStatus(heap[a].status, to)
  /\ Settle([heap EXCEPT ![a].status = to], arrays, held, data)
  /\ UNCHANGED <<saved, locks>>

TransitionStep(c, a, to) ==
  /\ CanTransitionStepStatus(arrays[heap[a].steps], to)
  /\ Settle(heap, [arrays EXCEPT ![heap[a].steps] = to], held, data)
  /\ UNCHANGED <<saved, locks>>

\* The call ends, or its process does.
Drop(c) ==
  /\ held[c] # {}
  /\ Settle(heap, arrays, [held EXCEPT ![c] = {}], data)
  /\ UNCHANGED <<saved, locks>>

-------------------------------------------------------------------------------
(***************************************************************************)
(* The operations of the Store.                                            *)
(***************************************************************************)
\* Mutant: the caller's execution itself goes into the map.
SaveUncloned(c, a) ==
  /\ Settle(heap, arrays, held, [data EXCEPT ![heap[a].id] = a])
  /\ saved' = [saved EXCEPT ![heap[a].id] = Contents(a)]
  /\ UNCHANGED locks

Save(c, a) ==
  LET f == Targets({a}) IN
  /\ ExistsInjection({a}, Unused)
  /\ Settle(Clones(f), ClonedArrays(f), held,
            [data EXCEPT ![heap[a].id] = f[a]])
  /\ saved' = [saved EXCEPT ![heap[a].id] = Contents(a)]
  /\ UNCHANGED locks

\* c is handed a clone of every execution of objs.
Hand(c, objs) ==
  LET f == Targets(objs) IN
  /\ objs # {}
  /\ ExistsInjection(objs, Unused)
  /\ Settle(Clones(f), ClonedArrays(f),
            [held EXCEPT ![c] = @ \cup Range(f)], data)
  /\ UNCHANGED <<saved, locks>>

\* An ID that is not in the map is an error and changes nothing.
Get(c, id) ==
  /\ data[id] # Nil
  /\ Hand(c, {data[id]})

Incomplete ==
  {data[id] : id \in {i \in IDs : data[i] # Nil /\ ~IsTerminal(heap[data[i]].status)}}

ListIncomplete(c) == Hand(c, Incomplete)

\* Mutant: a lease stands until it is released.
RefusesForever(c, id) == leases[id].owner \notin {Nil, c}

\* Another owner's lease has not expired.
Refuses(c, id) ==
  /\ leases[id].owner \notin {Nil, c}
  /\ now < leases[id].expires

\* Acquire, and the caller's renewal of a lease it has; a refusal changes
\* nothing.
Acquire(c, id, ttl) ==
  /\ ~Refuses(c, id)
  /\ leases' = [leases EXCEPT ![id] = [owner |-> c, expires |-> now + ttl]]
  /\ granted' = [granted EXCEPT ![id][c] = now + ttl]
  /\ UNCHANGED <<now, records>>

\* Mutant: the lease is deleted whoever holds it.
ReleaseAnyones(c, id) ==
  /\ leases' = [leases EXCEPT ![id] = NoLease]
  /\ granted' = [granted EXCEPT ![id][c] = 0]
  /\ UNCHANGED <<now, records>>

Release(c, id) ==
  /\ leases' = [leases EXCEPT ![id] = IF @.owner = c THEN NoLease ELSE @]
  /\ granted' = [granted EXCEPT ![id][c] = 0]
  /\ UNCHANGED <<now, records>>

Tick ==
  /\ now < MaxNow
  /\ now' = now + 1
  /\ UNCHANGED <<leases, granted, records>>

CallerStep(c) ==
  \/ \E id \in IDs : Build(c, id) \/ Get(c, id) \/ Release(c, id)
  \/ \E a \in held[c] : Save(c, a)
  \/ \E a \in held[c], to \in Reachable : Transition(c, a, to)
  \/ \E a \in held[c], to \in StepReachable : TransitionStep(c, a, to)
  \/ Drop(c)
  \/ ListIncomplete(c)
  \/ \E id \in IDs, ttl \in TTLs : Acquire(c, id, ttl)

Next == Tick \/ \E c \in Callers : CallerStep(c)

Spec == Init /\ [][Next]_vars

-------------------------------------------------------------------------------
(***************************************************************************)
(* What a Store promises.                                                  *)
(***************************************************************************)
\* "the engine mutating the live Execution it is working with afterward
\* cannot alter what was already persisted" (execution.go:56-59): the map
\* still holds, for every ID, what the last Save of that ID was given.
Persisted ==
  \A id \in IDs : data[id] # Nil => Contents(data[id]) = saved[id]

\* "... and vice versa": no step changes two executions that both existed
\* before it, be they a caller's, another caller's or the map's.
OneRecordMoves ==
  [][\A a, b \in Objects \cap Objects' :
       (Contents(a)' # Contents(a) /\ Contents(b)' # Contents(b)) => a = b]_vars

\* Two owners are never both within the time they were granted on the same
\* execution (lock.go:13-17, memory.go:89-94).
OneHolder ==
  \A id \in IDs, c, d \in Callers :
    (now < granted[id][c] /\ now < granted[id][d]) => c = d

\* Acquire refuses an owner exactly as long as another owner is within the
\* time it was granted and has not released (memory.go:79-95).
RefusalIsWarranted ==
  \A id \in IDs, c \in Callers :
    Refuses(c, id) <=> \E d \in Callers \ {c} : now < granted[id][d]

\* The caller whose lease on id stands at this time.
Holder(id) == IF now < leases[id].expires THEN leases[id].owner ELSE Nil

\* The lease of one execution, as the engine's model sees it.
Lock(id) ==
  INSTANCE LeasedStore WITH
    Workers <- Callers, Free <- Nil, Orphan <- "orphan",
    store <- saved[id], lease <- Holder(id)

\* In this step the time that the holder of id was granted is over.
Over(id) == Holder(id) # Nil /\ granted'[id][Holder(id)] <= now'

\* The callers that this step leaves with no claim on id.
Released(id) == {c \in Callers : granted'[id][c] = 0}

\* Every lease behaves as the engine's model takes it to: taken only when it
\* is free or one's own, given up only by its holder, and otherwise lost only
\* once the time that was granted for it has passed (memory.go:79-106).
LockRefined ==
  [][\A id \in IDs :
       Lock(id)!LockNext(Over(id), Released(id)) \/ UNCHANGED Holder(id)]_vars
===============================================================================
