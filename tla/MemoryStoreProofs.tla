--------------------------- MODULE MemoryStoreProofs --------------------------
(***************************************************************************)
(* Proofs about the in-memory Store: for any number of callers, execution  *)
(* IDs and addresses, what it keeps is out of reach of what callers do to  *)
(* the executions they hold, and its leases are the locks the engine takes *)
(* them for.                                                               *)
(***************************************************************************)
EXTENDS MemoryStore, TLAPS

LEMMA BlankType == Blank \in Executions
<1>1. "PENDING" \in Status /\ IDs # {} /\ Cells # {}
  BY MemoryAssumption DEF Status
<1> QED BY <1>1 DEF Blank, Executions

\* A live execution has the contents the step gave it (memory.go:41-77).
LEMMA Settled ==
  ASSUME TypeOK, NEW h, NEW s, NEW hd, NEW d, Settle(h, s, hd, d),
         NEW o \in Cells, o \in Pointed(hd, d), h[o].steps \in Cells
  PROVE  /\ o \in Objects'
         /\ heap'[o] = h[o]
         /\ arrays'[h[o].steps] = s[h[o].steps]
         /\ Contents(o)' = [status |-> h[o].status, step |-> s[h[o].steps]]
<1>1. heap'[o] = h[o] /\ arrays'[h[o].steps] = s[h[o].steps]
  BY DEF Settle
<1>2. Objects' = Pointed(hd, d)
  BY DEF Settle, Objects, Pointed
<1> QED BY <1>1, <1>2 DEF Contents

LEMMA SettledTypes ==
  ASSUME TypeOK, NEW h \in [Cells -> Executions], NEW s \in [Cells -> StepStatus],
         NEW hd \in [Callers -> SUBSET Cells], NEW d \in [IDs -> Cells \cup {Nil}],
         Settle(h, s, hd, d)
  PROVE  /\ heap' \in [Cells -> Executions]
         /\ arrays' \in [Cells -> StepStatus]
         /\ held' \in [Callers -> SUBSET Cells]
         /\ data' \in [IDs -> Cells \cup {Nil}]
         /\ Objects' = Pointed(hd, d)
<1>1. "PENDING" \in StepStatus
  BY DEF StepStatus
<1>2. Objects' = Pointed(hd, d)
  BY DEF Settle, Objects, Pointed
<1> QED BY <1>1, <1>2, BlankType DEF Settle

\* Clones go to addresses that nothing live uses, and are complete.
LEMMA Cloned ==
  ASSUME TypeOK, NEW S \in SUBSET Objects, ExistsInjection(S, Unused),
         NEW f, f = Targets(S)
  PROVE  /\ f \in [S -> Unused]
         /\ Clones(f) \in [Cells -> Executions]
         /\ ClonedArrays(f) \in [Cells -> StepStatus]
         /\ Range(f) \subseteq Unused
         /\ \A o \in S :
              /\ f[o] \in Cells
              /\ Origin(f, f[o]) = o
              /\ Clones(f)[f[o]] = [heap[o] EXCEPT !.steps = f[o]]
              /\ ClonedArrays(f)[f[o]] = arrays[heap[o].steps]
         /\ \A a \in Cells \ Range(f) :
              Clones(f)[a] = heap[a] /\ ClonedArrays(f)[a] = arrays[a]
<1>0. Objects \subseteq Cells
  BY DEF TypeOK, Objects, Pointed
<1>1. f \in Injection(S, Unused)
  BY DEF ExistsInjection, Targets
<1>2. f \in [S -> Unused] /\ \A o, p \in S : f[o] = f[p] => o = p
  BY <1>1 DEF Injection, IsInjective
<1>3. Range(f) \subseteq Unused /\ \A o \in S : f[o] \in Range(f)
  BY <1>2 DEF Range
<1>4. \A a \in Range(f) : Origin(f, a) \in S
  BY <1>2 DEF Origin, Range
<1>5. \A o \in S : Origin(f, f[o]) = o
  BY <1>2 DEF Origin
<1>6. Unused \subseteq Cells
  BY DEF Unused
<1>7. Clones(f) \in [Cells -> Executions]
  BY <1>0, <1>4 DEF Clones, TypeOK, Executions
<1>8. ClonedArrays(f) \in [Cells -> StepStatus]
  BY <1>0, <1>4 DEF ClonedArrays, TypeOK, Executions
<1> QED BY <1>2, <1>3, <1>5, <1>6, <1>7, <1>8 DEF Clones, ClonedArrays

-------------------------------------------------------------------------------
(***************************************************************************)
(* What is saved stays as it was saved.  Persisted is not inductive: it    *)
(* needs that no caller holds an execution of the map, and that no two     *)
(* executions share an array.                                              *)
(***************************************************************************)
Apart ==
  /\ \A c \in Callers, id \in IDs : data[id] \notin held[c]
  /\ \A a, b \in Objects : heap[a].steps = heap[b].steps => a = b

RecordsInv == TypeOK /\ Apart /\ Persisted

\* The step of OneRecordMoves.
OneMoves ==
  \A a, b \in Objects \cap Objects' :
    (Contents(a)' # Contents(a) /\ Contents(b)' # Contents(b)) => a = b

LEMMA ObjectsAreCells ==
  ASSUME TypeOK
  PROVE  /\ Objects \subseteq Cells
         /\ \A a \in Objects : heap[a] \in Executions /\ heap[a].steps \in Cells
         /\ \A c \in Callers : held[c] \subseteq Objects
         /\ \A id \in IDs : data[id] # Nil => data[id] \in Objects
BY DEF TypeOK, Objects, Pointed, Executions

\* What the step writes neither at o nor at its array is not changed.
LEMMA Untouched ==
  ASSUME TypeOK, NEW h, NEW s, NEW hd, NEW d, Settle(h, s, hd, d),
         NEW o \in Objects, o \in Pointed(hd, d), h[o] = heap[o],
         s[heap[o].steps] = arrays[heap[o].steps]
  PROVE  heap'[o] = heap[o] /\ Contents(o)' = Contents(o)
<1>1. o \in Cells /\ h[o].steps \in Cells
  BY ObjectsAreCells
<1>2. heap'[o] = h[o] /\ arrays'[h[o].steps] = s[h[o].steps]
  BY <1>1, Settled
<1> QED BY <1>2 DEF Contents

\* A step that leaves the map's executions as they are, saves nothing and
\* keeps the executions apart keeps the invariant.
LEMMA QuietForTheMap ==
  ASSUME RecordsInv, TypeOK', Apart', UNCHANGED <<data, saved>>,
         \A id \in IDs : data[id] # Nil => Contents(data[id])' = Contents(data[id])
  PROVE  RecordsInv'
<1>1. Persisted'
  BY DEF RecordsInv, Persisted, Contents
<1> QED BY <1>1 DEF RecordsInv

\* A caller builds an execution at an address of its own (execute.go:84-95).
LEMMA BuildStep ==
  ASSUME RecordsInv, NEW c \in Callers, NEW id \in IDs, Build(c, id)
  PROVE  RecordsInv' /\ OneMoves
<1> PICK a \in Unused :
      /\ Settle([heap EXCEPT ![a] = [id |-> id, status |-> "PENDING", steps |-> a]],
                [arrays EXCEPT ![a] = "PENDING"],
                [held EXCEPT ![c] = @ \cup {a}], data)
      /\ UNCHANGED <<saved, locks>>
  BY DEF Build
<1> DEFINE h == [heap EXCEPT ![a] = [id |-> id, status |-> "PENDING", steps |-> a]]
           s == [arrays EXCEPT ![a] = "PENDING"]
           hd == [held EXCEPT ![c] = @ \cup {a}]
<1>0. Settle(h, s, hd, data) /\ UNCHANGED <<saved, locks>>
  OBVIOUS
<1> USE DEF RecordsInv
<1>1. a \in Cells /\ a \notin Objects /\ \A o \in Objects : heap[o].steps # a
  BY DEF Unused
<1>2. /\ h \in [Cells -> Executions]
      /\ s \in [Cells -> StepStatus]
      /\ hd \in [Callers -> SUBSET Cells]
  BY <1>1 DEF TypeOK, Executions, Status, StepStatus
<1>3. Pointed(hd, data) = Objects \cup {a}
  BY <1>1 DEF Pointed, Objects, TypeOK
<1> HIDE DEF h, s, hd
<1>4. /\ TypeOK' /\ Objects' = Objects \cup {a}
  BY <1>0, <1>2, <1>3, SettledTypes DEF TypeOK, locks
<1>5. \A o \in Objects : heap'[o] = heap[o] /\ Contents(o)' = Contents(o)
  <2> SUFFICES ASSUME NEW o \in Objects
               PROVE  heap'[o] = heap[o] /\ Contents(o)' = Contents(o)
    OBVIOUS
  <2>1. o \in Cells /\ heap[o].steps \in Cells /\ o # a /\ heap[o].steps # a
    BY <1>1, ObjectsAreCells
  <2>2. h[o] = heap[o] /\ s[heap[o].steps] = arrays[heap[o].steps]
    BY <2>1 DEF h, s, TypeOK
  <2>3. o \in Pointed(hd, data)
    BY <1>3
  <2> QED BY <1>0, <2>2, <2>3, Untouched
<1>6. heap'[a].steps = a
  <2>1. h[a].steps = a
    BY <1>1 DEF h, TypeOK
  <2> QED BY <1>0, <1>1, <1>3, <2>1, Settled
<1>7. Apart'
  <2>1. \A e \in Callers, i \in IDs : data'[i] \notin held'[e]
    BY <1>0, <1>1, ObjectsAreCells, MemoryAssumption DEF Settle, hd, Apart, TypeOK
  <2> QED BY <1>1, <1>4, <1>5, <1>6, <2>1 DEF Apart
<1>8. data' = data
  BY <1>0 DEF Settle
<1> QED BY <1>0, <1>1, <1>4, <1>5, <1>7, <1>8, QuietForTheMap, ObjectsAreCells
        DEF OneMoves

\* The pointers of a step that allocates nothing.
LEMMA SamePointers ==
  ASSUME RecordsInv, NEW h \in [Cells -> Executions],
         NEW s \in [Cells -> StepStatus],
         NEW hd \in [Callers -> SUBSET Cells],
         \A c \in Callers : hd[c] \subseteq held[c],
         \A o \in Cells : h[o].steps = heap[o].steps,
         Settle(h, s, hd, data), UNCHANGED <<saved, locks>>
  PROVE  TypeOK' /\ Apart' /\ Objects' \subseteq Objects /\ Objects' = Pointed(hd, data)
<1> USE DEF RecordsInv
<1>1. TypeOK' /\ Objects' = Pointed(hd, data)
  BY SettledTypes DEF TypeOK, locks
<1>2. Objects' \subseteq Objects
  <2> SUFFICES ASSUME NEW o \in Pointed(hd, data)  PROVE o \in Objects
    BY <1>1
  <2>1. CASE \E c \in Callers : o \in hd[c]
    BY <2>1, ObjectsAreCells
  <2>2. CASE \E id \in IDs : o = data[id] /\ o # Nil
    BY <2>2, ObjectsAreCells
  <2> QED BY <2>1, <2>2 DEF Pointed
<1>3. \A o \in Objects' : heap'[o].steps = heap[o].steps
  <2> SUFFICES ASSUME NEW o \in Objects'  PROVE heap'[o].steps = heap[o].steps
    OBVIOUS
  <2>1. o \in Cells /\ o \in Pointed(hd, data) /\ h[o].steps \in Cells
    BY <1>1, <1>2, ObjectsAreCells
  <2>2. heap'[o] = h[o]
    BY <2>1, Settled
  <2> QED BY <2>1, <2>2
<1>4. \A c \in Callers, id \in IDs : data'[id] \notin held'[c]
  BY DEF Settle, Apart
<1>5. \A a, b \in Objects' : heap'[a].steps = heap'[b].steps => a = b
  BY <1>2, <1>3 DEF Apart
<1> QED BY <1>1, <1>2, <1>4, <1>5 DEF Apart

\* A caller changes the status of an execution it holds (execution.go:83-107).
LEMMA TransitionKeeps ==
  ASSUME RecordsInv, NEW c \in Callers, NEW a \in held[c],
         NEW to \in Status, Transition(c, a, to)
  PROVE  RecordsInv' /\ OneMoves
<1> DEFINE h == [heap EXCEPT ![a].status = to]
<1> USE DEF RecordsInv
<1>0. Settle(h, arrays, held, data) /\ UNCHANGED <<saved, locks>>
  BY DEF Transition
<1>1. a \in Objects /\ a \in Cells
  BY ObjectsAreCells
<1>2. h \in [Cells -> Executions] /\ \A o \in Cells : h[o].steps = heap[o].steps
  <2>1. heap \in [Cells -> Executions]
    BY DEF TypeOK
  <2>2. h[a] = [id |-> heap[a].id, status |-> to, steps |-> heap[a].steps]
    BY <1>1, <2>1 DEF Executions
  <2>3. h[a] \in Executions /\ h[a].steps = heap[a].steps
    BY <1>1, <2>1, <2>2 DEF Executions
  <2>4. \A o \in Cells : o # a => h[o] = heap[o]
    BY <2>1
  <2>5. h = [o \in Cells |-> h[o]]
    BY <2>1
  <2> HIDE DEF h
  <2> QED BY <2>1, <2>3, <2>4, <2>5
<1>3. \A o \in Cells : o # a => h[o] = heap[o]
  BY DEF TypeOK
<1> HIDE DEF h
<1>4. held \in [Callers -> SUBSET Cells] /\ arrays \in [Cells -> StepStatus]
  BY DEF TypeOK
<1>5. TypeOK' /\ Apart' /\ Objects' = Objects
  BY <1>0, <1>2, <1>4, SamePointers DEF Objects
<1>6. \A o \in Objects : o # a => Contents(o)' = Contents(o)
  <2> SUFFICES ASSUME NEW o \in Objects, o # a  PROVE Contents(o)' = Contents(o)
    OBVIOUS
  <2>1. h[o] = heap[o] /\ o \in Pointed(held, data)
    BY <1>3, ObjectsAreCells DEF Objects
  <2> QED BY <1>0, <2>1, Untouched
<1>7. \A id \in IDs : data[id] # Nil => data[id] \in Objects /\ data[id] # a
  BY ObjectsAreCells DEF Apart
<1>8. data' = data
  BY <1>0 DEF Settle
<1> QED BY <1>0, <1>5, <1>6, <1>7, <1>8, QuietForTheMap DEF OneMoves

\* A caller changes a step of an execution it holds
\* (step_execution.go, transition).
LEMMA TransitionStepKeeps ==
  ASSUME RecordsInv, NEW c \in Callers, NEW a \in held[c],
         NEW to \in StepStatus, TransitionStep(c, a, to)
  PROVE  RecordsInv' /\ OneMoves
<1> DEFINE s == [arrays EXCEPT ![heap[a].steps] = to]
<1> USE DEF RecordsInv
<1>0. Settle(heap, s, held, data) /\ UNCHANGED <<saved, locks>>
  BY DEF TransitionStep
<1>1. a \in Objects /\ a \in Cells /\ heap[a].steps \in Cells
  BY ObjectsAreCells
<1>2. s \in [Cells -> StepStatus]
  BY <1>1 DEF TypeOK
<1>3. \A o \in Objects : o # a => s[heap[o].steps] = arrays[heap[o].steps]
  BY <1>1, ObjectsAreCells DEF Apart, TypeOK
<1> HIDE DEF s
<1>4. held \in [Callers -> SUBSET Cells] /\ heap \in [Cells -> Executions]
  BY DEF TypeOK
<1>5. TypeOK' /\ Apart' /\ Objects' = Objects
  BY <1>0, <1>2, <1>4, SamePointers DEF Objects
<1>6. \A o \in Objects : o # a => Contents(o)' = Contents(o)
  <2> SUFFICES ASSUME NEW o \in Objects, o # a  PROVE Contents(o)' = Contents(o)
    OBVIOUS
  <2>1. s[heap[o].steps] = arrays[heap[o].steps] /\ o \in Pointed(held, data)
    BY <1>3 DEF Objects
  <2> QED BY <1>0, <2>1, Untouched
<1>7. \A id \in IDs : data[id] # Nil => data[id] \in Objects /\ data[id] # a
  BY ObjectsAreCells DEF Apart
<1>8. data' = data
  BY <1>0 DEF Settle
<1> QED BY <1>0, <1>5, <1>6, <1>7, <1>8, QuietForTheMap DEF OneMoves

\* A call ends and lets go of its executions.
LEMMA DropKeeps ==
  ASSUME RecordsInv, NEW c \in Callers, Drop(c)
  PROVE  RecordsInv' /\ OneMoves
<1> DEFINE hd == [held EXCEPT ![c] = {}]
<1> USE DEF RecordsInv
<1>0. Settle(heap, arrays, hd, data) /\ UNCHANGED <<saved, locks>>
  BY DEF Drop
<1>1. hd \in [Callers -> SUBSET Cells] /\ \A e \in Callers : hd[e] \subseteq held[e]
  BY DEF TypeOK
<1> HIDE DEF hd
<1>2. heap \in [Cells -> Executions] /\ arrays \in [Cells -> StepStatus]
  BY DEF TypeOK
<1>3. TypeOK' /\ Apart' /\ Objects' \subseteq Objects /\ Objects' = Pointed(hd, data)
  BY <1>0, <1>1, <1>2, SamePointers
<1>4. \A o \in Objects' : Contents(o)' = Contents(o)
  BY <1>0, <1>3, Untouched
<1>5. \A id \in IDs : data[id] # Nil => data[id] \in Objects'
  BY <1>3 DEF Pointed
<1>6. data' = data
  BY <1>0 DEF Settle
<1> QED BY <1>0, <1>3, <1>4, <1>5, <1>6, QuietForTheMap DEF OneMoves

\* After a step that clones the executions of S, the old executions are what
\* they were, the clones are what they were cloned from, and still no two
\* executions share an array (execution.go:60-81).
LEMMA ClonesAreApart ==
  ASSUME RecordsInv, NEW S \in SUBSET Objects, ExistsInjection(S, Unused),
         NEW f, f = Targets(S),
         NEW hd \in [Callers -> SUBSET Cells], NEW d \in [IDs -> Cells \cup {Nil}],
         Pointed(hd, d) \subseteq Objects \cup Range(f),
         Settle(Clones(f), ClonedArrays(f), hd, d)
  PROVE  /\ heap' \in [Cells -> Executions]
         /\ arrays' \in [Cells -> StepStatus]
         /\ held' = hd /\ data' = d
         /\ Objects' = Pointed(hd, d)
         /\ \A o \in Objects \cap Objects' : Contents(o)' = Contents(o)
         /\ \A o \in S : f[o] \in Objects' => Contents(f[o])' = Contents(o)
         /\ \A a, b \in Objects' : heap'[a].steps = heap'[b].steps => a = b
<1> USE DEF RecordsInv
<1> DEFINE h == Clones(f)
           s == ClonedArrays(f)
<1>1. /\ f \in [S -> Unused]
      /\ h \in [Cells -> Executions]
      /\ s \in [Cells -> StepStatus]
      /\ Range(f) \subseteq Unused
      /\ \A o \in S :
           /\ f[o] \in Cells
           /\ h[f[o]] = [heap[o] EXCEPT !.steps = f[o]]
           /\ s[f[o]] = arrays[heap[o].steps]
      /\ \A a \in Cells \ Range(f) : h[a] = heap[a] /\ s[a] = arrays[a]
  BY Cloned
<1>2. Settle(h, s, hd, d)
  OBVIOUS
<1> HIDE DEF h, s
<1>3. /\ heap' \in [Cells -> Executions]
      /\ arrays' \in [Cells -> StepStatus]
      /\ held' = hd /\ data' = d
      /\ Objects' = Pointed(hd, d)
  <2>1. held' = hd /\ data' = d
    BY <1>2 DEF Settle
  <2> QED BY <1>1, <1>2, <2>1, SettledTypes
<1>4. \A o \in Objects :
        /\ o \in Cells \ Range(f)
        /\ heap[o].steps \in Cells \ Range(f)
  BY <1>1, ObjectsAreCells DEF Unused
<1>5. \A o \in Objects \cap Objects' :
        heap'[o] = heap[o] /\ Contents(o)' = Contents(o)
  <2> SUFFICES ASSUME NEW o \in Objects, o \in Objects'
               PROVE  heap'[o] = heap[o] /\ Contents(o)' = Contents(o)
    OBVIOUS
  <2>1. h[o] = heap[o] /\ s[heap[o].steps] = arrays[heap[o].steps]
    BY <1>1, <1>4
  <2>2. o \in Pointed(hd, d)
    BY <1>3
  <2> QED BY <1>2, <2>1, <2>2, Untouched
<1>6. \A o \in S : f[o] \in Objects' =>
        heap'[f[o]].steps = f[o] /\ Contents(f[o])' = Contents(o)
  <2> SUFFICES ASSUME NEW o \in S, f[o] \in Objects'
               PROVE  heap'[f[o]].steps = f[o] /\ Contents(f[o])' = Contents(o)
    OBVIOUS
  <2>1. heap[o] \in Executions
    BY ObjectsAreCells
  <2>2. h[f[o]].steps = f[o] /\ h[f[o]].status = heap[o].status
    BY <1>1, <2>1 DEF Executions
  <2>3. f[o] \in Cells /\ f[o] \in Pointed(hd, d) /\ s[f[o]] = arrays[heap[o].steps]
    BY <1>1, <1>3
  <2>4. /\ heap'[f[o]] = h[f[o]]
        /\ Contents(f[o])' = [status |-> h[f[o]].status, step |-> s[h[f[o]].steps]]
    BY <1>2, <2>2, <2>3, Settled
  <2> QED BY <2>2, <2>3, <2>4 DEF Contents
<1>7. \A a \in Objects' : a \in Objects \/ \E o \in S : a = f[o]
  BY <1>1, <1>3 DEF Range
<1>8. \A a, b \in Objects' : heap'[a].steps = heap'[b].steps => a = b
  <2> SUFFICES ASSUME NEW a \in Objects', NEW b \in Objects',
                      heap'[a].steps = heap'[b].steps
               PROVE  a = b
    OBVIOUS
  <2>1. CASE a \in Objects /\ b \in Objects
    BY <1>5, <2>1 DEF Apart
  <2>2. \A o \in S : f[o] \in Range(f)
    BY <1>1 DEF Range
  <2>3. \A x \in Objects', o \in S :
          x \in Objects /\ f[o] \in Objects' => heap'[x].steps # heap'[f[o]].steps
    BY <1>4, <1>5, <1>6, <2>2
  <2> QED BY <1>6, <1>7, <2>1, <2>3
<1> QED BY <1>3, <1>5, <1>6, <1>8

\* Save puts a clone into the map (memory.go:41-53).
LEMMA SaveKeeps ==
  ASSUME RecordsInv, NEW c \in Callers, NEW a \in held[c], Save(c, a)
  PROVE  RecordsInv' /\ OneMoves
<1> USE DEF RecordsInv
<1> PICK f : f = Targets({a})
  OBVIOUS
<1> PICK d : d = [data EXCEPT ![heap[a].id] = f[a]]
  OBVIOUS
<1>1. /\ ExistsInjection({a}, Unused)
      /\ Settle(Clones(f), ClonedArrays(f), held, d)
      /\ saved' = [saved EXCEPT ![heap[a].id] = Contents(a)]
      /\ UNCHANGED locks
  BY DEF Save
<1>2. a \in Objects /\ heap[a] \in Executions /\ heap[a].id \in IDs
  BY ObjectsAreCells DEF Executions
<1>3. f[a] \in Unused /\ f[a] \in Cells /\ Range(f) = {f[a]} /\ Nil \notin Cells
  <2>1. f \in [{a} -> Unused]
    BY <1>1, <1>2, Cloned
  <2>2. Unused \subseteq Cells
    BY DEF Unused
  <2> QED BY <2>1, <2>2, MemoryAssumption DEF Range
<1>4. /\ d \in [IDs -> Cells \cup {Nil}]
      /\ d[heap[a].id] = f[a]
      /\ \A id \in IDs : id # heap[a].id => d[id] = data[id]
  BY <1>2, <1>3 DEF TypeOK
<1>5. Pointed(held, d) \subseteq Objects \cup Range(f)
  BY <1>2, <1>3, <1>4 DEF Pointed, Objects
<1>6. /\ heap' \in [Cells -> Executions]
      /\ arrays' \in [Cells -> StepStatus]
      /\ held' = held /\ data' = d
      /\ Objects' = Pointed(held, d)
      /\ \A o \in Objects \cap Objects' : Contents(o)' = Contents(o)
      /\ f[a] \in Objects' => Contents(f[a])' = Contents(a)
      /\ \A x, y \in Objects' : heap'[x].steps = heap'[y].steps => x = y
  <2>1. held \in [Callers -> SUBSET Cells]
    BY DEF TypeOK
  <2>2. PICK S : S = {a}
    OBVIOUS
  <2>3. S \in SUBSET Objects /\ ExistsInjection(S, Unused) /\ f = Targets(S) /\ a \in S
    BY <1>1, <1>2, <2>2
  <2>4. d \in [IDs -> Cells \cup {Nil}]
    BY <1>4
  <2>5. Settle(Clones(f), ClonedArrays(f), held, d)
    BY <1>1
  <2>6. Pointed(held, d) \subseteq Objects \cup Range(f)
    BY <1>5
  <2>7. held' = held /\ data' = d
    BY <1>1 DEF Settle
  <2>8. Objects' = Pointed(held, d)
    BY <2>7 DEF Objects, Pointed
  <2>9. /\ heap' \in [Cells -> Executions]
        /\ arrays' \in [Cells -> StepStatus]
        /\ \A o \in Objects \cap Objects' : Contents(o)' = Contents(o)
        /\ \A o \in S : f[o] \in Objects' => Contents(f[o])' = Contents(o)
        /\ \A x, y \in Objects' : heap'[x].steps = heap'[y].steps => x = y
    BY <2>1, <2>3, <2>4, <2>5, <2>6, ClonesAreApart
  <2> QED BY <2>3, <2>7, <2>8, <2>9
<1>7. Contents(a) \in Snapshots
  BY <1>2, ObjectsAreCells DEF Contents, Snapshots, Executions, TypeOK
<1>8. TypeOK'
  BY <1>1, <1>2, <1>4, <1>6, <1>7 DEF TypeOK, locks
<1>9. Apart'
  <2>1. \A e \in Callers : f[a] \notin held[e]
    BY <1>3, ObjectsAreCells DEF Unused
  <2>2. \A e \in Callers, id \in IDs : d[id] \notin held[e]
    BY <1>4, <2>1 DEF Apart
  <2> QED BY <1>6, <2>2 DEF Apart
<1>10. Persisted'
  <2> SUFFICES ASSUME NEW id \in IDs, d[id] # Nil
               PROVE  Contents(d[id])' = saved'[id]
    <3>1. data' = d
      BY <1>6
    <3> QED BY <3>1 DEF Persisted, Contents
  <2>1. d[id] \in Objects'
    BY <1>6 DEF Pointed
  <2>2. CASE id = heap[a].id
    <3>1. saved'[id] = Contents(a)
      BY <1>1, <2>2 DEF TypeOK
    <3> QED BY <1>4, <1>6, <2>1, <2>2, <3>1
  <2>3. CASE id # heap[a].id
    <3> PICK r : r = d[id]
      OBVIOUS
    <3>1. saved'[id] = saved[id] /\ r = data[id] /\ r \in Objects /\ r # Nil
      BY <1>1, <1>4, <2>3, ObjectsAreCells DEF TypeOK
    <3>2. Contents(r)' = Contents(r)
      BY <1>6, <2>1, <3>1
    <3>3. Contents(r) = saved[id]
      BY <3>1 DEF Persisted
    <3> QED BY <3>1, <3>2, <3>3
  <2> QED BY <2>2, <2>3
<1> QED BY <1>6, <1>8, <1>9, <1>10 DEF OneMoves

\* Get and ListIncomplete hand out clones (memory.go:56-77).
LEMMA HandKeeps ==
  ASSUME RecordsInv, NEW c \in Callers, NEW S \in SUBSET Objects, Hand(c, S)
  PROVE  RecordsInv' /\ OneMoves
<1> USE DEF RecordsInv
<1> PICK f : f = Targets(S)
  OBVIOUS
<1> PICK hd : hd = [held EXCEPT ![c] = @ \cup Range(f)]
  OBVIOUS
<1>1. /\ ExistsInjection(S, Unused)
      /\ Settle(Clones(f), ClonedArrays(f), hd, data)
      /\ UNCHANGED <<saved, locks>>
  BY DEF Hand
<1>2. Range(f) \subseteq Unused /\ Range(f) \subseteq Cells
  BY <1>1, Cloned DEF Unused
<1>3. /\ hd \in [Callers -> SUBSET Cells]
      /\ \A e \in Callers : hd[e] \subseteq held[e] \cup Range(f)
      /\ \A e \in Callers : held[e] \subseteq hd[e]
  BY <1>2 DEF TypeOK
<1>4. held' = hd /\ data' = data
  BY <1>1 DEF Settle
<1>5. Objects' = Pointed(hd, data)
  BY <1>4 DEF Objects, Pointed
<1>6. Pointed(hd, data) \subseteq Objects \cup Range(f) /\ Objects \subseteq Objects'
  BY <1>3, <1>5 DEF Pointed, Objects
<1>7. /\ heap' \in [Cells -> Executions]
      /\ arrays' \in [Cells -> StepStatus]
      /\ \A o \in Objects \cap Objects' : Contents(o)' = Contents(o)
      /\ \A x, y \in Objects' : heap'[x].steps = heap'[y].steps => x = y
  <2>1. data \in [IDs -> Cells \cup {Nil}]
    BY DEF TypeOK
  <2> QED BY <1>1, <1>3, <1>6, <2>1, ClonesAreApart
<1>8. TypeOK'
  BY <1>1, <1>3, <1>4, <1>7 DEF TypeOK, locks
<1>9. Apart'
  <2> SUFFICES ASSUME NEW e \in Callers, NEW id \in IDs  PROVE data[id] \notin hd[e]
    BY <1>4, <1>7 DEF Apart
  <2>1. data[id] \notin Range(f)
    BY <1>2, ObjectsAreCells, MemoryAssumption DEF Unused
  <2> QED BY <1>3, <2>1 DEF Apart
<1>10. \A id \in IDs : data[id] # Nil => Contents(data[id])' = Contents(data[id])
  <2> SUFFICES ASSUME NEW id \in IDs, data[id] # Nil
               PROVE  Contents(data[id])' = Contents(data[id])
    OBVIOUS
  <2> PICK r : r = data[id]
    OBVIOUS
  <2>1. r \in Objects /\ r \in Objects'
    BY <1>6, ObjectsAreCells
  <2>2. Contents(r)' = Contents(r)
    BY <1>7, <2>1
  <2> QED BY <1>4, <2>2 DEF Contents
<1> QED BY <1>1, <1>4, <1>7, <1>8, <1>9, <1>10, QuietForTheMap DEF OneMoves

LEMMA LocksKeepRecords ==
  ASSUME RecordsInv, UNCHANGED records, TypeOK'
  PROVE  RecordsInv' /\ OneMoves
BY DEF RecordsInv, Apart, Persisted, OneMoves, Objects, Pointed, Contents, records

\* What Acquire and Release leave of the types.
LEMMA LockTypes ==
  ASSUME TypeOK, UNCHANGED records,
         \/ \E c \in Callers, id \in IDs, ttl \in TTLs : Acquire(c, id, ttl)
         \/ \E c \in Callers, id \in IDs : Release(c, id)
         \/ Tick
  PROVE  TypeOK'
<1> USE MemoryAssumption
<1>1. ASSUME NEW c \in Callers, NEW id \in IDs, NEW ttl \in TTLs, Acquire(c, id, ttl)
      PROVE  TypeOK'
  <2>1. now + ttl \in Nat
    BY DEF TypeOK
  <2>2. leases' \in [IDs -> [owner : Callers \cup {Nil}, expires : Nat]]
    BY <1>1, <2>1 DEF Acquire, TypeOK
  <2>3. granted' \in [IDs -> [Callers -> Nat]]
    BY <1>1, <2>1 DEF Acquire, TypeOK
  <2> QED BY <1>1, <2>2, <2>3 DEF Acquire, TypeOK, records
<1>2. ASSUME NEW c \in Callers, NEW id \in IDs, Release(c, id)
      PROVE  TypeOK'
  <2>1. leases' \in [IDs -> [owner : Callers \cup {Nil}, expires : Nat]]
    BY <1>2 DEF Release, TypeOK, NoLease
  <2>2. granted' \in [IDs -> [Callers -> Nat]]
    BY <1>2 DEF Release, TypeOK
  <2> QED BY <1>2, <2>1, <2>2 DEF Release, TypeOK, records
<1>3. ASSUME Tick
      PROVE  TypeOK'
  BY <1>3 DEF Tick, TypeOK, records
<1> QED BY <1>1, <1>2, <1>3

\* Every step keeps the executions apart and the map as it was saved.
LEMMA NextKeepsRecords ==
  ASSUME RecordsInv, [Next]_vars
  PROVE  RecordsInv' /\ OneMoves
<1>0. Reachable \subseteq Status /\ StepReachable \subseteq StepStatus
  BY MemoryAssumption
<1>1. CASE UNCHANGED vars
  <2>1. TypeOK' /\ UNCHANGED records
    BY <1>1 DEF RecordsInv, TypeOK, vars, records, locks
  <2> QED BY <2>1, LocksKeepRecords
<1>2. CASE Tick
  BY <1>2, LockTypes, LocksKeepRecords DEF Tick, RecordsInv
<1>3. ASSUME NEW c \in Callers, CallerStep(c)
      PROVE  RecordsInv' /\ OneMoves
  <2>1. CASE \E id \in IDs : Build(c, id)
    BY <2>1, BuildStep
  <2>2. CASE \E id \in IDs : Get(c, id)
    BY <2>2, HandKeeps, ObjectsAreCells DEF Get, RecordsInv
  <2>3. CASE \E id \in IDs : Release(c, id)
    BY <2>3, LockTypes, LocksKeepRecords DEF Release, RecordsInv
  <2>4. CASE \E a \in held[c] : Save(c, a)
    BY <2>4, SaveKeeps
  <2>5. CASE \E a \in held[c], to \in Reachable : Transition(c, a, to)
    BY <1>0, <2>5, TransitionKeeps
  <2>6. CASE \E a \in held[c], to \in StepReachable : TransitionStep(c, a, to)
    BY <1>0, <2>6, TransitionStepKeeps
  <2>7. CASE Drop(c)
    BY <2>7, DropKeeps
  <2>8. CASE ListIncomplete(c)
    <3>1. Incomplete \in SUBSET Objects
      BY ObjectsAreCells DEF Incomplete, RecordsInv
    <3> QED BY <2>8, <3>1, HandKeeps DEF ListIncomplete
  <2>9. CASE \E id \in IDs, ttl \in TTLs : Acquire(c, id, ttl)
    BY <2>9, LockTypes, LocksKeepRecords DEF Acquire, RecordsInv
  <2> QED BY <1>3, <2>1, <2>2, <2>3, <2>4, <2>5, <2>6, <2>7, <2>8, <2>9
          DEF CallerStep
<1> QED BY <1>1, <1>2, <1>3 DEF Next

LEMMA RecordsInvariant == Spec => []RecordsInv
<1>1. Init => RecordsInv
  <2> SUFFICES ASSUME Init  PROVE RecordsInv
    OBVIOUS
  <2>1. TypeOK
    BY BlankType, MemoryAssumption
       DEF Init, TypeOK, NoLease, StepStatus
  <2>2. Objects = {}
    BY DEF Init, Objects, Pointed
  <2>3. Apart
    BY <2>2 DEF Init, Apart
  <2>4. Persisted
    BY DEF Init, Persisted
  <2> QED BY <2>1, <2>3, <2>4 DEF RecordsInv
<1>2. RecordsInv /\ [Next]_vars => RecordsInv'
  BY NextKeepsRecords
<1> QED BY <1>1, <1>2, PTL DEF Spec

\* Every variable of the Store keeps to its type.
THEOREM MemoryTypes == Spec => []TypeOK
<1>1. RecordsInv => TypeOK
  BY DEF RecordsInv
<1> QED BY <1>1, RecordsInvariant, PTL

\* The map holds what was last saved, whatever callers do to the executions
\* they saved or were given (memory.go:41-77, execution.go:49-73).
THEOREM PersistedIsKept == Spec => []Persisted
<1>1. RecordsInv => Persisted
  BY DEF RecordsInv
<1> QED BY <1>1, RecordsInvariant, PTL

\* No step changes two executions at once: no caller's change shows in the
\* map's execution or in another caller's (execution.go:56-73).
THEOREM OneRecordMovesAtATime == Spec => OneRecordMoves
<1>1. RecordsInv /\ [Next]_vars => [OneMoves]_vars
  BY NextKeepsRecords
<1>2. Spec => [][OneMoves]_vars
  BY <1>1, RecordsInvariant, PTL DEF Spec
<1> QED BY <1>2 DEF OneRecordMoves, OneMoves

-------------------------------------------------------------------------------
(***************************************************************************)
(* The leases.  What owners were told is exactly what the map says.        *)
(***************************************************************************)
Told(id) ==
  /\ \A c \in Callers : now < granted[id][c] =>
       leases[id].owner = c /\ leases[id].expires = granted[id][c]
  /\ now < leases[id].expires =>
       /\ leases[id].owner \in Callers
       /\ granted[id][leases[id].owner] = leases[id].expires

LocksInv == TypeOK /\ \A id \in IDs : Told(id)

\* An Acquire or a Release of one execution says nothing of another.
LEMMA OtherLease ==
  ASSUME NEW id \in IDs, Told(id), leases'[id] = leases[id],
         granted'[id] = granted[id], now' = now
  PROVE  Told(id)' /\ UNCHANGED Holder(id)
BY DEF Told, Holder

\* Acquire takes a lease that is free, has lapsed or is the caller's
\* (memory.go:89-94).
LEMMA AcquireKeeps ==
  ASSUME LocksInv, NEW c \in Callers, NEW id \in IDs, NEW ttl \in TTLs,
         Acquire(c, id, ttl)
  PROVE  /\ Told(id)'
         /\ Holder(id) \in {Nil, c}
         /\ Holder(id)' = IF ttl = 0 THEN Nil ELSE c
         /\ ttl = 0 => granted'[id][c] <= now'
<1> USE DEF LocksInv
<1>1. now \in Nat /\ ttl \in Nat /\ Nil \notin Callers
  BY MemoryAssumption DEF TypeOK
<1>2. leases[id].owner \in {Nil, c} \/ ~(now < leases[id].expires)
  BY DEF Acquire, Refuses
<1>3. /\ leases'[id] = [owner |-> c, expires |-> now + ttl]
      /\ granted'[id] = [granted[id] EXCEPT ![c] = now + ttl]
      /\ now' = now
  BY DEF Acquire, TypeOK
<1>4. granted[id] \in [Callers -> Nat] /\ leases[id].expires \in Nat
  BY DEF TypeOK
<1>5. Holder(id) \in {Nil, c}
  BY <1>2 DEF Holder
<1>6. Holder(id)' = IF ttl = 0 THEN Nil ELSE c
  BY <1>1, <1>3 DEF Holder
<1>7. \A d \in Callers \ {c} : ~(now < granted[id][d])
  BY <1>1, <1>2, <1>4 DEF Told
<1>8. Told(id)'
  BY <1>1, <1>3, <1>4, <1>7 DEF Told
<1>9. ttl = 0 => granted'[id][c] <= now'
  BY <1>1, <1>3, <1>4
<1> QED BY <1>5, <1>6, <1>8, <1>9

\* Release gives up the caller's own lease only (memory.go:97-106).
LEMMA ReleaseKeeps ==
  ASSUME LocksInv, NEW c \in Callers, NEW id \in IDs, Release(c, id)
  PROVE  /\ Told(id)'
         /\ Holder(id)' = IF Holder(id) = c THEN Nil ELSE Holder(id)
         /\ c \in Released(id)
<1> USE DEF LocksInv
<1>1. now \in Nat /\ Nil \notin Callers /\ granted[id] \in [Callers -> Nat]
  BY MemoryAssumption DEF TypeOK
<1>2. /\ leases'[id] = IF leases[id].owner = c THEN NoLease ELSE leases[id]
      /\ granted'[id] = [granted[id] EXCEPT ![c] = 0]
      /\ now' = now
  BY DEF Release, TypeOK
<1>a. c \in Released(id)
  BY <1>1, <1>2 DEF Released
<1>3. CASE leases[id].owner = c
  <2>1. leases'[id].owner = Nil /\ leases'[id].expires = 0
    BY <1>2, <1>3 DEF NoLease
  <2>2. \A d \in Callers : ~(now < granted'[id][d])
    BY <1>1, <1>2, <1>3 DEF Told
  <2> QED BY <1>1, <1>2, <1>a, <1>3, <2>1, <2>2 DEF Told, Holder
<1>4. CASE leases[id].owner # c
  <2>1. leases'[id] = leases[id] /\ \A d \in Callers \ {c} : granted'[id][d] = granted[id][d]
    BY <1>1, <1>2, <1>4
  <2>2. granted'[id][c] = 0
    BY <1>1, <1>2
  <2> QED BY <1>1, <1>2, <1>a, <1>4, <2>1, <2>2 DEF Told, Holder
<1> QED BY <1>3, <1>4

\* The passing of time only ends leases whose time is over.
LEMMA TickKeeps ==
  ASSUME LocksInv, Tick, NEW id \in IDs
  PROVE  /\ Told(id)'
         /\ Holder(id)' = Holder(id) \/ (Holder(id)' = Nil /\ Over(id))
<1>1. /\ now \in Nat /\ now' = now + 1 /\ leases' = leases /\ granted' = granted
      /\ leases[id].expires \in Nat /\ granted[id] \in [Callers -> Nat]
  BY DEF LocksInv, Tick, TypeOK
<1>2. \A n \in Nat : now' < n => now < n
  BY <1>1
<1>3. Told(id)'
  BY <1>1, <1>2 DEF LocksInv, Told
<1>4. CASE ~(now < leases[id].expires)
  <2>1. ~(now' < leases'[id].expires)
    BY <1>1, <1>2, <1>4
  <2> QED BY <1>3, <1>4, <2>1 DEF Holder
<1>5. CASE now < leases[id].expires /\ now' < leases'[id].expires
  BY <1>1, <1>3, <1>5 DEF Holder
<1>6. CASE now < leases[id].expires /\ ~(now' < leases'[id].expires)
  <2>1. Holder(id) = leases[id].owner /\ Holder(id)' = Nil
    BY <1>6 DEF Holder
  <2>2. leases[id].owner \in Callers
        /\ granted[id][leases[id].owner] = leases[id].expires
    BY <1>6 DEF LocksInv, Told
  <2>3. granted'[id][Holder(id)] <= now'
    BY <1>1, <1>6, <2>1, <2>2
  <2>4. Holder(id) # Nil
    BY <2>1, <2>2, MemoryAssumption
  <2> QED BY <1>3, <2>1, <2>3, <2>4 DEF Over
<1> QED BY <1>4, <1>5, <1>6

\* A step of the Store is a step of the lock of each execution, or none.
LockMove(id) ==
  Lock(id)!LockNext(Over(id), Released(id)) \/ UNCHANGED Holder(id)

LockMoves == \A id \in IDs : LockMove(id)

LEMMA NextKeepsLocks ==
  ASSUME LocksInv, TypeOK', [Next]_vars
  PROVE  LocksInv' /\ LockMoves
<1> USE DEF LocksInv
<1>a. Nil \notin Callers
  BY MemoryAssumption
<1>1. CASE UNCHANGED locks
  BY <1>1 DEF locks, Told, Holder, LockMoves, LockMove
<1>2. CASE Tick
  <2> SUFFICES ASSUME NEW id \in IDs
               PROVE  Told(id)' /\ LockMove(id)
    BY DEF LockMoves
  <2>1. Told(id)' /\ (Holder(id)' = Holder(id) \/ (Holder(id)' = Nil /\ Over(id)))
    BY <1>2, TickKeeps
  <2>2. Over(id) => Holder(id) # Nil
    BY DEF Over
  <2> QED BY <2>1, <2>2 DEF LockMove, Lock!LockNext, Lock!Expire
<1>3. ASSUME NEW c \in Callers, NEW id \in IDs, NEW ttl \in TTLs, Acquire(c, id, ttl)
      PROVE  LocksInv' /\ LockMoves
  <2>1. /\ Told(id)' /\ Holder(id) \in {Nil, c}
        /\ Holder(id)' = IF ttl = 0 THEN Nil ELSE c
        /\ ttl = 0 => granted'[id][c] <= now'
    BY <1>3, AcquireKeeps
  <2>2. ttl = 0 /\ Holder(id) = c => Over(id)
    BY <2>1, <1>a DEF Over
  <2>3. LockMove(id)
    BY <2>1, <2>2, <1>a
       DEF LockMove, Lock!LockNext, Lock!Expire, Lock!Take, Lock!Available
  <2>4. \A i \in IDs \ {id} : Told(i)' /\ UNCHANGED Holder(i)
    BY <1>3, OtherLease DEF Acquire, TypeOK
  <2> QED BY <2>1, <2>3, <2>4 DEF LockMoves, LockMove
<1>4. ASSUME NEW c \in Callers, NEW id \in IDs, Release(c, id)
      PROVE  LocksInv' /\ LockMoves
  <2>1. /\ Told(id)'
        /\ Holder(id)' = IF Holder(id) = c THEN Nil ELSE Holder(id)
        /\ c \in Released(id)
    BY <1>4, ReleaseKeeps
  <2>2. LockMove(id)
    BY <2>1 DEF LockMove, Lock!LockNext, Lock!GiveUp
  <2>3. \A i \in IDs \ {id} : Told(i)' /\ UNCHANGED Holder(i)
    BY <1>4, OtherLease DEF Release, TypeOK
  <2> QED BY <2>1, <2>2, <2>3 DEF LockMoves, LockMove
<1>5. \/ UNCHANGED locks
      \/ Tick
      \/ \E c \in Callers, id \in IDs, ttl \in TTLs : Acquire(c, id, ttl)
      \/ \E c \in Callers, id \in IDs : Release(c, id)
  BY DEF Next, CallerStep, Build, Get, Save, Transition, TransitionStep, Drop,
         ListIncomplete, Hand, vars, locks
<1> QED BY <1>1, <1>2, <1>3, <1>4, <1>5

LEMMA LocksInvariant == Spec => []LocksInv
<1>1. Init => \A id \in IDs : Told(id)
  BY DEF Init, Told, NoLease
<1>2. Init /\ TypeOK => LocksInv
  BY <1>1 DEF LocksInv
<1>3. LocksInv /\ TypeOK' /\ [Next]_vars => LocksInv'
  BY NextKeepsLocks
<1> QED BY <1>2, <1>3, MemoryTypes, PTL DEF Spec

\* Two owners are never both within the time they were granted
\* (lock.go:13-17, memory.go:89-94).
THEOREM OneHolderAtATime == Spec => []OneHolder
<1>1. LocksInv => OneHolder
  BY DEF LocksInv, Told, OneHolder
<1> QED BY <1>1, LocksInvariant, PTL

\* Acquire refuses an owner just as long as another one is within the time it
\* was granted (memory.go:79-95).
THEOREM RefusalsAreWarranted == Spec => []RefusalIsWarranted
<1>1. LocksInv => RefusalIsWarranted
  BY MemoryAssumption DEF LocksInv, Told, RefusalIsWarranted, Refuses
<1> QED BY <1>1, LocksInvariant, PTL

\* The lease map implements, for each execution, the lock the engine's model
\* is built on (lock.go:13-43, memory.go:79-106).
THEOREM LocksAreRefined == Spec => LockRefined
<1>1. LocksInv /\ TypeOK' /\ [Next]_vars => [LockMoves]_vars
  BY NextKeepsLocks
<1>2. Spec => [][LockMoves]_vars
  BY <1>1, LocksInvariant, MemoryTypes, PTL DEF Spec
<1> QED BY <1>2 DEF LockRefined, LockMoves, LockMove

\* The same as a refinement: what the map says of one execution is a behaviour
\* of the lock, from its initial state on.
THEOREM LeasesImplementLocks ==
  ASSUME NEW id \in IDs
  PROVE  Spec => Lock(id)!LockSpec(Over(id), Released(id))
<1>1. Init => Lock(id)!LockInit
  BY DEF Init, NoLease, Holder, Lock!LockInit
<1>2. LocksInv /\ TypeOK' /\ [Next]_vars =>
        [Lock(id)!LockNext(Over(id), Released(id))]_(Holder(id))
  BY NextKeepsLocks DEF LockMoves, LockMove
<1> QED BY <1>1, <1>2, LocksInvariant, MemoryTypes, PTL DEF Spec, Lock!LockSpec
===============================================================================
