-------------------------- MODULE SagaObserversProofs -------------------------
(***************************************************************************)
(* Proofs about what the observers of an execution hear.  Who hears at     *)
(* least as much as whom is a matter of one round, for any number of       *)
(* workers.  That what is heard is final, and told in order, is about      *)
(* calls that do not overlap, and builds on SagaSoloProofs: a save is one  *)
(* transition ahead of the store, and an event names that transition.      *)
(* What an audience misses is counted against the faults that cost it.     *)
(***************************************************************************)
EXTENDS SagaSoloProofs, SagaObservers, FiniteSetTheorems

USE StepsAssumption, LeaseAssumption, EngineAssumption, ObserverAssumption
    DEF Steps

-------------------------------------------------------------------------------
(***************************************************************************)
(* Rounds.                                                                 *)
(***************************************************************************)

\* The audiences one event can reach: the publishers up to some one, and the
\* Metrics or not.
Reach == {A \in SUBSET Audiences :
            \E k \in Publishers : A = 1..k \/ A = (1..k) \cup {Metrics}}

\* heard[a] is a sequence, whatever it is of.
Heard == \A a \in Audiences : \E S : heard[a] \in Seq(S)

\* The event of w reaches some of its audience as w leaves notify.
Tells(w, A) ==
  /\ pc[w] = "notify" /\ pc'[w] # "notify" /\ EventAt(w) # NoEvent
  /\ Hear(EventAt(w), A)

\* A step of w is silent, or tells of one event (execute.go:639-663,
\* events.go:61-65).
LEMMA AnnounceReaches ==
  ASSUME NEW w, Announce(w)
  PROVE  UNCHANGED heard \/ \E A \in Reach : Tells(w, A)
<1> DEFINE N == NPublishers
<1>1. /\ Published(N) \cup {} \in Reach
      /\ Published(N) \cup {Metrics} \in Reach
  BY DEF Reach, Published, Publishers, Audiences, Metrics
<1>2. \A k \in 1..(N - 1) :
        /\ Published(k) \cup {} \in Reach
        /\ Published(k) \cup {Metrics} \in Reach
  BY DEF Reach, Published, Publishers, Audiences, Metrics
<1>3. \A S \in {{}, {Metrics}} :
        Round(EventAt(w), S) => \E A \in Reach : Hear(EventAt(w), A)
  BY <1>1, <1>2 DEF Round
<1>4. UNCHANGED heard \/
        /\ pc[w] = "notify" /\ pc'[w] # "notify" /\ EventAt(w) # NoEvent
        /\ Round(EventAt(w), {}) \/ Round(EventAt(w), {Metrics})
  BY DEF Announce, Silent, At
<1> QED
  BY <1>3, <1>4 DEF Tells

\* What one event adds to what an audience has heard.
LEMMA OneMore ==
  ASSUME Heard, NEW e, NEW A \in Reach, Hear(e, A), NEW a \in Audiences
  PROVE  /\ \E S : heard'[a] \in Seq(S)
         /\ a \in A => /\ heard'[a] = Append(heard[a], e)
                       /\ Said(a)' = Said(a) \cup {e}
         /\ a \notin A => heard'[a] = heard[a] /\ Said(a)' = Said(a)
<1>1. heard'[a] = IF a \in A THEN Append(heard[a], e) ELSE heard[a]
  BY DEF Hear
<1>2. PICK S : heard[a] \in Seq(S)
  BY DEF Heard
<1>3. CASE a \in A
  <2>1. heard[a] \in Seq(S \cup {e})
    BY <1>2
  <2>2. /\ Len(heard'[a]) = Len(heard[a]) + 1 /\ Len(heard[a]) \in Nat
        /\ heard'[a][Len(heard[a]) + 1] = e
        /\ \A n \in 1..Len(heard[a]) : heard'[a][n] = heard[a][n]
        /\ heard'[a] \in Seq(S \cup {e})
    BY <1>1, <1>3, <2>1
  <2>3. Said(a)' = Said(a) \cup {e}
    BY <2>2 DEF Said
  <2> QED
    BY <1>1, <1>3, <2>2, <2>3
<1>4. CASE a \notin A
  BY <1>1, <1>2, <1>4 DEF Said
<1> QED
  BY <1>3, <1>4

\* A step of ObservedNext, as far as its audiences go.
LEMMA StepTells ==
  ASSUME [ObservedNext]_observed
  PROVE  \/ UNCHANGED heard
         \/ \E w \in Workers : WorkerStep(w) /\ \E A \in Reach : Tells(w, A)
<1>1. CASE UNCHANGED observed
  BY <1>1 DEF observed
<1>2. CASE ObservedNext
  BY <1>2, AnnounceReaches DEF ObservedNext, Silent, WorkerStep
<1> QED
  BY <1>1, <1>2

\* What an audience has heard stays a sequence.
LEMMA HeardNext ==
  ASSUME Heard, [ObservedNext]_observed
  PROVE  Heard'
<1>1. CASE UNCHANGED heard
  BY <1>1 DEF Heard
<1>2. ASSUME NEW w \in Workers, NEW A \in Reach, Tells(w, A)
      PROVE  Heard'
  BY <1>2, OneMore DEF Heard, Tells
<1> QED
  BY <1>1, <1>2, StepTells

\* An earlier publisher hears all that a later one does, and the first all that
\* anybody does, whatever publishers, Loggers and Metrics panic: a panic ends
\* a round for those behind it (events.go:58-65, execute.go:646-663).
THEOREM FirstHearsAll == ObservedSpec => []EarlierHearsMore
<1>1. ObservedInit => Heard /\ EarlierHearsMore
  BY DEF ObservedInit, Heard, EarlierHearsMore, Said, Audiences
<1>2. Heard /\ EarlierHearsMore /\ [ObservedNext]_observed
        => Heard' /\ EarlierHearsMore'
  <2> SUFFICES ASSUME Heard, EarlierHearsMore, [ObservedNext]_observed
               PROVE  EarlierHearsMore'
    BY HeardNext
  <2>1. CASE UNCHANGED heard
    <3>1. \A a : Said(a)' = Said(a)
      BY <2>1 DEF Said
    <3> QED
      BY <3>1 DEF EarlierHearsMore
  <2>2. ASSUME NEW w \in Workers, NEW A \in Reach, Tells(w, A),
               NEW a \in Audiences, NEW b \in Audiences,
               a < b, a = 1 \/ b # Metrics
        PROVE  Said(b)' \subseteq Said(a)'
    <3>1. b \in A => a \in A
      BY <2>2 DEF Reach, Publishers, Audiences, Metrics
    <3>2. Said(b) \subseteq Said(a)
      BY <2>2 DEF EarlierHearsMore
    <3> QED
      BY <2>2, <3>1, <3>2, OneMore DEF Tells
  <2> QED
    BY <2>1, <2>2, StepTells DEF EarlierHearsMore
<1> QED
  BY <1>1, <1>2, PTL DEF ObservedSpec

-------------------------------------------------------------------------------
(***************************************************************************)
(* The vocabulary: the event of a lawful transition is new, and comes      *)
(* after those of all the transitions that lie behind the record.          *)
(***************************************************************************)

\* The events that record r has of step i.
OfStep(r, i) ==
  {type \in {"STEP_STARTED", "STEP_COMPLETED", "STEP_FAILED",
             "COMPENSATION_STARTED", "COMPENSATION_COMPLETED",
             "COMPENSATION_FAILED"} :
     \/ type = "STEP_STARTED" /\ r.steps[i] # "PENDING"
     \/ type = "STEP_COMPLETED" /\ Reached(r.steps[i])
     \/ type = "STEP_FAILED" /\ r.steps[i] = "FAILED"
     \/ type = "COMPENSATION_STARTED" /\ InCompensation(r.steps[i])
     \/ type = "COMPENSATION_COMPLETED" /\ r.steps[i] = "COMPENSATED"
     \/ type = "COMPENSATION_FAILED" /\ r.steps[i] = "COMPENSATION_FAILED"}

\* The events that record r has of the execution itself.
OfSaga(r) ==
  {type \in {"SAGA_STARTED", "SAGA_COMPLETED", "SAGA_FAILED"} :
     \/ type = "SAGA_STARTED" /\ r.status \notin {"ABSENT", "PENDING"}
     \/ type = "SAGA_COMPLETED" /\ r.status = "COMPLETED"
     \/ /\ type = "SAGA_FAILED"
        /\ r.status \in {"FAILED", "COMPENSATED", "COMPENSATION_FAILED"}}

\* A record's history, its execution and its steps apart.
LEMMA HistoryParts ==
  ASSUME NEW r, NEW e
  PROVE  e \in History(r) <=>
           \/ \E type \in OfSaga(r) : e = Event(type, 0)
           \/ \E i \in Steps : \E type \in OfStep(r, i) : e = Event(type, i)
BY DEF History, OfSaga, OfStep

\* An execution that moves keeps its history, and what is new comes last
\* (events.go:9-37, execute.go:559-568, 605-620).
LEMMA TurnIsNews ==
  ASSUME NEW r \in Records, NEW q \in Records, WellFormed(r),
         q.steps = r.steps, Turns(r, q.status), NEW e,
         e = SagaEvent(q.status)
  PROVE  /\ History(r) \subseteq History(q)
         /\ e # NoEvent =>
              e \in History(q) /\ \A x \in History(r) : Place(x) < Place(e)
<1>1. /\ \A type \in OfSaga(r) : type \in OfSaga(q)
      /\ \A i \in Steps : OfStep(q, i) = OfStep(r, i)
  BY DEF OfSaga, OfStep, Turns
<1>2. History(r) \subseteq History(q)
  BY <1>1, HistoryParts
<1>3. CASE q.status = "COMPENSATING"
  BY <1>2, <1>3 DEF SagaEvent, SagaEventType
<1>4. CASE q.status = "RUNNING"
  <2>1. e = Event("SAGA_STARTED", 0)
    BY <1>4 DEF SagaEvent, SagaEventType
  <2>2. "SAGA_STARTED" \in OfSaga(q)
    BY <1>4 DEF OfSaga
  <2>3. /\ OfSaga(r) = {}
        /\ \A i \in Steps : OfStep(r, i) = {}
    BY <1>4 DEF Turns, OfSaga, OfStep, WellFormed, Truthful, Reached,
       InCompensation, Settled
  <2> QED
    BY <1>2, <2>1, <2>2, <2>3, HistoryParts
<1>5. CASE q.status \in Terminal
  <2>1. PICK type \in OfSaga(q) \ {"SAGA_STARTED"} : e = Event(type, 0)
    BY <1>5 DEF SagaEvent, SagaEventType, OfSaga, Terminal
  <2>2. Place(e) = 4 * NSteps + 4
    BY <2>1 DEF Place, Event, OfSaga
  <2>3. \A t \in OfSaga(r) : t = "SAGA_STARTED"
    BY <1>5 DEF OfSaga, Turns, Terminal
  <2>4. Place(Event("SAGA_STARTED", 0)) = 0
    BY DEF Place, Event
  <2>5. \A i \in Steps : \A t \in OfStep(r, i) :
          Place(Event(t, i)) < 4 * NSteps + 4
    BY DEF Place, Event, OfStep
  <2>6. \A x \in History(r) : Place(x) < Place(e)
    BY <2>2, <2>3, <2>4, <2>5, HistoryParts
  <2>7. e \in History(q)
    <3>1. \E t \in OfSaga(q) : e = Event(t, 0)
      BY <2>1
    <3> QED
      BY <3>1, HistoryParts
  <2> QED
    BY <1>2, <2>6, <2>7
<1> QED
  BY <1>3, <1>4, <1>5 DEF Turns, Terminal

\* So does a step that moves (events.go:9-37, execute.go:571-580, 622-637).
LEMMA MoveIsNews ==
  ASSUME NEW r \in Records, NEW q \in Records, WellFormed(r),
         q.status = r.status, NEW i \in Steps, NEW s \in StepStatus,
         Moves(r, i, s), q.steps = [r.steps EXCEPT ![i] = s], NEW e,
         e = Event(StepEventType[s], i)
  PROVE  /\ History(r) \subseteq History(q)
         /\ e \in History(q) /\ \A x \in History(r) : Place(x) < Place(e)
<1>1. /\ q.steps[i] = s
      /\ \A j \in Steps \ {i} : q.steps[j] = r.steps[j]
      /\ s \in {"RUNNING", "SUCCEEDED", "FAILED", "COMPENSATING",
                "COMPENSATED", "COMPENSATION_FAILED"}
  BY DEF Records, Moves
<1>2. /\ OfSaga(q) = OfSaga(r)
      /\ \A j \in Steps \ {i} : OfStep(q, j) = OfStep(r, j)
  BY <1>1 DEF OfSaga, OfStep
<1>3. OfStep(r, i) \subseteq OfStep(q, i)
  BY <1>1 DEF OfStep, Moves, Reached, InCompensation, Settled
<1>4. StepEventType[s] \in OfStep(q, i)
  BY <1>1 DEF StepEventType, OfStep, Reached, InCompensation, Settled
<1>5. History(r) \subseteq History(q) /\ e \in History(q)
  BY <1>2, <1>3, <1>4, HistoryParts
<1>6. /\ OfSaga(r) \subseteq {"SAGA_STARTED"}
      /\ Place(Event("SAGA_STARTED", 0)) = 0 /\ 0 < Place(e)
  BY <1>1 DEF OfSaga, Moves, Place, Event, StepEventType
<1>7. ASSUME NEW j \in Steps, NEW t \in OfStep(r, j)
      PROVE  Place(Event(t, j)) < Place(e)
  <2>1. CASE s = "RUNNING"
    <3>1. Place(e) = 2 * i
      BY <2>1 DEF Place, Event, StepEventType
    <3>2. r.steps[j] # "PENDING"
      BY <1>7 DEF OfStep, Reached, InCompensation, Settled
    <3>3. j < i /\ r.steps[j] = "SUCCEEDED"
      BY <2>1, <3>2 DEF Moves, WellFormed, Sequential, Reached
    <3>4. t \in {"STEP_STARTED", "STEP_COMPLETED"}
      BY <1>7, <3>3 DEF OfStep, InCompensation, Settled
    <3> QED
      BY <3>1, <3>3, <3>4 DEF Place, Event
  <2>2. CASE s \in {"SUCCEEDED", "FAILED"}
    <3>1. Place(e) = 2 * i + 1
      BY <2>2 DEF Place, Event, StepEventType
    <3>2. /\ r.steps[i] = "RUNNING" /\ r.status = "RUNNING"
          /\ ~InCompensation(r.steps[j])
      BY <2>2 DEF Moves, WellFormed, ForwardOnly, RollingBack
    <3>3. t \in {"STEP_STARTED", "STEP_COMPLETED", "STEP_FAILED"}
      BY <1>7, <3>2 DEF OfStep, InCompensation, Settled
    <3>4. r.steps[j] # "PENDING"
      BY <1>7 DEF OfStep, Reached, InCompensation, Settled
    <3>5. j <= i /\ (j = i => t = "STEP_STARTED")
      BY <1>7, <3>2, <3>3, <3>4 DEF OfStep, WellFormed, Sequential, Reached
    <3> QED
      BY <3>1, <3>3, <3>5 DEF Place, Event
  <2>3. CASE s = "COMPENSATING"
    <3>1. Place(e) = 4 * NSteps + 2 - 2 * i
      BY <2>3 DEF Place, Event, StepEventType
    <3>2. /\ r.steps[i] = "SUCCEEDED" /\ i \in Compensable
          /\ r.status = "COMPENSATING"
      BY <2>3 DEF Moves
    <3>3. Reached(r.steps[i]) /\ ~Settled(r.steps[i])
      BY <3>2 DEF Reached, Settled
    <3>4. InCompensation(r.steps[j]) => i < j
      BY <3>2, <3>3 DEF WellFormed, ReverseOrder, InCompensation, Settled
    <3>5. i < NSteps
      BY <3>2, <3>3 DEF WellFormed, Truthful, RollingBack
    <3>6. t \in {"COMPENSATION_STARTED", "COMPENSATION_COMPLETED",
                 "COMPENSATION_FAILED"} => InCompensation(r.steps[j])
      BY <1>7 DEF OfStep, InCompensation, Settled
    <3> QED
      BY <1>7, <3>1, <3>4, <3>5, <3>6 DEF Place, Event, OfStep
  <2>4. CASE s \in {"COMPENSATED", "COMPENSATION_FAILED"}
    <3>1. Place(e) = 4 * NSteps + 3 - 2 * i
      BY <2>4 DEF Place, Event, StepEventType
    <3>2. r.steps[i] = "COMPENSATING" /\ r.status = "COMPENSATING"
      BY <2>4 DEF Moves
    <3>3. /\ Reached(r.steps[i]) /\ ~Settled(r.steps[i])
          /\ i \in Compensable
      BY <3>2 DEF Reached, Settled, WellFormed, ForwardOnly, InCompensation
    <3>4. InCompensation(r.steps[j]) => i <= j
      BY <3>2, <3>3 DEF WellFormed, ReverseOrder, InCompensation, Settled
    <3>5. i < NSteps
      BY <3>2, <3>3 DEF WellFormed, Truthful, RollingBack
    <3>6. /\ t \in {"COMPENSATION_STARTED", "COMPENSATION_COMPLETED",
                   "COMPENSATION_FAILED"} => InCompensation(r.steps[j])
          /\ j = i => t \in {"STEP_STARTED", "STEP_COMPLETED",
                             "COMPENSATION_STARTED"}
      BY <1>7, <3>2 DEF OfStep, InCompensation, Settled
    <3> QED
      BY <1>7, <3>1, <3>4, <3>5, <3>6 DEF Place, Event, OfStep
  <2> QED
    BY <1>1, <2>1, <2>2, <2>3, <2>4
<1> QED
  BY <1>5, <1>6, <1>7, HistoryParts

-------------------------------------------------------------------------------
(***************************************************************************)
(* The invariant.  A transition that is being saved is of the step that    *)
(* next and cur tell, or of the execution; one that has been saved and not *)
(* yet told is in the store and in nobody's ears.                          *)
(***************************************************************************)

\* What is being saved is about Subject(w).
Names(w) ==
  pc[w] \in {"renew", "save"} =>
    IF Subject(w) = 0 THEN exec[w].status # store.status
    ELSE /\ Subject(w) \in Steps
         /\ exec[w].steps[Subject(w)] # store.steps[Subject(w)]

\* The event of w is true, and news to everybody.
IsNews(w) ==
  pc[w] = "notify" /\ EventAt(w) # NoEvent =>
    /\ EventAt(w) \in History(store)
    /\ \A a \in Audiences : \A x \in Said(a) : Place(x) < Place(EventAt(w))

HeardInv ==
  /\ Heard /\ EventsAreFinal /\ ToldInOrder
  /\ \A w \in Workers : Names(w) /\ IsNews(w)

\* Where a step goes to be saved, the call has noted which it is
\* (execute.go:571-580).
LEMMA StepNamed ==
  ASSUME TypeInv, TrackInv, NEW w \in Workers, Sound(w), pc[w] \in Deciding,
         store' = store,
         NEW i \in Steps, NEW to \in StepStatus, NEW l \in Continuations,
         TransitionStep(w, i, to, l),
         \/ l \in {"attempt", "abort", "compensate"} /\ cur'[w] = i
         \/ l = "forward" /\ cur'[w] = i + 1
         \/ l = "undo" /\ cur'[w] = i - 1
  PROVE  Names(w)'
<1>1. CanTransitionStepStatus(exec[w].steps[i], to)
  BY DEF TransitionStep, Finish, Sound, TypeInv, TypeOK, ControlTypes
<1>2. /\ exec[w] \in Records /\ exec'[w] \in Records
      /\ WithStep(exec[w], exec'[w], i, to)
  BY <1>1, StepAdvances
<1>3. next'[w] = l
  BY <1>1 DEF TransitionStep, Persist, TypeInv, TypeOK, ControlTypes
<1>4. Subject(w)' = i
  BY <1>3 DEF Subject
<1>5. exec[w].steps[i] # to
  BY <1>1 DEF CanTransitionStepStatus, StepStatusTransitions
<1>6. exec[w].steps = store.steps
  BY DEF TrackInv, Tracks, Agrees
<1>7. exec'[w].steps[i] # store'.steps[i]
  BY <1>2, <1>5, <1>6 DEF WithStep, Records
<1> QED
  BY <1>4, <1>7 DEF Names

\* The same for the execution itself (execute.go:559-568).
LEMMA ExecNamed ==
  ASSUME TypeInv, TrackInv, NEW w \in Workers, Sound(w), pc[w] \in Deciding,
         store' = store,
         NEW to \in Status, NEW l \in {"resume", "rollback", "release"},
         TransitionExec(w, to, l)
  PROVE  Names(w)'
<1>1. CanTransitionStatus(exec[w].status, to)
  BY DEF TransitionExec, Finish, Sound, TypeInv, TypeOK, ControlTypes
<1>2. /\ exec[w] \in Records /\ exec'[w] \in Records
      /\ WithStatus(exec[w], exec'[w], to)
  BY <1>1, ExecAdvances DEF Continuations
<1>3. next'[w] = l
  BY <1>1 DEF TransitionExec, Persist, TypeInv, TypeOK, ControlTypes
<1>4. Subject(w)' = 0
  BY <1>3 DEF Subject
<1>5. exec[w].status # to
  BY <1>1 DEF CanTransitionStatus, StatusTransitions
<1>6. exec[w].status = store.status
  BY DEF TrackInv, Tracks, Agrees
<1> QED
  BY <1>2, <1>4, <1>5, <1>6 DEF Names, WithStatus

\* No other step of a call comes to save anything.
LEMMA WorkerNamed ==
  ASSUME TypeInv, ShapeInv, TrackInv, HeardInv, NEW w \in Workers,
         WorkerStep(w)
  PROVE  pc'[w] \in {"renew", "save"} => Names(w)'
<1> USE DEF TypeInv, TypeOK, ControlTypes, At, Goto, Finish, outside, locals,
        ghosts
<1>0. Sound(w)
  BY WorkerSound
<1>1. CASE \/ BeginRun(w) \/ FinishRun(w) \/ AbortFailed(w)
           \/ AbortCompensating(w) \/ FinishRollback(w)
  <2>1. RollbackOutcome(exec[w], failedAt[w]) \in Status
    BY DEF RollbackOutcome, Status
  <2>2. store' = store /\ pc[w] \in Deciding
    BY <1>1 DEF BeginRun, FinishRun, AbortFailed, AbortCompensating,
       FinishRollback, Deciding
  <2>3. \E to \in Status, l \in {"resume", "rollback", "release"} :
          TransitionExec(w, to, l)
    BY <1>1, <2>1 DEF BeginRun, FinishRun, AbortFailed, AbortCompensating,
       FinishRollback, Status
  <2> QED
    BY <1>0, <2>2, <2>3, ExecNamed DEF TypeInv
<1>2. CASE StartStep(w) \/ ActionReturns(w) \/ UndoReturns(w)
           \/ GiveUpStep(w) \/ Backoff(w)
  <2>1. /\ store' = store /\ pc[w] \in Deciding /\ cur[w] \in Steps
        /\ pc[w] # "renew"
    BY <1>2, HandAt DEF StartStep, ActionReturns, UndoReturns, GiveUpStep,
       Backoff, Deciding, Stepping, TypeInv
  <2>2. CASE TransitionStep(w, cur[w], "RUNNING", "attempt") /\ cur' = cur
    BY <1>0, <2>1, <2>2, StepNamed DEF StepStatus, Continuations
  <2>3. CASE FailStep(w) /\ cur' = cur
    BY <1>0, <2>1, <2>3, StepNamed DEF StepStatus, Continuations, FailStep
  <2>4. CASE /\ TransitionStep(w, cur[w], "SUCCEEDED", "forward")
             /\ cur'[w] = cur[w] + 1
    BY <1>0, <2>1, <2>4, StepNamed DEF StepStatus, Continuations
  <2>5. CASE /\ \/ TransitionStep(w, cur[w], "COMPENSATED", "undo")
                \/ TransitionStep(w, cur[w], "COMPENSATION_FAILED", "undo")
             /\ cur'[w] = cur[w] - 1
    BY <1>0, <2>1, <2>5, StepNamed DEF StepStatus, Continuations
  <2> QED
    BY <1>2, <2>2, <2>3, <2>4, <2>5 DEF StartStep, ActionReturns, UndoReturns,
       GiveUpStep, Backoff, HandTypes
<1>3. CASE UndoStep(w)
  <2>1. PICK i \in Steps :
          /\ cur'[w] = i
          /\ IF exec[w].steps[i] = "SUCCEEDED"
             THEN TransitionStep(w, i, "COMPENSATING", "compensate")
             ELSE Goto(w, "compensate")
    BY <1>3 DEF UndoStep, HandTypes
  <2>2. store' = store /\ pc[w] = "undo"
    BY <1>3 DEF UndoStep
  <2>3. CASE TransitionStep(w, i, "COMPENSATING", "compensate")
    BY <1>0, <2>1, <2>2, <2>3, StepNamed DEF StepStatus, Continuations, Deciding
  <2> QED
    BY <2>1, <2>3
<1>4. CASE RenewLease(w) \/ ContextEnds(w)
  <2>1. CASE pc[w] \in {"renew", "save"}
    <3>1. /\ store' = store /\ exec' = exec
          /\ next' = next /\ cur' = cur
      BY <1>4 DEF RenewLease, ContextEnds
    <3>2. Subject(w)' = Subject(w)
      BY <3>1 DEF Subject
    <3> QED
      BY <2>1, <3>1, <3>2 DEF HeardInv, Names
  <2> QED
    BY <1>4, <2>1 DEF RenewLease, ContextEnds
<1>5. CASE Notify(w)
  BY <1>5 DEF Notify, InHand, Continuations
<1>6. CASE \/ Execute(w) \/ SaveInitial(w) \/ Recover(w) \/ AcquireLease(w)
           \/ ResumeFailedStep(w) \/ ResumeForward(w) \/ ResumeCompensating(w)
           \/ StopForward(w) \/ RetryInterruptedStep(w) \/ Invoke(w)
           \/ Rollback(w) \/ InvokeCompensate(w)
  BY <1>6 DEF Execute, SaveInitial, Leave, Recover, AcquireLease, ResumeFailedStep,
     ResumeForward, ResumeCompensating, StopForward, RetryInterruptedStep,
     Invoke, Rollback, InvokeCompensate
<1>7. CASE \/ Save(w) \/ Release(w) \/ Crash(w) \/ PanicInStep(w)
           \/ PanicInObserver(w) \/ ActionApplies(w) \/ UndoApplies(w)
  BY <1>7 DEF Save, Release, Crash, PanicInStep, PanicInObserver,
     ActionApplies, UndoApplies
<1> QED
  BY <1>1, <1>2, <1>3, <1>4, <1>5, <1>6, <1>7
     DEF WorkerStep, Engine, Downstream, Environment

\* What follows a record keeps its history.
LEMMA HistoryGrows ==
  ASSUME NEW r \in Records, NEW q \in Records, WellFormed(r), Follows(q, r)
  PROVE  History(r) \subseteq History(q)
<1>1. CASE q.steps = r.steps /\ Turns(r, q.status)
  <2>1. q.steps = r.steps /\ Turns(r, q.status)
    BY <1>1
  <2> QED
    BY <2>1, TurnIsNews, Zenon
<1>2. ASSUME NEW i \in Steps, NEW s \in StepStatus, q.status = r.status,
             Moves(r, i, s), q.steps = [r.steps EXCEPT ![i] = s]
      PROVE  History(r) \subseteq History(q)
  BY <1>2, MoveIsNews
<1> QED
  BY <1>1, <1>2, Zenon DEF Follows

\* The event of what is being saved will be true of what is then in the store,
\* and is news (execute.go:559-580).
LEMMA SavedIsNews ==
  ASSUME NEW r \in Records, NEW w \in Workers, exec[w] \in Records,
         WellFormed(r), Follows(exec[w], r),
         IF Subject(w) = 0 THEN exec[w].status # r.status
         ELSE /\ Subject(w) \in Steps
              /\ exec[w].steps[Subject(w)] # r.steps[Subject(w)],
         EventAt(w) # NoEvent
  PROVE  /\ EventAt(w) \in History(exec[w])
         /\ \A x \in History(r) : Place(x) < Place(EventAt(w))
<1>1. CASE exec[w].steps = r.steps /\ Turns(r, exec[w].status)
  <2>1. EventAt(w) = SagaEvent(exec[w].status)
    BY <1>1 DEF EventAt
  <2> QED
    BY <1>1, <2>1, TurnIsNews
<1>2. ASSUME exec[w].status = r.status, NEW i \in Steps, NEW s \in StepStatus,
             Moves(r, i, s), exec[w].steps = [r.steps EXCEPT ![i] = s]
      PROVE  /\ EventAt(w) \in History(exec[w])
             /\ \A x \in History(r) : Place(x) < Place(EventAt(w))
  <2>1. /\ \A j \in Steps \ {i} : exec[w].steps[j] = r.steps[j]
        /\ exec[w].steps[i] = s
    BY <1>2 DEF Records
  <2>2. Subject(w) = i
    BY <1>2, <2>1
  <2>3. EventAt(w) = Event(StepEventType[s], i)
    BY <2>1, <2>2 DEF EventAt
  <2> QED
    BY <1>2, <2>3, MoveIsNews
<1> QED
  BY <1>1, <1>2 DEF Follows

\* How a call comes to tell, and that telling leaves the store alone
\* (execute.go:582-603).
LEMMA ToNotify ==
  ASSUME TypeInv, ShapeInv, NEW w \in Workers, WorkerStep(w)
  PROVE  /\ pc'[w] = "notify" =>
              /\ UNCHANGED <<exec, next, cur>>
              /\ \/ pc[w] = "notify" /\ store' = store
                 \/ pc[w] = "save" /\ store' = exec[w]
         /\ pc[w] = "notify" => store' = store
<1> USE DEF TypeInv, TypeOK, ControlTypes, At, Goto, Finish, outside, locals,
        ghosts
<1>1. CASE \/ BeginRun(w) \/ FinishRun(w) \/ AbortFailed(w)
           \/ AbortCompensating(w) \/ FinishRollback(w)
  BY <1>1 DEF BeginRun, FinishRun, AbortFailed, AbortCompensating,
     FinishRollback, TransitionExec, Persist
<1>2. CASE \/ StartStep(w) \/ ActionReturns(w) \/ UndoReturns(w)
           \/ GiveUpStep(w) \/ Backoff(w) \/ UndoStep(w)
  BY <1>2 DEF StartStep, ActionReturns, UndoReturns, GiveUpStep, Backoff,
     UndoStep, FailStep, TransitionStep, Persist
<1>3. CASE Save(w) \/ ContextEnds(w)
  BY <1>3 DEF Save, Put, ContextEnds
<1>4. CASE Notify(w)
  BY <1>4 DEF Notify, InHand, Continuations
<1>5. CASE \/ Execute(w) \/ SaveInitial(w) \/ Recover(w) \/ AcquireLease(w)
           \/ ResumeFailedStep(w) \/ ResumeForward(w) \/ ResumeCompensating(w)
           \/ StopForward(w) \/ RetryInterruptedStep(w) \/ Invoke(w)
           \/ Rollback(w) \/ InvokeCompensate(w)
  BY <1>5 DEF Execute, SaveInitial, Leave, Recover, AcquireLease, ResumeFailedStep,
     ResumeForward, ResumeCompensating, StopForward, RetryInterruptedStep,
     Invoke, Rollback, InvokeCompensate
<1>6. CASE \/ RenewLease(w) \/ Release(w) \/ Crash(w) \/ PanicInStep(w)
           \/ PanicInObserver(w) \/ ActionApplies(w) \/ UndoApplies(w)
  BY <1>6 DEF RenewLease, Release, Crash, PanicInStep, PanicInObserver,
     ActionApplies, UndoApplies
<1> QED
  BY <1>1, <1>2, <1>3, <1>4, <1>5, <1>6
     DEF WorkerStep, Engine, Downstream, Environment

\* A save only adds to the history, and its event is news (execute.go:559-603).
LEMMA SaveNext ==
  ASSUME TypeInv, ShapeInv, TrackInv, HeardInv, NEW w \in Workers,
         pc[w] = "save", EventAt(w) # NoEvent
  PROVE  /\ EventAt(w) \in History(exec[w])
         /\ \A x \in History(store) : Place(x) < Place(EventAt(w))
<1>1. store \in Records /\ exec[w] \in Records
  BY DEF TypeInv, TypeOK, StoreTypes, HandTypes
<1>2. Follows(exec[w], store)
  BY DEF TrackInv, Tracks
<1>3. WellFormed(store)
  <2>1. store.status # "ABSENT"
    BY <1>2 DEF Follows, Turns, Moves
  <2>2. store # Absent
    BY <2>1 DEF Absent
  <2> QED
    BY <2>2 DEF ShapeInv, RecordShape
<1> QED
  BY <1>1, <1>2, <1>3, SavedIsNews DEF HeardInv, Names

\* What the store has said stays said (status.go:31-45, 88-96).
LEMMA HistoryNext ==
  ASSUME TypeInv, ShapeInv, TrackInv, [Next]_vars
  PROVE  History(store) \subseteq History(store)'
<1>1. store \in Records /\ store' \in Records
  BY TypeNext DEF TypeInv, TypeOK, StoreTypes
<1>2. CASE store' = store
  BY <1>2 DEF History
<1>3. CASE store = Absent
  <2>1. OfSaga(store) = {} /\ \A i \in Steps : OfStep(store, i) = {}
    BY <1>3 DEF Absent, OfSaga, OfStep, Reached, InCompensation, Settled
  <2> QED
    BY <2>1, HistoryParts
<1>4. CASE store # Absent /\ Follows(store', store)
  <2>1. History(store) \subseteq History(store')
    BY <1>1, <1>4, HistoryGrows DEF ShapeInv, RecordShape
  <2> QED
    BY <2>1 DEF History
<1> QED
  BY <1>2, <1>3, <1>4, StoreMoves

\* A step that nobody hears.
LEMMA SilentNext ==
  ASSUME TypeInv, ShapeInv, TrackInv, HeardInv, NEW w \in Workers,
         WorkerStep(w), UNCHANGED heard, History(store) \subseteq History(store)'
  PROVE  (EventsAreFinal /\ ToldInOrder /\ IsNews(w))'
<1>1. \A a : Said(a)' = Said(a)
  BY DEF Said
<1>2. EventsAreFinal'
  BY <1>1 DEF HeardInv, EventsAreFinal
<1>3. ToldInOrder'
  BY DEF HeardInv, ToldInOrder
<1>4. ASSUME pc'[w] = "notify", EventAt(w)' # NoEvent
      PROVE  /\ EventAt(w)' \in History(store)'
             /\ \A a \in Audiences : \A x \in Said(a) :
                  Place(x) < Place(EventAt(w)')
  <2>1. EventAt(w)' = EventAt(w)
    BY <1>4, ToNotify DEF EventAt, Subject
  <2>2. CASE pc[w] = "notify" /\ store' = store
    BY <1>4, <2>1, <2>2 DEF HeardInv, IsNews, History
  <2>3. CASE pc[w] = "save" /\ store' = exec[w]
    <3>1. /\ EventAt(w) \in History(exec[w])
          /\ \A x \in History(store) : Place(x) < Place(EventAt(w))
      BY <1>4, <2>1, <2>3, SaveNext
    <3>2. \A a \in Audiences : Said(a) \subseteq History(store)
      BY DEF HeardInv, EventsAreFinal
    <3> QED
      BY <2>1, <2>3, <3>1, <3>2 DEF History
  <2> QED
    BY <1>4, <2>2, <2>3, ToNotify
<1>5. IsNews(w)'
  BY <1>1, <1>4 DEF IsNews, Place
<1> QED
  BY <1>2, <1>3, <1>5

\* A step that somebody hears.
LEMMA ToldNext ==
  ASSUME TypeInv, ShapeInv, TrackInv, HeardInv, NEW w \in Workers,
         WorkerStep(w), NEW A \in Reach, Tells(w, A)
  PROVE  (EventsAreFinal /\ ToldInOrder /\ IsNews(w))'
<1> DEFINE e == EventAt(w)
<1>1. Heard /\ Hear(e, A)
  BY DEF HeardInv, Tells
<1>2. /\ e \in History(store)
      /\ \A a \in Audiences : \A x \in Said(a) : Place(x) < Place(e)
  BY DEF HeardInv, IsNews, Tells
<1>3. History(store)' = History(store)
  BY ToNotify DEF Tells, History
<1>4. \A a \in Audiences : Said(a)' \subseteq Said(a) \cup {e}
  BY <1>1, OneMore
<1>5. EventsAreFinal'
  BY <1>2, <1>3, <1>4 DEF HeardInv, EventsAreFinal
<1>6. ASSUME NEW a \in Audiences, NEW n \in 1..(Len(heard'[a]) - 1)
      PROVE  Place(heard'[a][n]) < Place(heard'[a][n + 1])
  <2>1. CASE heard'[a] = heard[a]
    BY <1>6, <2>1 DEF HeardInv, ToldInOrder
  <2>2. CASE heard'[a] = Append(heard[a], e)
    <3>1. PICK S : heard[a] \in Seq(S)
      BY <1>1 DEF Heard
    <3>2. /\ heard[a] \in Seq(S \cup {e}) /\ Len(heard[a]) \in Nat
      BY <3>1
    <3>3. /\ Len(heard'[a]) = Len(heard[a]) + 1
          /\ heard'[a][Len(heard[a]) + 1] = e
          /\ \A m \in 1..Len(heard[a]) : heard'[a][m] = heard[a][m]
      BY <2>2, <3>2
    <3>4. CASE n < Len(heard[a])
      <4>1. n \in 1..(Len(heard[a]) - 1) /\ n \in 1..Len(heard[a])
            /\ n + 1 \in 1..Len(heard[a])
        BY <3>2, <3>3, <3>4
      <4> QED
        BY <3>3, <4>1 DEF HeardInv, ToldInOrder
    <3>5. CASE n = Len(heard[a])
      <4>1. n \in 1..Len(heard[a])
        BY <3>2, <3>3, <3>5
      <4>2. heard[a][n] \in Said(a)
        BY <4>1 DEF Said
      <4> QED
        BY <1>2, <3>3, <3>5, <4>1, <4>2
    <3> QED
      BY <3>2, <3>3, <3>4, <3>5
  <2> QED
    BY <1>1, <2>1, <2>2, OneMore
<1>7. ToldInOrder'
  BY <1>6 DEF ToldInOrder, Place
<1>8. IsNews(w)'
  BY DEF Tells, IsNews
<1> QED
  BY <1>5, <1>7, <1>8

\* HeardInv is inductive.
LEMMA HeardInvNext ==
  ASSUME Alone, TypeInv, ShapeInv, TrackInv, HeardInv, [ObservedNext]_observed,
         [Next]_vars
  PROVE  HeardInv'
<1>1. Heard'
  BY HeardNext DEF HeardInv
<1>2. History(store) \subseteq History(store)'
  BY HistoryNext
<1>3. ASSUME NEW w \in Workers, WorkerStep(w), Announce(w)
      PROVE  HeardInv'
  <2>1. Names(w)'
    BY <1>3, WorkerNamed DEF Names
  <2>2. (EventsAreFinal /\ ToldInOrder /\ IsNews(w))'
    BY <1>2, <1>3, AnnounceReaches, SilentNext, ToldNext
  <2> QED
    BY <1>1, <2>1, <2>2 DEF HeardInv, Alone
<1>4. CASE (Lapse /\ Silent) \/ UNCHANGED observed \/ (Rest /\ Silent)
  <2>1. UNCHANGED <<pc, next, cur, exec, store, heard>>
    BY <1>4 DEF Lapse, Rest, Silent, observed, vars, locals, outside
  <2>2. \A w \in Workers :
          Subject(w)' = Subject(w) /\ EventAt(w)' = EventAt(w)
    BY <2>1 DEF Subject, EventAt
  <2>3. History(store)' = History(store) /\ \A a : Said(a)' = Said(a)
    BY <2>1 DEF History, Said
  <2>4. \A w \in Workers : (Names(w) /\ IsNews(w))'
    BY <2>1, <2>2, <2>3 DEF HeardInv, Names, IsNews, Place
  <2>5. EventsAreFinal' /\ ToldInOrder'
    BY <2>1, <2>3 DEF HeardInv, EventsAreFinal, ToldInOrder, Place
  <2> QED
    BY <1>1, <2>4, <2>5 DEF HeardInv
<1> QED
  BY <1>3, <1>4 DEF ObservedNext, WorkerStep

\* A step of the observed engine is one of the engine.
LEMMA ObservedIsEngine ==
  ASSUME [ObservedNext]_observed
  PROVE  [Next]_vars
BY DEF ObservedNext, observed, Next

\* Nothing has been heard, and nothing is there to hear, at first.
LEMMA HeardInit ==
  ASSUME ObservedInit
  PROVE  TypeInv /\ ShapeInv /\ TrackInv /\ HeardInv
<1>1. Init /\ \A a \in Audiences : heard[a] = <<>> /\ Said(a) = {}
  BY DEF ObservedInit, Said
<1>2. Heard /\ EventsAreFinal
  <2>1. Heard
    <3>1. << >> \in Seq({})
      OBVIOUS
    <3> QED
      BY <1>1, <3>1, Zenon DEF Heard
  <2>2. EventsAreFinal
    BY <1>1 DEF EventsAreFinal
  <2> QED
    BY <2>1, <2>2
<1>3. ASSUME NEW a \in Audiences, NEW n \in 1..(Len(heard[a]) - 1)
      PROVE  FALSE
  BY <1>1, <1>3
<1>4. ToldInOrder
  BY <1>3 DEF ToldInOrder
<1>5. \A w \in Workers : Names(w) /\ IsNews(w)
  BY <1>1 DEF Init, Names, IsNews
<1>6. HeardInv
  BY <1>2, <1>4, <1>5 DEF HeardInv
<1> QED
  BY <1>1, <1>6, TypeInit, ShapeInit, TrackInit

\* As long as calls do not overlap, whatever crashes, fails or panics, what
\* anyone has heard is part of what the store says for good, and nobody hears of
\* a transition twice or of two in the wrong order
\* (events.go:39-44, execute.go:551-580).
THEOREM HeardIsFinal ==
  ASSUME Alone
  PROVE  ObservedSpec => [](EventsAreFinal /\ ToldInOrder)
<1>1. ObservedInit => TypeInv /\ ShapeInv /\ TrackInv /\ HeardInv
  BY HeardInit
<1>2. TypeInv /\ ShapeInv /\ TrackInv /\ HeardInv /\ [ObservedNext]_observed
        => TypeInv' /\ ShapeInv' /\ TrackInv' /\ HeardInv'
  BY ObservedIsEngine, TypeNext, ShapeNext, TrackNext, HeardInvNext
<1>3. HeardInv => EventsAreFinal /\ ToldInOrder
  BY DEF HeardInv
<1> QED
  BY <1>1, <1>2, <1>3, PTL DEF ObservedSpec

\* The order by itself (execute.go:551-580).
THEOREM ToldInTurn ==
  ASSUME Alone
  PROVE  ObservedSpec => []ToldInOrder
<1>1. EventsAreFinal /\ ToldInOrder => ToldInOrder
  OBVIOUS
<1> QED
  BY <1>1, HeardIsFinal, PTL

-------------------------------------------------------------------------------
(***************************************************************************)
(* Losses.  What an audience has missed is what the store has told of and  *)
(* nobody is about to tell, less what the audience has heard.  A save that *)
(* goes well puts one event into the store and makes it due; only a fault, *)
(* or the panic of an earlier publisher, lets a due event pass.  Counting  *)
(* needs no bound on the events: what is missed grows by one at a time.    *)
(***************************************************************************)
Told == History(store) \ UNION {Due(w) : w \in Workers}
Missed(a) == Told \ Said(a)

\* The losses of a that its faults, and the panics ahead of it, account for.
Allowed(a) == faults + (IF a \in 2..NPublishers THEN deaf ELSE 0)

\* A call has nothing to report until it comes to its Release.
Unreported(w) == pc[w] # "release" => result[w] = "none"

LossInv ==
  /\ deaf \in Nat
  /\ \A w \in Workers : Unreported(w)
  /\ \A a \in Audiences :
       IsFiniteSet(Missed(a)) /\ Cardinality(Missed(a)) <= Allowed(a)

\* A turn or a move adds no event but its own (events.go:9-37).
LEMMA SavedIsAllNews ==
  ASSUME NEW r \in Records, NEW w \in Workers, exec[w] \in Records,
         WellFormed(r), Follows(exec[w], r),
         IF Subject(w) = 0 THEN exec[w].status # r.status
         ELSE /\ Subject(w) \in Steps
              /\ exec[w].steps[Subject(w)] # r.steps[Subject(w)]
  PROVE  History(exec[w]) \subseteq History(r) \cup {EventAt(w)}
<1>1. CASE exec[w].steps = r.steps /\ Turns(r, exec[w].status)
  <2>1. EventAt(w) = SagaEvent(exec[w].status)
    BY <1>1 DEF EventAt
  <2>2. \A i \in Steps : OfStep(exec[w], i) = OfStep(r, i)
    BY <1>1 DEF OfStep
  <2>3. \A type \in OfSaga(exec[w]) :
          type \in OfSaga(r) \/ Event(type, 0) = EventAt(w)
    BY <1>1, <2>1 DEF OfSaga, Turns, SagaEvent, SagaEventType
  <2> QED
    BY <2>2, <2>3, HistoryParts
<1>2. ASSUME exec[w].status = r.status, NEW i \in Steps, NEW s \in StepStatus,
             Moves(r, i, s), exec[w].steps = [r.steps EXCEPT ![i] = s]
      PROVE  History(exec[w]) \subseteq History(r) \cup {EventAt(w)}
  <2>1. /\ \A j \in Steps \ {i} : exec[w].steps[j] = r.steps[j]
        /\ exec[w].steps[i] = s
    BY <1>2 DEF Records
  <2>2. Subject(w) = i
    BY <1>2, <2>1
  <2>3. EventAt(w) = Event(StepEventType[s], i)
    BY <2>1, <2>2 DEF EventAt
  <2>4. /\ OfSaga(exec[w]) = OfSaga(r)
        /\ \A j \in Steps \ {i} : OfStep(exec[w], j) = OfStep(r, j)
    BY <1>2, <2>1 DEF OfSaga, OfStep
  <2>5. \A type \in OfStep(exec[w], i) :
          type \in OfStep(r, i) \/ type = StepEventType[s]
    BY <1>2, <2>1 DEF OfStep, Moves, StepEventType, Reached, InCompensation,
       Settled
  <2> QED
    BY <2>3, <2>4, <2>5, HistoryParts
<1> QED
  BY <1>1, <1>2 DEF Follows

\* What a step of w costs: a save that fails, a crash and a panic while
\* telling are faults (execute.go:559-580, 599-603, 646-663).
LEMMA WorkerCosts ==
  ASSUME TypeInv, NEW w \in Workers, WorkerStep(w),
         Unreported(w)
  PROVE  /\ faults' = faults \/ faults' = faults + 1
         /\ Unreported(w)'
         /\ pc[w] \notin {"create", "save"} => store' = store
         /\ pc[w] = "create" => store' = store \/ store' = exec[w]
         /\ pc[w] = "save" /\ pc'[w] # "notify" =>
              store' = store \/ (store' = exec[w] /\ faults' = faults + 1)
         /\ pc[w] = "notify" =>
              /\ pc'[w] = "idle" => faults' = faults + 1
              /\ pc'[w] = "release" /\ result'[w] = "userPanic" =>
                   faults' = faults + 1
<1> USE DEF TypeInv, TypeOK, ControlTypes, At, Goto, Finish, outside, locals,
        ghosts, Unreported
<1>1. CASE \/ BeginRun(w) \/ FinishRun(w) \/ AbortFailed(w)
           \/ AbortCompensating(w) \/ FinishRollback(w)
  BY <1>1 DEF BeginRun, FinishRun, AbortFailed, AbortCompensating,
     FinishRollback, TransitionExec, Persist
<1>2. CASE \/ StartStep(w) \/ ActionReturns(w) \/ UndoReturns(w)
           \/ GiveUpStep(w) \/ Backoff(w) \/ UndoStep(w)
  BY <1>2 DEF StartStep, ActionReturns, UndoReturns, GiveUpStep, Backoff,
     UndoStep, FailStep, TransitionStep, Persist
<1>3. CASE Save(w) \/ SaveInitial(w)
  BY <1>3 DEF Save, SaveInitial, Put, WriteFails, Leave, Forget, Fault
<1>4. CASE Notify(w)
  BY <1>4 DEF Notify, InHand, Continuations
<1>5. CASE \/ Execute(w) \/ Recover(w) \/ AcquireLease(w) \/ RenewLease(w)
           \/ Release(w)
  BY <1>5 DEF Execute, Recover, AcquireLease, RenewLease, Release, Leave,
     Fault, Forget
<1>6. CASE \/ ResumeFailedStep(w) \/ ResumeForward(w) \/ ResumeCompensating(w)
           \/ StopForward(w) \/ RetryInterruptedStep(w) \/ Invoke(w)
           \/ Rollback(w) \/ InvokeCompensate(w)
  BY <1>6 DEF ResumeFailedStep, ResumeForward, ResumeCompensating,
     StopForward, RetryInterruptedStep, Invoke, Rollback, InvokeCompensate
<1>7. CASE \/ Crash(w) \/ PanicInStep(w) \/ PanicInObserver(w)
           \/ ContextEnds(w) \/ ActionApplies(w) \/ UndoApplies(w)
  BY <1>7 DEF Crash, PanicInStep, PanicInObserver, ContextEnds, ActionApplies,
     UndoApplies, Fault, Forget
<1> QED
  BY <1>1, <1>2, <1>3, <1>4, <1>5, <1>6, <1>7
     DEF WorkerStep, Engine, Downstream, Environment

\* A set with one element more.
LEMMA OneMoreMissed ==
  ASSUME NEW M, IsFiniteSet(M), NEW x, NEW P, P \subseteq M \cup {x}
  PROVE  /\ IsFiniteSet(P) /\ Cardinality(P) \in Nat /\ Cardinality(M) \in Nat
         /\ Cardinality(P) <= Cardinality(M) + 1
         /\ P \subseteq M => Cardinality(P) <= Cardinality(M)
<1>1. /\ IsFiniteSet(M \cup {x})
      /\ Cardinality(M \cup {x}) <= Cardinality(M) + 1
      /\ Cardinality(M) \in Nat
  <2>1. Cardinality(M) \in Nat
    BY FS_CardinalityType
  <2>2. /\ IsFiniteSet(M \cup {x})
        /\ \/ Cardinality(M \cup {x}) = Cardinality(M)
           \/ Cardinality(M \cup {x}) = Cardinality(M) + 1
    BY FS_AddElement
  <2> QED
    BY <2>1, <2>2
<1>2. /\ IsFiniteSet(P) /\ Cardinality(P) <= Cardinality(M \cup {x})
      /\ Cardinality(P) \in Nat /\ Cardinality(M \cup {x}) \in Nat
  BY <1>1, FS_Subset, FS_CardinalityType
<1>3. P \subseteq M => Cardinality(P) <= Cardinality(M)
  BY FS_Subset
<1> QED
  BY <1>1, <1>2, <1>3

\* One worker's event is the only one that can be due.
LEMMA ToldAlone ==
  ASSUME Alone, NEW w \in Workers
  PROVE  /\ Told = History(store) \ Due(w)
         /\ Told' = History(store)' \ Due(w)'
BY DEF Alone, Told

\* A transition without an event leaves nothing in a history
\* (execute.go:605-637).
LEMMA NoEventInHistory == ASSUME NEW r PROVE NoEvent \notin History(r)
<1>1. \A type, i : Event(type, i) = NoEvent => type = ""
  BY DEF NoEvent, Event
<1>2. /\ \A type \in OfSaga(r) : type # ""
      /\ \A i \in Steps : \A type \in OfStep(r, i) : type # ""
  BY DEF OfSaga, OfStep
<1>3. NoEvent \in History(r) <=>
        \/ \E type \in OfSaga(r) : NoEvent = Event(type, 0)
        \/ \E i \in Steps : \E type \in OfStep(r, i) : NoEvent = Event(type, i)
  BY HistoryParts, Zenon
<1> QED
  BY <1>1, <1>2, <1>3

\* A step that is not one of telling: what the store gains is due, or the save
\* reported an error (execute.go:551-603).
LEMMA UntoldCosts ==
  ASSUME Alone, TypeInv, ShapeInv, TrackInv, HeardInv,
         NEW w \in Workers, WorkerStep(w), Unreported(w), pc[w] # "notify"
  PROVE  \/ Told' \subseteq Told
         \/ faults' = faults + 1 /\ Told' \subseteq Told \cup {EventAt(w)}
<1>1. Told = History(store)
  BY ToldAlone DEF Due, At
<1>2. Told' \subseteq History(store)'
  BY DEF Told
<1>3. CASE store' = store
  BY <1>1, <1>2, <1>3 DEF History
<1>4. CASE pc[w] = "create" /\ store' # store
  <2>1. store' = NewExecution
    BY <1>4, WorkerCosts DEF TrackInv, Tracks
  <2>2. OfSaga(store') = {} /\ \A i \in Steps : OfStep(store', i) = {}
    BY <2>1 DEF NewExecution, OfSaga, OfStep, Reached, InCompensation, Settled
  <2>3. History(store') = {}
    BY <2>2, HistoryParts
  <2>4. History(store)' = {}
    BY <2>3 DEF History
  <2> QED
    BY <1>2, <2>4
<1>5. CASE pc[w] = "save" /\ store' # store
  <2>1. store' = exec[w]
    BY <1>5, WorkerCosts, ToNotify
  <2>2. History(exec[w]) \subseteq History(store) \cup {EventAt(w)}
    <3>1. store \in Records /\ exec[w] \in Records
      BY DEF TypeInv, TypeOK, StoreTypes, HandTypes
    <3>2. Follows(exec[w], store)
      BY <1>5 DEF TrackInv, Tracks
    <3>3. WellFormed(store)
      <4>1. store.status # "ABSENT"
        BY <3>2 DEF Follows, Turns, Moves
      <4>2. store # Absent
        BY <4>1 DEF Absent
      <4> QED
        BY <4>2 DEF ShapeInv, RecordShape
    <3> QED
      BY <1>5, <3>1, <3>2, <3>3, SavedIsAllNews DEF HeardInv, Names
  <2>3. History(store)' \subseteq Told \cup {EventAt(w)}
    BY <1>1, <2>1, <2>2 DEF History
  <2>4. CASE pc'[w] = "notify"
    <3>1. EventAt(w)' = EventAt(w)
      BY <2>4, ToNotify DEF EventAt, Subject
    <3>2. Due(w)' = {EventAt(w)}
      BY <2>4, <3>1 DEF Due, At
    <3> QED
      BY <2>3, <3>2, ToldAlone
  <2>5. CASE pc'[w] # "notify"
    BY <1>2, <1>5, <2>3, <2>5, WorkerCosts
  <2> QED
    BY <2>4, <2>5
<1> QED
  BY <1>3, <1>4, <1>5, WorkerCosts

\* A step of telling: who is not told has a fault to thank, or a publisher that
\* panicked before it (execute.go:639-663, events.go:61-65).
LEMMA TellingCosts ==
  ASSUME Alone, TypeInv, ShapeInv, Heard,
         NEW w \in Workers, WorkerStep(w), Unreported(w), pc[w] = "notify",
         Announce(w), NEW a \in Audiences
  PROVE  \/ Missed(a)' \subseteq Missed(a) /\ Said(a) \subseteq Said(a)'
         \/ /\ Missed(a)' \subseteq Missed(a) \cup {EventAt(w)}
            /\ \/ faults' = faults + 1
               \/ a \in 2..NPublishers /\ deaf' = deaf + 1
<1> DEFINE e == EventAt(w)
<1>1. Told = History(store) \ {e} /\ Told' \subseteq History(store)
  BY ToldAlone, ToNotify DEF Due, At, Told, History
<1>2. Said(a) \subseteq Said(a)'
  BY AnnounceReaches, OneMore DEF Tells, Said
<1>3. Missed(a)' \subseteq Missed(a) \cup {e}
  BY <1>1, <1>2 DEF Missed
<1>4. e \in Said(a)' => Missed(a)' \subseteq Missed(a)
  BY <1>3 DEF Missed
<1>5. CASE e = NoEvent
  BY <1>1, <1>2, <1>5, NoEventInHistory DEF Missed
<1>6. CASE pc'[w] = "notify"
  <2>1. EventAt(w)' = e
    BY <1>6, ToNotify DEF EventAt, Subject
  <2>2. Told' = Told
    BY <1>6, <2>1, ToldAlone, ToNotify DEF Due, At, History
  <2> QED
    BY <1>2, <2>2 DEF Missed
<1>7. CASE \/ pc'[w] = "idle"
           \/ pc'[w] = "release" /\ result'[w] = "userPanic"
  BY <1>3, <1>7, WorkerCosts
<1>8. CASE Round(e, {Metrics})
  <2>1. CASE Hear(e, Published(NPublishers) \cup {Metrics})
    <3>1. a \in Published(NPublishers) \cup {Metrics}
      BY DEF Audiences, Metrics, Published
    <3>2. Published(NPublishers) \cup {Metrics} \in Reach
      BY DEF Reach, Published, Publishers, Audiences, Metrics
    <3>3. e \in Said(a)'
      BY <2>1, <3>1, <3>2, OneMore
    <3> QED
      BY <1>2, <1>4, <3>3
  <2>2. ASSUME NEW k \in 1..(NPublishers - 1),
               Hear(e, Published(k) \cup {Metrics}), deaf' = deaf + 1
        PROVE  \/ e \in Said(a)'
               \/ a \in 2..NPublishers /\ deaf' = deaf + 1
    <3>1. Published(k) \cup {Metrics} \in Reach
      BY DEF Reach, Published, Publishers, Audiences, Metrics
    <3>2. a \in Published(k) \cup {Metrics} => e \in Said(a)'
      BY <2>2, <3>1, OneMore
    <3>3. a \notin Published(k) \cup {Metrics} => a \in 2..NPublishers
      BY DEF Published, Audiences, Metrics
    <3> QED
      BY <2>2, <3>2, <3>3
  <2> QED
    BY <1>2, <1>3, <1>4, <1>8, <2>1, <2>2 DEF Round
<1> QED
  BY <1>5, <1>6, <1>7, <1>8 DEF Announce, At

\* LossInv is inductive.
LEMMA LossNext ==
  ASSUME Alone, TypeInv, ShapeInv, TrackInv, HeardInv, LossInv,
         [ObservedNext]_observed
  PROVE  LossInv'
<1>1. faults \in Nat /\ deaf \in Nat /\ \A a \in Audiences : Allowed(a) \in Nat
  BY DEF LossInv, TypeInv, TypeOK, StoreTypes, Allowed
<1>2. ASSUME NEW w \in Workers, WorkerStep(w), Announce(w)
      PROVE  LossInv'
  <2>1. Unreported(w)
    BY DEF LossInv
  <2>2. \A v \in Workers : Unreported(v)'
    BY <1>2, <2>1, WorkerCosts DEF Alone
  <2>3. deaf' = deaf \/ deaf' = deaf + 1
    BY <1>2 DEF Announce, Silent, Round
  <2>4. faults' = faults \/ faults' = faults + 1
    BY <1>2, <2>1, WorkerCosts
  <2>5. ASSUME NEW a \in Audiences
        PROVE  /\ IsFiniteSet(Missed(a)')
               /\ Cardinality(Missed(a)') <= Allowed(a)'
    <3>1. /\ Missed(a)' \subseteq Missed(a) \cup {EventAt(w)}
          /\ \/ Missed(a)' \subseteq Missed(a)
             \/ faults' = faults + 1
             \/ a \in 2..NPublishers /\ deaf' = deaf + 1
      <4>1. CASE pc[w] = "notify"
        BY <1>2, <2>1, <4>1, TellingCosts DEF HeardInv
      <4>2. CASE pc[w] # "notify"
        <5>1. Said(a)' = Said(a)
          BY <1>2, <4>2 DEF Announce, At, Silent, Said
        <5> QED
          BY <1>2, <2>1, <4>2, <5>1, UntoldCosts DEF Missed
      <4> QED
        BY <4>1, <4>2
    <3>2. IsFiniteSet(Missed(a)) /\ Cardinality(Missed(a)) <= Allowed(a)
      BY DEF LossInv
    <3>3. /\ IsFiniteSet(Missed(a)') /\ Cardinality(Missed(a)') \in Nat
          /\ Cardinality(Missed(a)) \in Nat
          /\ Cardinality(Missed(a)') <= Cardinality(Missed(a)) + 1
          /\ Missed(a)' \subseteq Missed(a) =>
               Cardinality(Missed(a)') <= Cardinality(Missed(a))
      BY <3>1, <3>2, OneMoreMissed
    <3> QED
      BY <1>1, <2>3, <2>4, <3>1, <3>2, <3>3 DEF Allowed
  <2> QED
    BY <1>1, <2>2, <2>3, <2>5 DEF LossInv
<1>3. CASE (Lapse /\ Silent) \/ UNCHANGED observed \/ (Rest /\ Silent)
  <2>1. /\ UNCHANGED <<pc, next, cur, exec, result, store, heard, deaf>>
        /\ faults' \in {faults, faults + 1}
    BY <1>3 DEF Lapse, Rest, Silent, Fault, observed, vars, locals, outside
  <2>2. \A w \in Workers : Due(w)' = Due(w)
    BY <2>1 DEF Due, At, EventAt, Subject
  <2>3. History(store)' = History(store) /\ \A a : Said(a)' = Said(a)
    BY <2>1 DEF History, Said
  <2>4. ASSUME NEW a \in Audiences
        PROVE  /\ IsFiniteSet(Missed(a)')
               /\ Cardinality(Missed(a)') <= Allowed(a)'
    <3>1. Missed(a)' = Missed(a)
      BY <2>2, <2>3 DEF Missed, Told
    <3>2. Allowed(a) \in Nat /\ Allowed(a)' \in {Allowed(a), Allowed(a) + 1}
      <4> DEFINE own == IF a \in 2..NPublishers THEN deaf ELSE 0
      <4>1. Allowed(a) = faults + own /\ Allowed(a)' = faults' + own
        BY <2>1 DEF Allowed
      <4>2. own \in Nat /\ faults \in Nat
        BY <1>1
      <4> HIDE DEF own
      <4>3. faults' = faults \/ faults' = faults + 1
        BY <2>1
      <4>4. Allowed(a)' = Allowed(a) \/ Allowed(a)' = Allowed(a) + 1
        <5>1. CASE faults' = faults
          BY <4>1, <5>1
        <5>2. CASE faults' = faults + 1
          <6>1. Allowed(a)' = (faults + 1) + own
            BY <4>1, <5>2
          <6> QED
            BY <4>1, <4>2, <6>1
        <5> QED
          BY <4>3, <5>1, <5>2
      <4> QED
        BY <1>1, <4>4
    <3>3. Cardinality(Missed(a)) \in Nat
      BY FS_CardinalityType DEF LossInv
    <3>4. IsFiniteSet(Missed(a)) /\ Cardinality(Missed(a)) <= Allowed(a)
      BY DEF LossInv
    <3> QED
      BY <3>1, <3>2, <3>3, <3>4
  <2> QED
    BY <2>1, <2>4 DEF LossInv, Unreported
<1> QED
  BY <1>2, <1>3 DEF ObservedNext, WorkerStep

\* As long as calls do not overlap, an event that is in the store and not about
\* to be told has escaped an audience only through a fault: a crash, an error
\* reported of a save that happened, or a panic of a Logger or of the Metrics,
\* each of which costs an audience at most one; a later publisher loses one
\* more for each panic of one ahead of it (execute.go:559-580, 599-603, 646-663).
THEOREM LossesHaveCauses ==
  ASSUME Alone
  PROVE  ObservedSpec => []LossesAreFaults
<1>1. ObservedInit => TypeInv /\ ShapeInv /\ TrackInv /\ HeardInv /\ LossInv
  <2> SUFFICES ASSUME ObservedInit PROVE LossInv
    BY HeardInit DEF ObservedInit
  <2>1. History(store) = {}
    <3>1. store = Absent
      BY DEF ObservedInit, Init
    <3>2. OfSaga(store) = {} /\ \A i \in Steps : OfStep(store, i) = {}
      BY <3>1 DEF Absent, OfSaga, OfStep, Reached, InCompensation, Settled
    <3> QED
      BY <3>2, HistoryParts
  <2>2. \A a : Missed(a) = {}
    BY <2>1 DEF Missed, Told
  <2>3. IsFiniteSet({}) /\ Cardinality({}) = 0
    BY FS_EmptySet
  <2>4. \A a \in Audiences : 0 <= Allowed(a)
    BY DEF ObservedInit, Init, Allowed
  <2>5. deaf \in Nat /\ \A w \in Workers : Unreported(w)
    BY DEF ObservedInit, Init, Unreported
  <2> QED
    BY <2>2, <2>3, <2>4, <2>5 DEF LossInv
<1>2. TypeInv /\ ShapeInv /\ TrackInv /\ HeardInv /\ LossInv
        /\ [ObservedNext]_observed
        => TypeInv' /\ ShapeInv' /\ TrackInv' /\ HeardInv' /\ LossInv'
  BY ObservedIsEngine, TypeNext, ShapeNext, TrackNext, HeardInvNext, LossNext
<1>3. LossInv => LossesAreFaults
  BY DEF LossInv, LossesAreFaults, Missed, Told, Allowed
<1> QED
  BY <1>1, <1>2, <1>3, PTL DEF ObservedSpec

===============================================================================
