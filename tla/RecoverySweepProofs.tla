-------------------------- MODULE RecoverySweepProofs --------------------------
(***************************************************************************)
(* For any executions, versions of the program and definitions: what       *)
(* SweepProperties says of the answers of a sweep, of the records it       *)
(* leaves and of the panics it can meet; and that each record goes through *)
(* the contract of a single execution.                                     *)
(***************************************************************************)
EXTENDS SweepProperties, SequenceTheorems, WellFoundedInduction,
        TLAPS

InCall == {"acquire", "drive", "act"}

\* The execution in hand, and what is known of its record.
HandInv ==
  /\ pc \in InCall <=> at # None
  /\ at # None => Registered(at) /\ copy = rec[at]
  /\ pc = "act" => copy.status = "RUNNING"
  /\ pc = "idle" => /\ listed = <<>> /\ todo = {} /\ answers = <<>>
                    /\ ctx = "live"

LoopInv ==
  /\ Answered \cup InHand \cup todo = DOMAIN listed
  /\ \A m, n \in 1..Len(answers) :
       m < n => Before(answers[m].id, answers[n].id)
  /\ \A x \in Answered, y \in InHand \cup todo : Before(x, y)
  /\ \A x \in InHand, y \in todo : Before(x, y)

CutInv ==
  /\ ctx = "cancelled" => InHand \cup todo \subseteq cut
  /\ ctx = "timeout" => at \in cut /\ pc \in {"drive", "act"}

Forward == {"PENDING", "RUNNING", "SUCCEEDED", "FAILED"}

LeftOver(r, n) ==
  \A i \in DOMAIN r.steps :
    \/ r.steps[i] = "SUCCEEDED"
    \/ i > n /\ r.steps[i] \in {"PENDING", "RUNNING"}

\* What is true of any record of x.
Sound(x, r) ==
  /\ HasDefinition(x, Len(r.steps))
  /\ r.status \in {"PENDING", "RUNNING"} =>
       \A i \in DOMAIN r.steps : r.steps[i] \in Forward
  /\ r.status = "COMPLETED" =>
       \E v \in Versions :
         Definitions[v][x] # Unregistered /\ LeftOver(r, Definitions[v][x])

RecordInv == \A x \in Ids : Sound(x, rec[x])

\* The copies still to be taken in hand are the records: nobody but the sweep
\* writes them in RecoverySweep.
ListInv == \A x \in todo : rec[x] = listed[x]

IInv ==
  TypeOK /\ HandInv /\ LoopInv /\ CutInv /\ RecordInv /\ ListInv

-------------------------------------------------------------------------------
(***************************************************************************)
(* Records, the order of a sweep, and its answers.                         *)
(***************************************************************************)
LEMMA StatusUpdate ==
  ASSUME NEW r \in Records, NEW s \in Status
  PROVE  /\ MoveStatus(r, s) \in Records
         /\ MoveStatus(r, s).status = s
         /\ MoveStatus(r, s).steps = r.steps
BY DEF Records, MoveStatus

LEMMA StepUpdate ==
  ASSUME NEW r \in Records, NEW i \in DOMAIN r.steps, NEW s \in StepStatus
  PROVE  /\ MoveStep(r, i, s) \in Records
         /\ MoveStep(r, i, s).status = r.status
         /\ DOMAIN MoveStep(r, i, s).steps = DOMAIN r.steps
         /\ Len(MoveStep(r, i, s).steps) = Len(r.steps)
         /\ \A j \in DOMAIN r.steps :
              MoveStep(r, i, s).steps[j] = IF j = i THEN s ELSE r.steps[j]
<1>1. r.steps \in Seq(StepStatus) /\ i \in 1..Len(r.steps)
  BY DEF Records
<1>2. MoveStep(r, i, s).steps = [r.steps EXCEPT ![i] = s]
  BY DEF Records, MoveStep
<1>3. MoveStep(r, i, s).status = r.status
  BY DEF Records, MoveStep
<1>4. MoveStep(r, i, s).steps \in Seq(StepStatus)
  BY <1>1, <1>2, ExceptSeq
<1>5. MoveStep(r, i, s) = [status |-> r.status, steps |-> [r.steps EXCEPT ![i] = s]]
  BY DEF Records, MoveStep
<1> QED  BY <1>1, <1>2, <1>3, <1>4, <1>5, ExceptSeq DEF Records

LEMMA BeforeIsAnOrder ==
  /\ \A x \in Ids : ~Before(x, x)
  /\ \A x, y, z \in Ids : Before(x, y) /\ Before(y, z) => Before(x, z)
<1>1. \A x \in Ids : x \in Nat /\ Created[x] \in Nat
  BY SweepAssumption
<1> QED  BY <1>1 DEF Before

\* An answer is added behind the others.
LEMMA AnswerAdds ==
  ASSUME TypeOK, NEW x \in Ids, NEW res \in Results, Answer(x, res)
  PROVE  /\ answers' \in Seq([id : Ids, result : Results])
         /\ Len(answers') = Len(answers) + 1
         /\ \A n \in 1..Len(answers) : answers'[n] = answers[n]
         /\ answers'[Len(answers) + 1].id = x
         /\ answers'[Len(answers) + 1].result = res
         /\ Answered' = Answered \cup {x}
<1> DEFINE a == [id |-> x, result |-> res]
<1>1. a \in [id : Ids, result : Results] /\ a.id = x /\ a.result = res
  OBVIOUS
<1>2. answers' = Append(answers, a) /\ answers \in Seq([id : Ids, result : Results])
  BY DEF Answer, TypeOK
<1> HIDE DEF a
<1>3. /\ answers' \in Seq([id : Ids, result : Results])
      /\ Len(answers') = Len(answers) + 1
      /\ \A n \in 1..Len(answers) : answers'[n] = answers[n]
      /\ answers'[Len(answers) + 1] = a
  BY <1>1, <1>2, AppendProperties
<1>4. Len(answers) \in Nat
  BY <1>2
<1>5. Answered' = {answers'[n].id : n \in 1..(Len(answers) + 1)}
  BY <1>3 DEF Answered
<1>6. Answered' = Answered \cup {x}
  BY <1>1, <1>3, <1>4, <1>5 DEF Answered
<1> QED  BY <1>1, <1>3, <1>6

\* Those who have been answered for are executions.
LEMMA AnsweredAreIds ==
  ASSUME TypeOK
  PROVE  /\ Answered \subseteq Ids
         /\ Len(answers) \in Nat
         /\ \A n \in 1..Len(answers) :
              answers[n].id \in Ids /\ answers[n].result \in Results
<1>1. answers \in Seq([id : Ids, result : Results])
  BY DEF TypeOK
<1>2. \A n \in 1..Len(answers) : answers[n] \in [id : Ids, result : Results]
  BY <1>1, ElementOfSeq
<1>3. \A n \in 1..Len(answers) :
        answers[n].id \in Ids /\ answers[n].result \in Results
  <2>1. \A a \in [id : Ids, result : Results] : a.id \in Ids /\ a.result \in Results
    OBVIOUS
  <2> QED  BY <1>2, <2>1
<1> QED  BY <1>1, <1>3 DEF Answered

-------------------------------------------------------------------------------
(***************************************************************************)
(* How a call ends, and how it saves.                                      *)
(***************************************************************************)
\* The one in hand is neither answered for nor to come.
LEMMA InHandIsApart ==
  ASSUME IInv, at # None
  PROVE  at \in Ids /\ at \notin Answered /\ at \notin todo /\ todo \subseteq Ids
<1>1. at \in Ids /\ todo \subseteq Ids
  BY DEF IInv, TypeOK
<1>2. InHand = {at}
  BY DEF InHand
<1> QED  BY <1>1, <1>2, BeforeIsAnOrder DEF IInv, LoopInv

\* An answer leaves the loop as it should be: x comes behind those answered for
\* and before those left.
LEMMA AnswerKeepsOrder ==
  ASSUME TypeOK, NEW x \in Ids, NEW res \in Results, Answer(x, res),
         \A m, n \in 1..Len(answers) :
           m < n => Before(answers[m].id, answers[n].id),
         \A y \in Answered : Before(y, x)
  PROVE  \A m, n \in 1..Len(answers') :
           m < n => Before(answers'[m].id, answers'[n].id)
<1> SUFFICES ASSUME NEW m \in 1..Len(answers'), NEW n \in 1..Len(answers'), m < n
             PROVE  Before(answers'[m].id, answers'[n].id)
  OBVIOUS
<1>1. Len(answers) \in Nat /\ m \in 1..Len(answers)
  BY AnswerAdds, AnsweredAreIds
<1>2. answers'[m] = answers[m]
  BY <1>1, AnswerAdds
<1>3. CASE n \in 1..Len(answers)
  <2>1. answers'[n] = answers[n]
    BY <1>3, AnswerAdds
  <2> QED  BY <1>1, <1>2, <1>3, <2>1
<1>4. CASE n = Len(answers) + 1
  <2>1. answers'[n].id = x /\ answers'[m].id \in Answered
    BY <1>1, <1>2, <1>4, AnswerAdds DEF Answered
  <2> QED  BY <1>2, <2>1
<1> QED  BY <1>1, <1>3, <1>4, AnswerAdds

\* resume comes back to the loop with an answer.
LEMMA FinishKeeps ==
  ASSUME IInv, at # None, NEW res \in Results, Finish(res),
         version' = version, rec' \in [Ids -> Records], RecordInv',
         \A x \in Ids \ {at} : rec'[x] = rec[x],
         lease' \in [Ids -> {"free", "held", "orphan"}],
         faults' \in 0..MaxFaults
  PROVE  IInv'
<1>1. /\ at' = None /\ copy' = NoCopy /\ pc' = "sweep" /\ Answer(at, res)
      /\ ctx' = IF ctx = "cancelled" THEN ctx ELSE "live"
      /\ UNCHANGED <<listed, todo, cut>>
  BY DEF Finish, ForgetHand
<1>2. at \in Ids /\ at \notin Answered /\ at \notin todo /\ todo \subseteq Ids
  BY InHandIsApart
<1>3. TypeOK /\ HandInv /\ LoopInv /\ CutInv /\ ListInv
  BY DEF IInv
<1>4. NoCopy \in Records
  BY DEF NoCopy, Fresh, Records, Status, StepStatus
<1>5. answers' \in Seq([id : Ids, result : Results]) /\ Answered' = Answered \cup {at}
  BY <1>1, <1>2, <1>3, AnswerAdds
<1>6. TypeOK'
  BY <1>1, <1>2, <1>3, <1>4, <1>5 DEF TypeOK
<1>7. HandInv'
  BY <1>1 DEF HandInv, InCall
<1>8. InHand = {at} /\ InHand' = {}
  BY <1>1 DEF InHand
<1>9. LoopInv'
  <2>1. \A y \in Answered : Before(y, at)
    BY <1>3, <1>8 DEF LoopInv
  <2>2. \A m, n \in 1..Len(answers') :
           m < n => Before(answers'[m].id, answers'[n].id)
    BY <1>1, <1>2, <1>3, <2>1, AnswerKeepsOrder DEF LoopInv
  <2>3. Answered' \cup InHand' \cup todo' = DOMAIN listed'
    BY <1>1, <1>3, <1>5, <1>8 DEF LoopInv
  <2>4. \A x \in Answered', y \in InHand' \cup todo' : Before(x, y)
    BY <1>1, <1>3, <1>5, <1>8 DEF LoopInv
  <2> QED  BY <1>8, <2>2, <2>3, <2>4 DEF LoopInv
<1>10. CutInv'
  BY <1>1, <1>3, <1>8 DEF CutInv
<1>11. ListInv'
  BY <1>1, <1>2, <1>3 DEF ListInv
<1> QED  BY <1>6, <1>7, <1>9, <1>10, <1>11 DEF IInv

\* The results that Finish is given.
LEMMA ResultTypes ==
  {"settled", "unregistered", "skipped", "locked", "error"} \subseteq Results
BY DEF Results

\* A call saves a sound record, or comes back without.
LEMMA SaveKeeps ==
  ASSUME IInv, pc \in {"drive", "act"}, version' = version,
         NEW r \in Records, NEW l \in {"drive", "act"}, Save(r, l),
         Sound(at, r), l = "act" => r.status = "RUNNING"
  PROVE  IInv'
<1>1. TypeOK /\ HandInv /\ LoopInv /\ CutInv /\ ListInv /\ RecordInv
  BY DEF IInv
<1>2. at # None /\ copy = rec[at] /\ Registered(at)
  BY <1>1 DEF HandInv, InCall
<1>3. at \in Ids /\ at \notin Answered /\ at \notin todo /\ todo \subseteq Ids
  BY <1>2, InHandIsApart
<1>4. rec \in [Ids -> Records] /\ lease \in [Ids -> {"free", "held", "orphan"}]
  BY <1>1 DEF TypeOK
<1>5. CASE /\ copy' = r
           /\ rec' = [rec EXCEPT ![at] = r]
           /\ pc' = l
           /\ UNCHANGED <<lease, loop, answers, at, ctx, cut, faults>>
  <2>1. rec' \in [Ids -> Records] /\ rec'[at] = r
        /\ \A x \in Ids \ {at} : rec'[x] = rec[x]
    BY <1>3, <1>4, <1>5
  <2>2. UNCHANGED <<lease, listed, todo, answers, at, ctx, cut, faults>>
    BY <1>5 DEF loop
  <2>3. TypeOK'
    BY <1>1, <1>5, <2>1, <2>2 DEF TypeOK
  <2>4. HandInv'
    BY <1>2, <1>5, <2>1, <2>2 DEF HandInv, InCall, Registered
  <2>5. Answered' = Answered /\ InHand' = InHand
    BY <2>2 DEF Answered, InHand
  <2>6. LoopInv' /\ CutInv'
    BY <1>1, <1>5, <2>2, <2>5 DEF LoopInv, CutInv
  <2>7. RecordInv'
    BY <1>1, <1>3, <2>1 DEF RecordInv
  <2>8. ListInv'
    BY <1>1, <1>3, <2>1, <2>2 DEF ListInv
  <2> QED  BY <2>3, <2>4, <2>6, <2>7, <2>8 DEF IInv
<1>6. CASE /\ Fault
           /\ rec' \in {rec, [rec EXCEPT ![at] = r]}
           /\ GiveBack
           /\ Finish("error")
  <2>1. rec' \in [Ids -> Records] /\ rec'[at] \in {rec[at], r}
        /\ \A x \in Ids \ {at} : rec'[x] = rec[x]
    BY <1>3, <1>4, <1>6
  <2>2. RecordInv'
    BY <1>1, <1>3, <2>1 DEF RecordInv
  <2>3. lease' \in [Ids -> {"free", "held", "orphan"}]
    BY <1>4, <1>6 DEF GiveBack
  <2>4. faults' \in 0..MaxFaults
    BY <1>1, <1>6, SweepAssumption DEF TypeOK, Fault
  <2> QED  BY <1>2, <1>6, <2>1, <2>2, <2>3, <2>4, FinishKeeps, ResultTypes
<1> QED  BY <1>5, <1>6 DEF Save

Cause ==
  \A x \in Ids :
    RolledBack(rec'[x]) /\ ~RolledBack(rec[x]) =>
      At(rec[x], {"FAILED"}) # {} \/ x \in cut

\* What makes the record that is to be saved acceptable.
Fit(r, l) ==
  /\ r \in Records /\ l \in {"drive", "act"}
  /\ Sound(at, r)
  /\ l = "act" => r.status = "RUNNING"
  /\ RolledBack(r) /\ ~RolledBack(copy) => At(copy, {"FAILED"}) # {} \/ at \in cut

LEMMA SaveIsFit ==
  ASSUME IInv, pc \in {"drive", "act"}, version' = version,
         NEW r, NEW l, Fit(r, l), Save(r, l)
  PROVE  IInv' /\ Cause
<1>1. IInv'
  BY SaveKeeps DEF Fit
<1>2. rec \in [Ids -> Records] /\ at \in Ids /\ copy = rec[at]
  BY InHandIsApart DEF IInv, TypeOK, HandInv, InCall
<1>3. rec' \in {rec, [rec EXCEPT ![at] = r]}
  BY DEF Save
<1>4. \A x \in Ids : rec'[x] = rec[x] \/ (x = at /\ rec'[x] = r)
  BY <1>2, <1>3
<1>5. Cause
  BY <1>2, <1>4 DEF Cause, Fit
<1> QED  BY <1>1, <1>5

\* What an engine that is at work knows.
LEMMA AtWork ==
  ASSUME IInv, pc \in {"drive", "act"}
  PROVE  /\ at \in Ids /\ copy \in Records /\ Sound(at, copy)
         /\ copy.steps \in Seq(StepStatus) /\ copy.status \in Status
         /\ Len(copy.steps) \in Nat /\ DOMAIN copy.steps = 1..Len(copy.steps)
         /\ version \in Versions
         /\ Definitions[version][at] \in Nat /\ Registered(at)
         /\ pc = "act" => copy.status = "RUNNING"
         /\ ctx # "live" => at \in cut
<1>1. at \in Ids /\ version \in Versions /\ copy \in Records
      /\ ctx \in {"live", "timeout", "cancelled"}
  BY InHandIsApart DEF IInv, TypeOK, HandInv, InCall
<1>2. at # None /\ copy = rec[at] /\ Registered(at)
      /\ (pc = "act" => copy.status = "RUNNING")
  BY DEF IInv, HandInv, InCall
<1>3. Sound(at, copy)
  BY <1>1, <1>2 DEF IInv, RecordInv
<1>4. copy.steps \in Seq(StepStatus) /\ copy.status \in Status
  BY <1>1 DEF Records
<1>5. Definitions[version][at] \in Nat
  BY <1>1, <1>2, SweepAssumption DEF Registered
<1>6. ctx # "live" => at \in cut
  BY <1>1, <1>2 DEF IInv, CutInv, InHand
<1> QED  BY <1>1, <1>2, <1>3, <1>4, <1>5, <1>6

\* A set of numbers has a least one.
LEMMA LeastOf ==
  ASSUME NEW S, S # {}, S \subseteq Nat
  PROVE  \E i \in S : \A j \in S : i <= j
<1> DEFINE Less == OpToRel(<, Nat)
<1>1. IsWellFoundedOn(Less, Nat)
  BY NatLessThanWellFounded, Zenon
<1>2. \A j, i \in Nat : j < i => <<j, i>> \in Less
  BY Zenon DEF OpToRel
<1> HIDE DEF Less
<1>3. \E i \in S : \A j \in S : ~(<<j, i>> \in Less)
  BY <1>1, WFMin, Zenon
<1>4. PICK i \in S : \A j \in S : ~(<<j, i>> \in Less)
  BY <1>3, Zenon
<1>5. \A j \in S : i \in Nat /\ j \in Nat
  OBVIOUS
<1>6. \A j \in S : ~(j < i)
  BY <1>2, <1>4, <1>5, Zenon
<1>7. \A j \in S : i <= j
  BY <1>5, <1>6
<1> QED  BY <1>7

\* A failed step implies a first one.
LEMMA FirstFailed ==
  ASSUME NEW r \in Records, At(r, {"FAILED"}) # {}
  PROVE  \E i \in At(r, {"FAILED"}) : \A j \in At(r, {"FAILED"}) : i <= j
<1>1. At(r, {"FAILED"}) \subseteq Nat
  BY DEF At, Records
<1> QED  BY <1>1, LeastOf

-------------------------------------------------------------------------------
(***************************************************************************)
(* The engine's saves.                                                     *)
(***************************************************************************)
LEMMA BeginRunFit ==
  ASSUME IInv, BeginRun
  PROVE  IInv' /\ Cause
<1> DEFINE r == MoveStatus(copy, "RUNNING")
<1>1. pc = "drive" /\ copy.status = "PENDING" /\ Save(r, "drive") /\ version' = version
  BY DEF BeginRun, Drives
<1>2. r \in Records /\ r.status = "RUNNING" /\ r.steps = copy.steps
  BY <1>1, AtWork, StatusUpdate DEF Status
<1> HIDE DEF r
<1>3. Sound(at, r)
  BY <1>1, <1>2, AtWork DEF Sound
<1>4. Fit(r, "drive")
  BY <1>2, <1>3 DEF Fit, RolledBack
<1> QED  BY <1>1, <1>4, SaveIsFit

LEMMA CompleteFit ==
  ASSUME IInv, Complete
  PROVE  IInv' /\ Cause
<1> DEFINE r == MoveStatus(copy, "COMPLETED")
<1>1. /\ pc = "drive" /\ copy.status = "RUNNING" /\ NoneFailed
      /\ Save(r, "drive") /\ version' = version
  BY DEF Complete, Drives
<1>2. r \in Records /\ r.status = "COMPLETED" /\ r.steps = copy.steps
  BY <1>1, AtWork, StatusUpdate DEF Status
<1> HIDE DEF r
<1>3. PICK i \in 1..(Len(copy.steps) + 1) :
        IsFrontier(copy, i) /\ i > Definitions[version][at]
  BY DEF Complete
<1>4. At(copy, {"FAILED"}) = {}
  <2> SUFFICES ASSUME At(copy, {"FAILED"}) # {}
               PROVE  FALSE
    OBVIOUS
  <2>1. PICK k \in At(copy, {"FAILED"}) : \A j \in At(copy, {"FAILED"}) : k <= j
    BY <1>1, AtWork, FirstFailed
  <2> QED  BY <1>1, <2>1 DEF NoneFailed, IsFirstFailed, At
<1>5. LeftOver(r, Definitions[version][at])
  <2> SUFFICES ASSUME NEW j \in DOMAIN copy.steps, copy.steps[j] # "SUCCEEDED"
               PROVE  /\ j > Definitions[version][at]
                      /\ copy.steps[j] \in {"PENDING", "RUNNING"}
    BY <1>2 DEF LeftOver
  <2>1. copy.steps[j] \in {"PENDING", "RUNNING"}
    BY <1>1, <1>4, AtWork DEF Sound, Forward, At
  <2>2. j \notin 1..(i - 1)
    BY <1>3 DEF IsFrontier
  <2>3. j > Definitions[version][at]
    BY <1>1, <1>3, <2>2, AtWork
  <2> QED  BY <2>1, <2>3
<1>6. Sound(at, r)
  BY <1>1, <1>2, <1>5, AtWork DEF Sound, Registered
<1>7. Fit(r, "drive")
  BY <1>2, <1>6 DEF Fit, RolledBack
<1> QED  BY <1>1, <1>7, SaveIsFit

\* A change of one step that leaves it in a status of the loop forward, or any
\* change in a saga that has turned back.
LEMMA StepMoveFit ==
  ASSUME IInv, pc \in {"drive", "act"}, version' = version,
         NEW i \in DOMAIN copy.steps, NEW to \in StepStatus,
         NEW l \in {"drive", "act"}, Save(MoveStep(copy, i, to), l),
         copy.status \in {"RUNNING", "COMPENSATING"},
         copy.status = "RUNNING" => to \in Forward,
         l = "act" => copy.status = "RUNNING"
  PROVE  IInv' /\ Cause
<1> DEFINE r == MoveStep(copy, i, to)
<1>1. /\ r \in Records /\ r.status = copy.status
      /\ DOMAIN r.steps = DOMAIN copy.steps /\ Len(r.steps) = Len(copy.steps)
      /\ \A j \in DOMAIN copy.steps : r.steps[j] = IF j = i THEN to ELSE copy.steps[j]
  BY AtWork, StepUpdate
<1>2. Save(r, l)
  OBVIOUS
<1> HIDE DEF r
<1>3. Sound(at, r)
  BY <1>1, AtWork DEF Sound
<1>4. Fit(r, l)
  BY <1>1, <1>3 DEF Fit, RolledBack
<1> QED  BY <1>2, <1>4, SaveIsFit

LEMMA StartFit ==
  ASSUME IInv, NEW i, Start(i)
  PROVE  IInv' /\ Cause
<1>1. /\ pc = "drive" /\ copy.status = "RUNNING" /\ version' = version
      /\ i \in DOMAIN copy.steps /\ Save(MoveStep(copy, i, "RUNNING"), "act")
  BY DEF Start, Comes, Drives, At
<1> QED  BY <1>1, StepMoveFit DEF Forward, StepStatus

LEMMA ActFit ==
  ASSUME IInv, NEW i \in 1..(Len(copy.steps) + 1), Act(i)
  PROVE  IInv' /\ Cause
<1>1. pc = "act" /\ copy.status = "RUNNING" /\ version' = version
  BY AtWork DEF Act
<1>2. PICK s \in {"SUCCEEDED", "FAILED"} : Save(MoveStep(copy, i, s), "drive")
  BY DEF Act
<1>3. CASE i \in DOMAIN copy.steps
  BY <1>1, <1>2, <1>3, StepMoveFit DEF Forward, StepStatus
<1>4. CASE i \notin DOMAIN copy.steps
  <2>1. MoveStep(copy, i, s) = copy
    BY <1>1, <1>4, AtWork DEF MoveStep, Records
  <2>2. Fit(copy, "drive")
    BY <1>1, AtWork DEF Fit
  <2> QED  BY <1>1, <1>2, <2>1, <2>2, SaveIsFit
<1> QED  BY <1>3, <1>4

LEMMA AbortFit ==
  ASSUME IInv, NEW i, Abort(i)
  PROVE  IInv' /\ Cause
<1>1. /\ pc = "drive" /\ copy.status = "RUNNING" /\ version' = version
      /\ At(copy, {"FAILED"}) # {} \/ ctx # "live"
  BY DEF Abort, Comes, Drives, IsFirstFailed
<1>2. PICK s \in {"COMPENSATING", "FAILED"} : Save(MoveStatus(copy, s), "drive")
  BY DEF Abort
<1> DEFINE r == MoveStatus(copy, s)
<1>3. r \in Records /\ r.status = s /\ r.steps = copy.steps
  BY <1>1, AtWork, StatusUpdate DEF Status
<1>4. Save(r, "drive")
  BY <1>2
<1> HIDE DEF r
<1>5. Sound(at, r)
  BY <1>1, <1>3, AtWork DEF Sound
<1>6. Fit(r, "drive")
  BY <1>1, <1>3, <1>5, AtWork DEF Fit
<1> QED  BY <1>1, <1>4, <1>6, SaveIsFit

LEMMA UndoFit ==
  ASSUME IInv, NEW i, Undo(i)
  PROVE  IInv' /\ Cause
<1>1. /\ pc = "drive" /\ copy.status = "COMPENSATING" /\ version' = version
      /\ i \in DOMAIN copy.steps
  BY DEF Undo, Drives, IsNextUndo, At
<1>2. PICK s \in {"COMPENSATING", "COMPENSATED", "COMPENSATION_FAILED"} :
        Save(MoveStep(copy, i, s), "drive")
  BY DEF Undo
<1> QED  BY <1>1, <1>2, StepMoveFit DEF StepStatus

LEMMA FinishRollbackFit ==
  ASSUME IInv, FinishRollback
  PROVE  IInv' /\ Cause
<1>1. pc = "drive" /\ copy.status = "COMPENSATING" /\ version' = version
  BY DEF FinishRollback, Drives
<1>2. PICK s \in {"COMPENSATED", "COMPENSATION_FAILED"} : Save(MoveStatus(copy, s), "drive")
  BY DEF FinishRollback
<1> DEFINE r == MoveStatus(copy, s)
<1>3. r \in Records /\ r.status = s /\ r.steps = copy.steps
  BY <1>1, AtWork, StatusUpdate DEF Status
<1>4. Save(r, "drive")
  BY <1>2
<1> HIDE DEF r
<1>5. Sound(at, r)
  BY <1>1, <1>3, AtWork DEF Sound
<1>6. Fit(r, "drive")
  BY <1>1, <1>3, <1>5 DEF Fit, RolledBack
<1> QED  BY <1>1, <1>4, <1>6, SaveIsFit

-------------------------------------------------------------------------------
(***************************************************************************)
(* The rest of a call, the loop, and what comes from outside.              *)
(***************************************************************************)
\* A step that changes no record has no rollback to account for.
LEMMA NoChangeNoCause == rec' = rec => Cause
BY DEF Cause, RolledBack

\* A call without an answer goes on.
LEMMA CallGoesOn ==
  ASSUME IInv,
         UNCHANGED <<version, rec, loop, answers, hand, faults>>,
         pc' \in InCall <=> pc \in InCall, pc' # "acquire" \/ pc = "acquire",
         pc' = "idle" => pc = "idle" /\ ctx' = ctx,
         pc' \in {"idle", "sweep", "acquire", "drive", "act"},
         pc' = "act" => copy.status = "RUNNING",
         lease' \in [Ids -> {"free", "held", "orphan"}],
         ctx' \in {"live", "timeout", "cancelled"}, cut' \subseteq Ids,
         ctx' = "cancelled" => InHand \cup todo \subseteq cut',
         ctx' = "timeout" => at \in cut' /\ pc' \in {"drive", "act"}
  PROVE  IInv' /\ Cause
<1>1. UNCHANGED <<version, rec, listed, todo, answers, at, copy, faults>>
  BY DEF loop, hand
<1>2. Answered' = Answered /\ InHand' = InHand
  BY <1>1 DEF Answered, InHand
<1>3. TypeOK'
  BY <1>1 DEF IInv, TypeOK
<1>4. HandInv'
  BY <1>1 DEF IInv, HandInv, Registered
<1>5. LoopInv' /\ CutInv'
  BY <1>1, <1>2 DEF IInv, LoopInv, CutInv
<1>6. RecordInv' /\ ListInv'
  BY <1>1 DEF IInv, RecordInv, ListInv
<1> QED  BY <1>1, <1>3, <1>4, <1>5, <1>6, NoChangeNoCause DEF IInv

LEMMA OutsideKeeps ==
  ASSUME IInv, Acquire \/ Cancel \/ Timeout \/ (\E x \in Ids : Lapse(x))
                 \/ \E i \in Nat : StartAgain(i)
  PROVE  IInv' /\ Cause
<1> USE DEF IInv, TypeOK, HandInv, CutInv, InCall
<1>1. CASE Acquire
  BY <1>1, CallGoesOn DEF Acquire
<1>2. CASE Cancel
  <2>1. pc # "idle" /\ ctx' = "cancelled" /\ pc' = pc
        /\ cut' = cut \cup todo \cup ({at} \cap Ids)
        /\ UNCHANGED <<version, rec, lease, loop, answers, hand, faults>>
    BY <1>2 DEF Cancel
  <2>2. InHand \cup todo \subseteq cut' /\ cut' \subseteq Ids
    BY <2>1 DEF InHand
  <2> QED  BY <2>1, <2>2, CallGoesOn
<1>3. CASE Timeout
  <2>1. pc \in {"drive", "act"} /\ ctx' = "timeout" /\ pc' = pc
        /\ cut' = cut \cup {at} /\ at # None
        /\ UNCHANGED <<version, rec, lease, loop, answers, hand, faults>>
    BY <1>3 DEF Timeout
  <2>2. at \in Ids
    BY <2>1
  <2> QED  BY <2>1, <2>2, CallGoesOn
<1>4. ASSUME NEW x \in Ids, Lapse(x)
      PROVE  IInv' /\ Cause
  BY <1>4, CallGoesOn DEF Lapse
<1>5. ASSUME NEW i \in Nat, StartAgain(i)
      PROVE  IInv' /\ Cause
  BY <1>5, CallGoesOn DEF StartAgain, Comes, Drives
<1> QED  BY <1>1, <1>2, <1>3, <1>4, <1>5

\* The calls that come back without having driven, or with a terminal record.
LEMMA ReturnsKeep ==
  ASSUME IInv, ReportLocked \/ AcquireFails \/ Settled
  PROVE  IInv' /\ Cause
<1>1. /\ rec' = rec /\ version' = version /\ at # None /\ copy = rec[at]
      /\ RecordInv /\ rec \in [Ids -> Records]
  BY DEF ReportLocked, AcquireFails, Settled, IInv, HandInv, InCall, TypeOK
<1>2. RecordInv'
  BY <1>1 DEF RecordInv
<1>3. lease' \in [Ids -> {"free", "held", "orphan"}] /\ faults' \in 0..MaxFaults
  <2>1. lease \in [Ids -> {"free", "held", "orphan"}] /\ faults \in 0..MaxFaults
    BY DEF IInv, TypeOK
  <2> QED  BY <2>1, SweepAssumption
           DEF ReportLocked, AcquireFails, Settled, GiveBack, Fault
<1>4. PICK res \in Results : Finish(res)
  BY ResultTypes DEF ReportLocked, AcquireFails, Settled
<1> QED  BY <1>1, <1>2, <1>3, <1>4, FinishKeeps, NoChangeNoCause

\* The process comes to rest: a sweep is over, or was cut short.
LEMMA RestKeeps ==
  ASSUME IInv, Return \/ Panic \/ Crash
  PROVE  IInv' /\ Cause
<1>1. /\ rec' = rec /\ version' \in Versions /\ pc' = "idle" /\ ctx' = "live"
      /\ cut' = {} /\ listed' = <<>> /\ todo' = {} /\ answers' = <<>>
      /\ at' = None /\ copy' \in Records
  <2>1. NoCopy \in Records
    BY DEF NoCopy, Fresh, Records, Status, StepStatus
  <2> QED  BY <2>1
           DEF IInv, TypeOK, HandInv, InCall, Return, Panic, Crash, Restart,
               ComeToRest, ForgetLoop, ForgetHand, hand
<1>2. lease' \in [Ids -> {"free", "held", "orphan"}]
  BY DEF IInv, TypeOK, Return, Panic, Crash, GiveBack
<1>3. faults' \in 0..MaxFaults
  BY SweepAssumption DEF IInv, TypeOK, Return, Panic, Crash, Fault
<1>4. Answered' = {} /\ InHand' = {} /\ DOMAIN listed' = {} /\ Len(answers') = 0
  BY <1>1 DEF Answered, InHand
<1>5. TypeOK'
  BY <1>1, <1>2, <1>3, <1>4 DEF IInv, TypeOK
<1>6. HandInv' /\ CutInv'
  BY <1>1, <1>4 DEF HandInv, CutInv, InCall
<1>7. LoopInv'
  BY <1>1, <1>4 DEF LoopInv
<1>8. RecordInv' /\ ListInv'
  BY <1>1, <1>4 DEF IInv, RecordInv, ListInv
<1> QED  BY <1>1, <1>5, <1>6, <1>7, <1>8, NoChangeNoCause DEF IInv

LEMMA RecoverKeeps ==
  ASSUME IInv, Recover
  PROVE  IInv' /\ Cause
<1>1. /\ pc = "idle" /\ pc' = "sweep" /\ at = None
      /\ listed = <<>> /\ todo = {} /\ answers = <<>> /\ ctx = "live"
      /\ UNCHANGED <<version, rec, lease, answers, at, copy, ctx, cut, faults>>
  BY DEF Recover, IInv, HandInv, InCall, hand
<1>2. /\ todo' \subseteq Ids /\ listed' = [x \in todo' |-> rec[x]]
  BY DEF Recover
<1>3. Answered' = {} /\ InHand' = {} /\ DOMAIN listed' = todo' /\ Len(answers') = 0
  BY <1>1, <1>2 DEF Answered, InHand
<1>4. TypeOK'
  BY <1>1, <1>2, <1>3 DEF IInv, TypeOK
<1>5. HandInv' /\ CutInv'
  BY <1>1, <1>3 DEF HandInv, CutInv, InCall
<1>6. LoopInv'
  BY <1>1, <1>3 DEF LoopInv
<1>7. RecordInv' /\ ListInv'
  BY <1>1, <1>2, <1>3 DEF IInv, RecordInv, ListInv
<1> QED  BY <1>1, <1>4, <1>5, <1>6, <1>7, NoChangeNoCause DEF IInv

\* The loop answers for an execution by itself.
LEMMA AnswersKeep ==
  ASSUME IInv, NEW x \in Ids, ReportUnregistered(x) \/ Skip(x)
  PROVE  IInv' /\ Cause
<1>1. PICK res \in {"unregistered", "skipped"} :
        /\ pc = "sweep" /\ IsNext(x)
        /\ Answer(x, res) /\ todo' = todo \ {x}
        /\ UNCHANGED <<version, pc, rec, lease, listed, at, copy, ctx, cut, faults>>
  BY DEF ReportUnregistered, Skip, hand
<1>2. x \in todo /\ \A y \in todo' : Before(x, y)
  BY <1>1 DEF IsNext
<1>3. TypeOK /\ HandInv /\ LoopInv /\ CutInv /\ ListInv /\ RecordInv
  BY DEF IInv
<1>4. at = None /\ InHand = {} /\ InHand' = {} /\ ctx # "timeout"
  BY <1>1, <1>3 DEF HandInv, CutInv, InCall, InHand
<1>5. res \in Results
  BY ResultTypes
<1>6. answers' \in Seq([id : Ids, result : Results]) /\ Answered' = Answered \cup {x}
  BY <1>1, <1>3, <1>5, AnswerAdds
<1>7. TypeOK'
  BY <1>1, <1>3, <1>6 DEF TypeOK
<1>8. HandInv' /\ CutInv'
  BY <1>1, <1>3, <1>4 DEF HandInv, CutInv, InCall
<1>9. LoopInv'
  <2>1. \A y \in Answered : Before(y, x)
    BY <1>2, <1>3 DEF LoopInv
  <2>2. \A m, n \in 1..Len(answers') :
           m < n => Before(answers'[m].id, answers'[n].id)
    BY <1>1, <1>3, <1>5, <2>1, AnswerKeepsOrder DEF LoopInv
  <2>3. Answered' \cup InHand' \cup todo' = DOMAIN listed'
    BY <1>1, <1>2, <1>3, <1>4, <1>6 DEF LoopInv
  <2>4. \A z \in Answered', y \in InHand' \cup todo' : Before(z, y)
    BY <1>1, <1>2, <1>3, <1>4, <1>6 DEF LoopInv
  <2> QED  BY <1>4, <2>2, <2>3, <2>4 DEF LoopInv
<1>10. ListInv'
  BY <1>1, <1>3 DEF ListInv
<1>11. RecordInv'
  BY <1>1, <1>3 DEF RecordInv
<1> QED
  BY <1>1, <1>7, <1>8, <1>9, <1>10, <1>11, NoChangeNoCause DEF IInv

\* The loop takes an execution in hand: the copy it was given is still that of
\* the store.
LEMMA ResumeKeeps ==
  ASSUME IInv, NEW x \in Ids, Resume(x)
  PROVE  IInv' /\ Cause
<1>1. /\ pc = "sweep" /\ IsNext(x) /\ Registered(x)
      /\ pc' = "acquire" /\ at' = x /\ copy' = listed[x] /\ todo' = todo \ {x}
      /\ UNCHANGED <<version, rec, lease, listed, answers, ctx, cut, faults>>
  BY DEF Resume
<1>2. x \in todo /\ \A y \in todo' : Before(x, y)
  BY <1>1 DEF IsNext
<1>3. TypeOK /\ HandInv /\ LoopInv /\ CutInv /\ ListInv /\ RecordInv
  BY DEF IInv
<1>4. x # None /\ InHand = {} /\ InHand' = {x} /\ Answered' = Answered
      /\ ctx # "timeout"
  <2>1. x # None
    BY SweepAssumption DEF None
  <2> QED  BY <1>1, <1>3, <2>1 DEF HandInv, CutInv, InCall, InHand, Answered
<1>5. listed[x] = rec[x] /\ listed[x] \in Records
  BY <1>2, <1>3 DEF ListInv, TypeOK
<1>6. TypeOK'
  BY <1>1, <1>3, <1>5 DEF TypeOK
<1>7. HandInv'
  BY <1>1, <1>4, <1>5 DEF HandInv, InCall, Registered
<1>8. LoopInv' /\ CutInv'
  BY <1>1, <1>2, <1>3, <1>4 DEF LoopInv, CutInv
<1>9. RecordInv' /\ ListInv'
  BY <1>1, <1>3 DEF RecordInv, ListInv
<1> QED  BY <1>1, <1>6, <1>7, <1>8, <1>9, NoChangeNoCause DEF IInv

-------------------------------------------------------------------------------
(***************************************************************************)
(* Every step, and what follows.                                           *)
(***************************************************************************)
LEMMA InitSound == Init => IInv
<1> SUFFICES ASSUME Init PROVE IInv
  OBVIOUS
<1>1. /\ version \in Versions /\ pc = "idle" /\ lease = [x \in Ids |-> "free"]
      /\ listed = <<>> /\ todo = {} /\ answers = <<>> /\ at = None
      /\ copy = NoCopy /\ ctx = "live" /\ cut = {} /\ faults = 0
  BY DEF Init
<1>2. \A n \in Nat : /\ Fresh(n) \in Records /\ Fresh(n).status = "PENDING"
                     /\ \A i \in DOMAIN Fresh(n).steps : Fresh(n).steps[i] = "PENDING"
  BY DEF Fresh, Records, Status, StepStatus
<1>3. \A x \in Ids : \E n \in Nat : rec[x] = Fresh(n)
  <2>1. rec \in [Ids -> {Fresh(n) : n \in Lengths}]
    BY DEF Init
  <2>2. Lengths \subseteq Nat
    BY DEF Lengths
  <2> QED  BY <2>1, <2>2
<1>4. rec \in [Ids -> Records]
  <2>1. rec \in [Ids -> {Fresh(n) : n \in Lengths}]
    BY DEF Init
  <2> QED  BY <1>2, <1>3, <2>1
<1>5. Answered = {} /\ InHand = {} /\ DOMAIN listed = {} /\ Len(answers) = 0
  BY <1>1 DEF Answered, InHand
<1>6. RecordInv
  <2>1. \A x \in Ids : HasDefinition(x, Len(rec[x].steps))
    BY DEF Init
  <2> QED  BY <1>2, <1>3, <2>1 DEF RecordInv, Sound, Forward
<1>7. NoCopy \in Records
  BY <1>2 DEF NoCopy
<1>8. TypeOK
  BY <1>1, <1>4, <1>5, <1>7, SweepAssumption DEF TypeOK
<1>9. HandInv /\ CutInv /\ LoopInv /\ ListInv
  BY <1>1, <1>5 DEF HandInv, CutInv, LoopInv, ListInv, InCall
<1> QED  BY <1>6, <1>8, <1>9 DEF IInv

LEMMA NextSound ==
  ASSUME IInv, [Next]_vars
  PROVE  IInv' /\ Cause
<1>1. CASE UNCHANGED vars
  <2>1. UNCHANGED <<version, rec, loop, answers, hand, faults, pc, ctx, cut, lease>>
    BY <1>1 DEF vars
  <2> QED  BY <2>1, CallGoesOn DEF IInv, TypeOK, HandInv, CutInv
<1>2. CASE Recover
  BY <1>2, RecoverKeeps
<1>3. CASE Sweep
  BY <1>3, RestKeeps, AnswersKeep, ResumeKeeps DEF Sweep
<1>4. ASSUME NEW i \in 1..(Len(copy.steps) + 1),
             Start(i) \/ StartAgain(i) \/ Act(i) \/ Abort(i) \/ Undo(i)
      PROVE  IInv' /\ Cause
  <2>1. i \in Nat
    <3>1. copy.steps \in Seq(StepStatus)
      BY DEF IInv, TypeOK, Records
    <3> QED  BY <3>1
  <2> QED  BY <1>4, <2>1, StartFit, OutsideKeeps, ActFit, AbortFit, UndoFit
<1>5. CASE Engine
  BY <1>4, <1>5, OutsideKeeps, ReturnsKeep, BeginRunFit, CompleteFit,
     FinishRollbackFit, RestKeeps DEF Engine
<1>6. CASE (\E x \in Ids : Lapse(x)) \/ Crash \/ Cancel \/ Timeout
  BY <1>6, OutsideKeeps, RestKeeps
<1> QED  BY <1>1, <1>2, <1>3, <1>5, <1>6 DEF Next

LEMMA Always == Spec => []IInv
BY InitSound, NextSound, PTL DEF Spec

\* The types, with those of the copies that a sweep works on.
THEOREM SweepTypes == Spec => []TypeOK
<1>1. IInv => TypeOK
  BY DEF IInv
<1> QED  BY <1>1, Always, PTL

\* One answer for each execution, in the order of their creation.
THEOREM AnswersComeInOrder == Spec => []AnswersInOrder
<1>1. IInv => AnswersInOrder
  BY DEF IInv, LoopInv, AnswersInOrder
<1> QED  BY <1>1, Always, PTL

\* What a COMPLETED record has run.
THEOREM CompletedIsRun == Spec => []CompletedMeans
<1>1. IInv => CompletedMeans
  BY DEF IInv, RecordInv, Sound, LeftOver, CompletedMeans
<1> QED  BY <1>1, Always, PTL

\* Only a definition of another length lets the engine index past an end.
THEOREM OnlyDriftPanics == Spec => []PanicsByDrift
<1>1. IInv => PanicsByDrift
  <2> SUFFICES ASSUME IInv, OutOfRange, Constant(at)
               PROVE  FALSE
    BY DEF PanicsByDrift
  <2>1. pc = "drive"
    BY DEF OutOfRange, Comes, Drives
  <2>2. PICK v \in Versions : Definitions[v][at] = Len(copy.steps)
    BY <2>1, AtWork DEF Sound, HasDefinition
  <2>3. Definitions[version][at] # Len(copy.steps)
    BY <2>1, AtWork DEF OutOfRange, Comes
  <2>4. Unregistered \notin Nat
    BY SweepAssumption
  <2> QED  BY <2>1, <2>2, <2>3, <2>4, AtWork DEF Constant
<1> QED  BY <1>1, Always, PTL

\* No execution is given up without a cause.
THEOREM RollbacksHaveACause == Spec => RollbackHasCause
<1>1. IInv /\ [Next]_vars => [Cause]_vars
  BY NextSound
<1> QED  BY <1>1, Always, PTL DEF Spec, RollbackHasCause, Cause

-------------------------------------------------------------------------------
(***************************************************************************)
(* Each execution goes through the contract of a single one, however the   *)
(* sweeps stop, panic and start again.                                     *)
(***************************************************************************)
\* Going forward, a step was only touched after all the ones before succeeded.
Ordered(r) ==
  r.status \in {"PENDING", "RUNNING"} =>
    \A i \in DOMAIN r.steps :
      r.steps[i] # "PENDING" => \A j \in 1..(i - 1) : r.steps[j] = "SUCCEEDED"

AtFrontier(r) ==
  \E i \in DOMAIN r.steps : IsFrontier(r, i) /\ r.steps[i] = "RUNNING"

OrderInv ==
  /\ \A x \in Ids : Ordered(rec[x])
  /\ pc = "act" => AtFrontier(copy)

\* The durable record of x makes a lawful transition.
Lawful(x, v) ==
  rec'[x] # rec[x] /\ Definitions[v][x] = Len(rec'[x].steps) =>
    Contract(x, Definitions[v][x])!Next

\* What a save does to the records.
LEMMA SaveEffect ==
  ASSUME IInv, pc \in {"drive", "act"}, NEW r \in Records, NEW l, Save(r, l)
  PROVE  /\ \A x \in Ids : rec'[x] # rec[x] =>
              x = at /\ rec[x] = copy /\ rec'[x] = r
         /\ (pc' = l /\ copy' = r) \/ pc' = "sweep"
<1>1. rec \in [Ids -> Records] /\ at \in Ids /\ copy = rec[at]
  BY InHandIsApart DEF IInv, TypeOK, HandInv, InCall
<1>2. rec' \in {rec, [rec EXCEPT ![at] = r]}
  BY DEF Save
<1>3. (pc' = l /\ copy' = r) \/ pc' = "sweep"
  BY DEF Save, Finish
<1> QED  BY <1>1, <1>2, <1>3

LEMMA SaveKeepsOrder ==
  ASSUME IInv, OrderInv, pc \in {"drive", "act"},
         NEW r \in Records, NEW l \in {"drive", "act"}, Save(r, l),
         Ordered(r), l = "act" => AtFrontier(r)
  PROVE  OrderInv'
<1>1. \A x \in Ids : rec'[x] = rec[x] \/ rec'[x] = r
  BY SaveEffect
<1>2. \A x \in Ids : Ordered(rec'[x])
  BY <1>1 DEF OrderInv
<1>3. pc' = "act" => AtFrontier(copy')
  BY SaveEffect
<1> QED  BY <1>2, <1>3 DEF OrderInv, Ordered, AtFrontier, IsFrontier

-------------------------------------------------------------------------------
LEMMA BeginRunLawful ==
  ASSUME IInv, OrderInv, BeginRun
  PROVE  OrderInv' /\ \A x \in Ids, v \in {version} : Lawful(x, v)
<1> DEFINE r == MoveStatus(copy, "RUNNING")
<1>1. pc = "drive" /\ copy.status = "PENDING" /\ Save(r, "drive")
  BY DEF BeginRun, Drives
<1>2. r \in Records /\ r.status = "RUNNING" /\ r.steps = copy.steps
  BY <1>1, AtWork, StatusUpdate DEF Status
<1> HIDE DEF r
<1>3. Ordered(copy)
  BY <1>1, AtWork DEF OrderInv, IInv, HandInv, InCall
<1>4. OrderInv'
  BY <1>1, <1>2, <1>3, SaveKeepsOrder DEF Ordered
<1>5. ASSUME NEW x \in Ids, NEW v \in {version}, rec'[x] # rec[x],
             Definitions[v][x] = Len(rec'[x].steps)
      PROVE  Contract(x, Definitions[v][x])!Next
  <2>1. rec[x] = copy /\ rec'[x] = r
    BY <1>1, <1>2, <1>5, SaveEffect
  <2>2. Contract(x, Definitions[v][x])!Begin
    BY <1>1, <1>2, <2>1 DEF Contract!Begin, Contract!Become
  <2> QED  BY <2>2 DEF Contract!Next
<1> QED  BY <1>4, <1>5 DEF Lawful

LEMMA CompleteLawful ==
  ASSUME IInv, OrderInv, Complete
  PROVE  OrderInv' /\ \A x \in Ids, v \in {version} : Lawful(x, v)
<1> DEFINE r == MoveStatus(copy, "COMPLETED")
<1>1. pc = "drive" /\ copy.status = "RUNNING" /\ Save(r, "drive")
  BY DEF Complete, Drives
<1>2. r \in Records /\ r.status = "COMPLETED" /\ r.steps = copy.steps
  BY <1>1, AtWork, StatusUpdate DEF Status
<1> HIDE DEF r
<1>3. PICK i \in 1..(Len(copy.steps) + 1) :
        IsFrontier(copy, i) /\ i > Definitions[version][at]
  BY DEF Complete
<1>4. OrderInv'
  BY <1>1, <1>2, SaveKeepsOrder DEF Ordered
<1>5. ASSUME NEW x \in Ids, NEW v \in {version}, rec'[x] # rec[x],
             Definitions[v][x] = Len(rec'[x].steps)
      PROVE  Contract(x, Definitions[v][x])!Next
  <2>1. rec[x] = copy /\ rec'[x] = r /\ x = at
    BY <1>1, <1>2, <1>5, SaveEffect
  <2>2. \A j \in 1..Definitions[v][x] : copy.steps[j] = "SUCCEEDED"
    BY <1>1, <1>2, <1>3, <1>5, <2>1, AtWork DEF IsFrontier
  <2>3. Contract(x, Definitions[v][x])!Complete
    BY <1>1, <1>2, <2>1, <2>2
       DEF Contract!Complete, Contract!Become, Contract!Steps, Contract!Succeeded
  <2> QED  BY <2>3 DEF Contract!Next
<1> QED  BY <1>4, <1>5 DEF Lawful

\* A step is moved: what the contract asks, and the order that it keeps.
LEMMA StepMoveLawful ==
  ASSUME IInv, OrderInv, pc \in {"drive", "act"},
         NEW i \in DOMAIN copy.steps, NEW to \in StepStatus,
         NEW l \in {"drive", "act"}, Save(MoveStep(copy, i, to), l),
         copy.status = "RUNNING" => /\ \A j \in 1..(i - 1) : copy.steps[j] = "SUCCEEDED"
                                    /\ copy.steps[i] # "SUCCEEDED",
         copy.status # "PENDING",
         l = "act" => to = "RUNNING" /\ copy.status = "RUNNING",
         \A n \in Nat :
           n = Len(copy.steps) /\ n = Definitions[version][at] =>
             \/ /\ copy.status = "RUNNING"
                /\ \/ copy.steps[i] = "PENDING" /\ to = "RUNNING"
                   \/ copy.steps[i] = "RUNNING" /\ to \in {"SUCCEEDED", "FAILED"}
             \/ /\ copy.status = "COMPENSATING"
                /\ \/ /\ copy.steps[i] = "SUCCEEDED" /\ to = "COMPENSATING"
                      /\ i \in Compensable
                      /\ \A j \in Compensable \cap (1..n) :
                           j > i => copy.steps[j] \notin {"SUCCEEDED", "COMPENSATING"}
                   \/ /\ copy.steps[i] = "COMPENSATING"
                      /\ to \in {"COMPENSATED", "COMPENSATION_FAILED"}
  PROVE  OrderInv' /\ \A x \in Ids, v \in {version} : Lawful(x, v)
<1> DEFINE r == MoveStep(copy, i, to)
<1>1. /\ r \in Records /\ r.status = copy.status
      /\ DOMAIN r.steps = DOMAIN copy.steps /\ Len(r.steps) = Len(copy.steps)
      /\ \A j \in DOMAIN copy.steps : r.steps[j] = IF j = i THEN to ELSE copy.steps[j]
      /\ r.steps = [copy.steps EXCEPT ![i] = to]
  <2>1. copy \in Records
    BY AtWork
  <2>2. r.steps = [copy.steps EXCEPT ![i] = to]
    BY <2>1 DEF MoveStep, Records
  <2> QED  BY <2>1, <2>2, StepUpdate
<1>2. Save(r, l)
  OBVIOUS
<1> HIDE DEF r
<1>3. /\ DOMAIN copy.steps = 1..Len(copy.steps) /\ Len(copy.steps) \in Nat
      /\ copy.steps \in Seq(StepStatus)
  BY AtWork
<1>4. Ordered(copy)
  BY AtWork DEF OrderInv, IInv, HandInv, InCall
<1>5. Ordered(r)
  <2> SUFFICES ASSUME r.status \in {"PENDING", "RUNNING"}, NEW k \in DOMAIN r.steps,
                      r.steps[k] # "PENDING", NEW j \in 1..(k - 1)
               PROVE  r.steps[j] = "SUCCEEDED"
    BY DEF Ordered
  <2>1. copy.status = "RUNNING" /\ k \in 1..Len(copy.steps) /\ j \in 1..Len(copy.steps)
    BY <1>1, <1>3
  <2>2. CASE k = i
    BY <1>1, <1>3, <2>1, <2>2
  <2>3. CASE k # i
    <3>1. copy.steps[k] # "PENDING"
      BY <1>1, <2>3
    <3>2. copy.steps[j] = "SUCCEEDED"
      BY <1>3, <1>4, <2>1, <3>1 DEF Ordered
    <3> QED  BY <1>1, <1>3, <2>1, <3>2
  <2> QED  BY <2>2, <2>3
<1>6. l = "act" => AtFrontier(r)
  BY <1>1, <1>3 DEF AtFrontier, IsFrontier
<1>7. OrderInv'
  BY <1>1, <1>2, <1>5, <1>6, SaveKeepsOrder
<1>8. ASSUME NEW x \in Ids, NEW v \in {version}, rec'[x] # rec[x],
             Definitions[v][x] = Len(rec'[x].steps)
      PROVE  Contract(x, Definitions[v][x])!Next
  <2> DEFINE n == Definitions[v][x]
  <2> SUFFICES Contract(x, n)!Next
    OBVIOUS
  <2>1. rec[x] = copy /\ rec'[x] = r /\ x = at
    BY <1>1, <1>2, <1>8, SaveEffect
  <2>2. n = Len(copy.steps) /\ n = Definitions[version][at] /\ n \in Nat
    BY <1>1, <1>3, <1>8, <2>1
  <2>3. i \in 1..n /\ rec'[x].steps = [rec[x].steps EXCEPT ![i] = to]
        /\ rec'[x].status = rec[x].status
    BY <1>1, <1>3, <2>1, <2>2
  <2>4. Contract(x, n)!Move(i, to)
    BY <2>3 DEF Contract!Move
  <2> HIDE DEF n
  <2>5. CASE copy.status = "RUNNING"
    <3>1. \A j \in 1..(i - 1) : rec[x].steps[j] = "SUCCEEDED"
      BY <2>1, <2>5
    <3>2. CASE copy.steps[i] = "PENDING" /\ to = "RUNNING"
      <4>1. Contract(x, n)!Start(i)
        BY <2>1, <2>4, <2>5, <3>1, <3>2 DEF Contract!Start, Contract!Succeeded
      <4> QED  BY <2>3, <4>1 DEF Contract!Next, Contract!Steps
    <3>3. CASE copy.steps[i] = "RUNNING" /\ to \in {"SUCCEEDED", "FAILED"}
      <4>1. Contract(x, n)!Conclude(i)
        BY <2>1, <2>4, <2>5, <3>3 DEF Contract!Conclude
      <4> QED  BY <2>3, <4>1 DEF Contract!Next, Contract!Steps
    <3> QED  BY <2>2, <2>5, <3>2, <3>3
  <2>6. CASE copy.status = "COMPENSATING"
    <3>1. CASE copy.steps[i] = "COMPENSATING"
                 /\ to \in {"COMPENSATED", "COMPENSATION_FAILED"}
      <4>1. Contract(x, n)!ConcludeUndo(i)
        BY <2>1, <2>4, <2>6, <3>1 DEF Contract!ConcludeUndo
      <4> QED  BY <2>3, <4>1 DEF Contract!Next, Contract!Steps
    <3>2. CASE /\ copy.steps[i] = "SUCCEEDED" /\ to = "COMPENSATING"
               /\ i \in Compensable
               /\ \A j \in Compensable \cap (1..n) :
                    j > i => copy.steps[j] \notin {"SUCCEEDED", "COMPENSATING"}
      <4>1. Contract(x, n)!Undo(i)
        BY <1>3, <2>1, <2>2, <2>4, <2>6, <3>2
           DEF Contract!Undo, Contract!Succeeded, Contract!Settled, StepStatus
      <4> QED  BY <2>3, <4>1 DEF Contract!Next, Contract!Steps
    <3> QED  BY <2>2, <2>6, <3>1, <3>2
  <2> QED  BY <2>2, <2>5, <2>6
<1> QED  BY <1>7, <1>8 DEF Lawful

LEMMA StartLawful ==
  ASSUME IInv, OrderInv, NEW i, Start(i)
  PROVE  OrderInv' /\ \A x \in Ids, v \in {version} : Lawful(x, v)
<1>1. /\ pc = "drive" /\ copy.status = "RUNNING"
      /\ i \in DOMAIN copy.steps /\ copy.steps[i] = "PENDING" /\ IsFrontier(copy, i)
      /\ Save(MoveStep(copy, i, "RUNNING"), "act")
  BY DEF Start, Comes, Drives, At
<1>2. \A j \in 1..(i - 1) : copy.steps[j] = "SUCCEEDED"
  BY <1>1 DEF IsFrontier
<1> QED  BY <1>1, <1>2, StepMoveLawful DEF StepStatus

LEMMA ActLawful ==
  ASSUME IInv, OrderInv, NEW i \in 1..(Len(copy.steps) + 1), Act(i)
  PROVE  OrderInv' /\ \A x \in Ids, v \in {version} : Lawful(x, v)
<1>1. pc = "act" /\ IsFrontier(copy, i)
  BY DEF Act
<1>2. PICK s \in {"SUCCEEDED", "FAILED"} : Save(MoveStep(copy, i, s), "drive")
  BY DEF Act
<1>3. PICK k \in DOMAIN copy.steps : IsFrontier(copy, k) /\ copy.steps[k] = "RUNNING"
  BY <1>1 DEF OrderInv, AtFrontier
<1>4. copy.status = "RUNNING" /\ DOMAIN copy.steps = 1..Len(copy.steps)
      /\ Len(copy.steps) \in Nat
  BY <1>1, AtWork
<1>5. i = k
  BY <1>1, <1>3, <1>4 DEF IsFrontier
<1>6. \A j \in 1..(i - 1) : copy.steps[j] = "SUCCEEDED"
  BY <1>1 DEF IsFrontier
<1> QED  BY <1>1, <1>2, <1>3, <1>4, <1>5, <1>6, StepMoveLawful DEF StepStatus

LEMMA AbortLawful ==
  ASSUME IInv, OrderInv, NEW i \in 1..(Len(copy.steps) + 1), Abort(i)
  PROVE  OrderInv' /\ \A x \in Ids, v \in {version} : Lawful(x, v)
<1>1. /\ pc = "drive" /\ copy.status = "RUNNING"
      /\ IsFirstFailed(i)
           \/ (IsFrontier(copy, i) /\ i <= Definitions[version][at])
  BY DEF Abort, Comes, Drives
<1> DEFINE some == \E j \in 1..(i - 1) : copy.steps[j] = "SUCCEEDED"
           s == IF some THEN "COMPENSATING" ELSE "FAILED"
           r == MoveStatus(copy, s)
<1>2. r \in Records /\ r.status = s /\ r.steps = copy.steps /\ Save(r, "drive")
  BY <1>1, AtWork, StatusUpdate DEF Status, Abort
<1> HIDE DEF r
<1>3. OrderInv'
  BY <1>1, <1>2, SaveKeepsOrder DEF Ordered
<1>4. ASSUME NEW x \in Ids, NEW v \in {version}, rec'[x] # rec[x],
             Definitions[v][x] = Len(rec'[x].steps)
      PROVE  Contract(x, Definitions[v][x])!Next
  <2> DEFINE n == Definitions[v][x]
  <2> SUFFICES Contract(x, n)!Next
    OBVIOUS
  <2>1. rec[x] = copy /\ rec'[x] = r /\ x = at
    BY <1>1, <1>2, <1>4, SaveEffect
  <2>2. n = Len(copy.steps) /\ n = Definitions[version][at] /\ n \in Nat
        /\ DOMAIN copy.steps = 1..n
    BY <1>1, <1>2, <1>4, <2>1, AtWork
  <2> HIDE DEF n
  <2>3. i \in 1..n /\ copy.steps[i] # "SUCCEEDED"
    BY <1>1, <2>2 DEF IsFirstFailed, IsFrontier, At
  <2>4. \A k \in 1..n : copy.steps[k] = "SUCCEEDED" => k \in 1..(i - 1)
    <3>1. Ordered(copy)
      BY <1>1, AtWork DEF OrderInv, IInv, HandInv, InCall
    <3>2. \A k \in 1..n :
            copy.steps[k] = "SUCCEEDED" => \A j \in 1..(k - 1) : copy.steps[j] = "SUCCEEDED"
      BY <1>1, <2>2, <3>1 DEF Ordered
    <3> QED  BY <2>2, <2>3, <3>2
  <2>5. some <=> \E k \in 1..n : copy.steps[k] = "SUCCEEDED"
    BY <2>2, <2>3, <2>4
  <2>6. CASE some
    <3>1. Contract(x, n)!TurnBack
      BY <1>1, <1>2, <2>1, <2>3, <2>5, <2>6
         DEF Contract!TurnBack, Contract!Become, Contract!Steps, Contract!Succeeded
    <3> QED  BY <3>1 DEF Contract!Next
  <2>7. CASE ~some
    <3>1. Contract(x, n)!Fail
      BY <1>1, <1>2, <2>1, <2>3, <2>5, <2>7
         DEF Contract!Fail, Contract!Become, Contract!Steps, Contract!Succeeded
    <3> QED  BY <3>1 DEF Contract!Next
  <2> QED  BY <2>6, <2>7
<1> QED  BY <1>3, <1>4 DEF Lawful

LEMMA UndoLawful ==
  ASSUME IInv, OrderInv, NEW i, Undo(i)
  PROVE  OrderInv' /\ \A x \in Ids, v \in {version} : Lawful(x, v)
<1>1. /\ pc = "drive" /\ copy.status = "COMPENSATING" /\ IsNextUndo(copy, i)
      /\ i <= Definitions[version][at]
  BY DEF Undo, Drives
<1>2. PICK s \in IF copy.steps[i] = "SUCCEEDED" THEN {"COMPENSATING"}
                 ELSE {"COMPENSATED", "COMPENSATION_FAILED"} :
        Save(MoveStep(copy, i, s), "drive")
  BY DEF Undo
<1>3. DOMAIN copy.steps = 1..Len(copy.steps) /\ Definitions[version][at] \in Nat
      /\ Len(copy.steps) \in Nat
  BY <1>1, AtWork
<1>4. /\ i \in DOMAIN copy.steps /\ copy.steps[i] \in {"SUCCEEDED", "COMPENSATING"}
      /\ i \in Compensable
      /\ \A j \in Compensable \cap DOMAIN copy.steps :
           j > i => copy.steps[j] \notin {"SUCCEEDED", "COMPENSATING"}
  BY <1>1, <1>3 DEF IsNextUndo, At
<1> QED  BY <1>1, <1>2, <1>3, <1>4, StepMoveLawful DEF StepStatus

\* A bounded set of numbers has a greatest one.
LEMMA GreatestOf ==
  ASSUME NEW m \in Nat, NEW S, S # {}, S \subseteq 1..m
  PROVE  \E i \in S : \A j \in S : j <= i
<1> DEFINE T == {m - j : j \in S}
<1>1. T # {} /\ T \subseteq Nat
  <2>1. \A j \in S : m - j \in Nat
    OBVIOUS
  <2>2. T \subseteq Nat
    BY <2>1
  <2>3. PICK j \in S : TRUE
    OBVIOUS
  <2>4. m - j \in T
    OBVIOUS
  <2> QED  BY <2>2, <2>4
<1>2. PICK t \in T : \A u \in T : t <= u
  <2> HIDE DEF T
  <2> QED  BY <1>1, LeastOf
<1>3. PICK i \in S : t = m - i
  OBVIOUS
<1>4. \A j \in S : m - i <= m - j
  BY <1>2, <1>3
<1> QED  BY <1>4

LEMMA FinishRollbackLawful ==
  ASSUME IInv, OrderInv, FinishRollback
  PROVE  OrderInv' /\ \A x \in Ids, v \in {version} : Lawful(x, v)
<1>1. pc = "drive" /\ copy.status = "COMPENSATING" /\ NothingToUndo(copy)
  BY DEF FinishRollback, Drives
<1> DEFINE s == IF At(copy, {"COMPENSATION_FAILED"}) # {}
                THEN "COMPENSATION_FAILED" ELSE "COMPENSATED"
           r == MoveStatus(copy, s)
<1>2. r \in Records /\ r.status = s /\ r.steps = copy.steps /\ Save(r, "drive")
  BY <1>1, AtWork, StatusUpdate DEF Status, FinishRollback
<1> HIDE DEF r
<1>3. DOMAIN copy.steps = 1..Len(copy.steps) /\ Len(copy.steps) \in Nat
  BY <1>1, AtWork
<1>4. \A i \in Compensable \cap DOMAIN copy.steps :
        copy.steps[i] \notin {"SUCCEEDED", "COMPENSATING"}
  <2> DEFINE left == {j \in At(copy, {"SUCCEEDED", "COMPENSATING"}) :
                        j \in Compensable \/ j > Definitions[version][at]}
  <2> SUFFICES ASSUME left # {}
               PROVE  FALSE
    BY DEF At
  <2>1. left \subseteq 1..Len(copy.steps)
    BY <1>3 DEF At
  <2>2. PICK i \in left : \A j \in left : j <= i
    <3> HIDE DEF left
    <3> QED  BY <1>3, <2>1, GreatestOf
  <2> QED  BY <1>1, <1>3, <2>1, <2>2 DEF NothingToUndo, IsNextUndo
<1>5. OrderInv'
  BY <1>1, <1>2, SaveKeepsOrder DEF Ordered
<1>6. ASSUME NEW x \in Ids, NEW v \in {version}, rec'[x] # rec[x],
             Definitions[v][x] = Len(rec'[x].steps)
      PROVE  Contract(x, Definitions[v][x])!Next
  <2> DEFINE n == Definitions[v][x]
  <2> SUFFICES Contract(x, n)!Next
    OBVIOUS
  <2>1. rec[x] = copy /\ rec'[x] = r
    BY <1>1, <1>2, <1>6, SaveEffect
  <2>2. n = Len(copy.steps)
    BY <1>2, <1>6, <2>1
  <2> HIDE DEF n
  <2>3. s = IF \E i \in 1..n : copy.steps[i] = "COMPENSATION_FAILED"
            THEN "COMPENSATION_FAILED" ELSE "COMPENSATED"
    BY <1>3, <2>2 DEF At
  <2>4. Contract(x, n)!Settle
    BY <1>1, <1>2, <1>3, <1>4, <2>1, <2>2, <2>3
       DEF Contract!Settle, Contract!Become, Contract!Steps, Contract!Succeeded
  <2> QED  BY <2>4 DEF Contract!Next
<1> QED  BY <1>5, <1>6 DEF Lawful

\* The rest leaves the records alone.
LEMMA OthersLawful ==
  ASSUME OrderInv, rec' = rec,
         pc' = "act" => (pc = "act" /\ copy' = copy) \/ AtFrontier(copy')
  PROVE  OrderInv' /\ \A x \in Ids, v \in {version} : Lawful(x, v)
BY DEF OrderInv, Lawful, Ordered, AtFrontier, IsFrontier

LEMMA NextLawful ==
  ASSUME IInv, OrderInv, [Next]_vars
  PROVE  OrderInv' /\ \A x \in Ids, v \in {version} : Lawful(x, v)
<1>1. ASSUME NEW i \in 1..(Len(copy.steps) + 1), StartAgain(i)
      PROVE  OrderInv' /\ \A x \in Ids, v \in {version} : Lawful(x, v)
  <2>1. i \in DOMAIN copy.steps /\ copy.steps[i] = "RUNNING" /\ IsFrontier(copy, i)
        /\ copy' = copy /\ rec' = rec
    BY <1>1 DEF StartAgain, Comes, At, hand
  <2>2. AtFrontier(copy')
    BY <2>1 DEF AtFrontier
  <2> QED  BY <2>1, <2>2, OthersLawful
<1>2. CASE Engine /\ ~\E i \in 1..(Len(copy.steps) + 1) : StartAgain(i)
  <2>1. CASE Acquire \/ ReportLocked \/ AcquireFails \/ Settled \/ Panic
    BY <2>1, OthersLawful
       DEF Acquire, ReportLocked, AcquireFails, Settled, Panic, Finish, Restart,
           ComeToRest
  <2> QED
    BY <1>2, <2>1, BeginRunLawful, CompleteLawful, FinishRollbackLawful,
       StartLawful, ActLawful, AbortLawful, UndoLawful DEF Engine
<1>3. CASE Recover \/ Sweep \/ Crash
  BY <1>3, OthersLawful
     DEF Recover, Sweep, Crash, Return, ReportUnregistered, Skip, Resume, Restart,
         ComeToRest
<1>4. CASE UNCHANGED vars \/ Cancel \/ Timeout \/ \E x \in Ids : Lapse(x)
  <2>1. UNCHANGED <<rec, pc, copy>>
    BY <1>4 DEF vars, Cancel, Timeout, Lapse, hand
  <2> QED  BY <2>1, OthersLawful
<1> QED  BY <1>1, <1>2, <1>3, <1>4 DEF Next, Engine

\* Every change of a record is a step of the contract of its saga, as long as
\* the definition is as long as the record.
THEOREM ContractsAreKept == Spec => KeepsContracts
<1>1. Init => OrderInv
  <2> SUFFICES ASSUME Init, NEW x \in Ids PROVE Ordered(rec[x])
    BY DEF OrderInv, Init
  <2>1. PICK m \in Lengths : rec[x] = Fresh(m)
    BY DEF Init
  <2> QED  BY <2>1 DEF Ordered, Fresh
<1>2. IInv /\ OrderInv /\ [Next]_vars => OrderInv'
  BY NextLawful
<1>3. IInv /\ OrderInv /\ [Next]_vars =>
        [\A x \in Ids, v \in {version} : Lawful(x, v)]_vars
  BY NextLawful
<1> QED  BY <1>1, <1>2, <1>3, Always, PTL DEF Spec, KeepsContracts, Lawful

===============================================================================
