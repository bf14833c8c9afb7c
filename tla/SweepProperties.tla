---------------------------- MODULE SweepProperties ---------------------------
(***************************************************************************)
(* What a process may expect of its sweeps.                                *)
(***************************************************************************)
EXTENDS RecoverySweep

Answered == {answers[n].id : n \in 1..Len(answers)}

InHand == {at} \ {None}

\* Recover answers for every execution it listed, once each and in the order of
\* their creation: at any moment those it has answered for, the one in hand and
\* those to come are the ones it listed (recovery.go:112-122).
AnswersInOrder ==
  DOMAIN listed # {} =>
    /\ Answered \cup InHand \cup todo = DOMAIN listed
    /\ \A m, n \in 1..Len(answers) :
         m < n => Before(answers[m].id, answers[n].id)
    /\ \A x \in Answered, y \in InHand \cup todo : Before(x, y)
    /\ \A x \in InHand, y \in todo : Before(x, y)

RolledBack(r) ==
  r.status \in {"FAILED", "COMPENSATING", "COMPENSATED", "COMPENSATION_FAILED"}

\* An execution is only given up because a step of it failed, in this process
\* or in one before, or because it was in hand or still to be reached when a
\* context ended: a cancelled sweep gives up what it has not come to, a saga that
\* timed out only itself (recovery.go:138-151, execute.go:161-166).
RollbackHasCause ==
  [][\A x \in Ids :
       RolledBack(rec'[x]) /\ ~RolledBack(rec[x]) =>
         At(rec[x], {"FAILED"}) # {} \/ x \in cut]_vars

\* A COMPLETED saga has run all the steps of some version's definition; only
\* if that is shorter than the record can a step be left over, never run or of
\* unknown outcome (execute.go:202-254).
CompletedMeans ==
  \A x \in Ids : rec[x].status = "COMPLETED" =>
    \E v \in Versions :
      /\ Definitions[v][x] # Unregistered
      /\ \A i \in DOMAIN rec[x].steps :
           \/ rec[x].steps[i] = "SUCCEEDED"
           \/ /\ i > Definitions[v][x]
              /\ rec[x].steps[i] \in {"PENDING", "RUNNING"}

\* The definition of x's saga has the same length in every version that has it.
Constant(x) ==
  \A u, v \in Versions :
    Definitions[u][x] = Definitions[v][x]
      \/ Unregistered \in {Definitions[u][x], Definitions[v][x]}

\* The engine indexes a step that is not there only for an execution whose
\* definition has changed its length: no crash, error or cancellation leaves a
\* record that its own definition could not take up (execute.go:213-222, 499-504).
PanicsByDrift == OutOfRange => ~Constant(at)

\* While the definition is as long as the record, an execution goes through the
\* contract that the engine keeps for a single one: through sweeps that stop,
\* panic and start again, and whatever a version with a definition of another
\* length did to the record before (execute.go:156-254, 415-437).
Contract(x, n) ==
  INSTANCE SagaContract
    WITH NSteps <- n,
         Compensable <- Compensable \cap (1..n),
         status <- rec[x].status,
         steps <- rec[x].steps
KeepsContracts ==
  [][\A x \in Ids, v \in {version} :
       rec'[x] # rec[x] /\ Definitions[v][x] = Len(rec'[x].steps) =>
         Contract(x, Definitions[v][x])!Next]_vars

\* A panic in x takes the process down before it comes to what is behind x.
Deadly(x) == x \in Poison \/ ~Constant(x)

\* Every version has x's saga, and nothing deadly is sorted before x.
Reachable(x) ==
  /\ ~Deadly(x)
  /\ \A v \in Versions : Definitions[v][x] # Unregistered
  /\ \A y \in Ids : Deadly(y) => Before(x, y)

\* Repeated sweeps bring every execution to an end that has no deadly one
\* before it, whatever else fails, is locked or is not registered; but one that
\* a cautious version finds in flight may stay (recovery.go:109-122).
EventuallyReached ==
  \A x \in {y \in Ids : Reachable(y)} :
    IsIncomplete(rec[x]) ~>
      \/ IsTerminal(rec[x].status)
      \/ version \in Cautious /\ InFlight(rec[x])

===============================================================================
