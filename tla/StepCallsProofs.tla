---------------------------- MODULE StepCallsProofs ---------------------------
(***************************************************************************)
(* For every definition, policy and timeout, and for any number of         *)
(* crashes: what StepProperties says of the calls to the gateway, of the   *)
(* deadlines, the delays and the lease.  The delays are recursive          *)
(* functions, of which the first part shows that they are what their       *)
(* definitions say, by induction over sets of numbers.                     *)
(***************************************************************************)
EXTENDS StepProperties, SequenceTheorems, WellFoundedInduction, TLAPS

InStep == {"attempt", "acting", "waiting"}

DefinitionInv ==
  /\ defn \in Seq(StepDefinitions)
  /\ Len(defn) \in 0..MaxSteps
  /\ \A i, j \in Steps : defn[i].name = defn[j].name => i = j

PhaseInv ==
  /\ pc = "build" => status = "PENDING" /\ steps = <<>>
  /\ pc # "build" => steps \in [Steps -> StepStatus]
  /\ pc \in InStep => status = "RUNNING" /\ at \in Steps /\ steps[at] = "RUNNING"
  /\ pc = "undoing" =>
       status = "COMPENSATING" /\ at \in Steps /\ steps[at] = "COMPENSATING"

TimeInv ==
  /\ cause \in {"live", "cancelled", "sagaTimeout"}
  /\ stepCause \in {"live", "outer", "stepTimeout"}
  /\ clock \in Nat
  /\ stepCause = "outer" => cause # "live"
  /\ pc = "acting" /\ stepCause = "live" =>
       defn[at].timeout = 0 \/ clock <= defn[at].timeout

ShapeInv == DefinitionInv /\ PhaseInv /\ TimeInv

Carried(op) == carried[op] = 1

GatewayInv ==
  /\ carried \in [Operations -> {0, 1}]
  /\ pc = "build" => charged = {}
  /\ \A op \in Operations :
       Carried(op) => op[1] \in Steps /\ Key(op) \in charged
  /\ \A k \in charged : \E op \in Operations : Carried(op) /\ Key(op) = k
  /\ \A p, q \in Operations :
       Carried(p) /\ Carried(q) /\ Key(p) = Key(q) => p = q
  /\ \A op \in Operations :
       Carried(op) /\ op[2] = "undo" => status \in {"COMPENSATING", "DONE"}

Succeeded ==
  {"SUCCEEDED", "COMPENSATING", "COMPENSATED", "COMPENSATION_FAILED"}

DoneInv ==
  \A i \in DOMAIN steps :
    /\ steps[i] \in Succeeded => Carried(<<i, "do">>)
    /\ steps[i] = "COMPENSATED" => Key(<<i, "undo">>) \in charged

\* The attempts of the step in hand that are behind the call, and its place.
AttemptInv ==
  LET most == MaxAttempts(PolicyOf(at)) IN
  /\ at \in 0..Len(defn)
  /\ attempt \in Nat
  /\ pc \notin InStep => attempt = 0
  /\ pc = "attempt" => attempt < most
  /\ pc = "acting" => attempt \in 1..most
  /\ pc = "waiting" => attempt \in 1..(most - 1)

\* The wait in hand is one of the policy's.
WaitInv ==
  /\ delay \in Durations
  /\ pc = "waiting" =>
       /\ delay \in Delays(PolicyOf(at), attempt + 1)
       /\ clock = 0 \/ clock <= delay

\* The time since the attempt before is that of the policy, unless it overflows.
Rested ==
  LET p == PolicyOf(at)
      ideal == IdealBackoff(p, attempt + 1)
  IN \/ Overflows(p, attempt + 1)
     \/ ideal * (100 + p.jitter) > 100 * Longest
     \/ clock >= (ideal * (100 - p.jitter)) \div 100

RestInv == pc = "attempt" /\ attempt > 0 => Rested

\* The age of the lease is made of attempts and of waits.
LeaseInv ==
  LET spent(n) == n * ActionTime
      waited(n) == Waits(PolicyOf(at))[n]
  IN /\ pc \in {"acting", "undoing"} => clock <= ActionTime
     /\ pc \in {"build", "next"} => leaseAge = 0
     /\ pc = "attempt" => leaseAge <= spent(attempt) + waited(attempt + 1)
     /\ pc = "acting" => leaseAge <= spent(attempt - 1) + waited(attempt) + clock
     /\ pc = "waiting" => leaseAge <= spent(attempt) + waited(attempt) + clock
     /\ pc = "undoing" => leaseAge <= clock

-------------------------------------------------------------------------------
(***************************************************************************)
(* Induction and recursion on the numbers.                                 *)
(***************************************************************************)
\* A set of numbers has a least one.
LEMMA LeastOf ==
  ASSUME NEW S, S # {}, S \subseteq Nat
  PROVE  \E i \in S : \A j \in S : i <= j
<1> DEFINE Less == OpToRel(<, Nat)
<1>1. IsWellFoundedOn(Less, Nat)
  BY NatLessThanWellFounded, Zenon
<1>2. \A j, i \in Nat : j < i => <<j, i>> \in Less
  BY Zenon DEF OpToRel
<1> HIDE DEF Less
<1>3. \E i \in S : \A j \in S : ~(<<j, i>> \in Less)
  BY <1>1, WFMin, Zenon
<1>4. PICK i \in S : \A j \in S : ~(<<j, i>> \in Less)
  BY <1>3, Zenon
<1>5. \A j \in S : i \in Nat /\ j \in Nat
  OBVIOUS
<1>6. \A j \in S : ~(j < i)
  BY <1>2, <1>4, <1>5, Zenon
<1>7. \A j \in S : i <= j
  BY <1>5, <1>6
<1> QED  BY <1>7

\* A set with 0, and with every successor of its numbers, has all numbers.
LEMMA Induction ==
  ASSUME NEW S, 0 \in S, \A n \in Nat : n \in S => n + 1 \in S
  PROVE  Nat \subseteq S
<1> SUFFICES ASSUME Nat \ S # {}
             PROVE  FALSE
  OBVIOUS
<1>1. PICK n \in Nat \ S : \A j \in Nat \ S : n <= j
  <2>1. Nat \ S \subseteq Nat
    OBVIOUS
  <2> QED  BY <2>1, LeastOf
<1>2. n # 0 /\ n - 1 \in Nat
  BY <1>1
<1>3. n - 1 \in S
  BY <1>1, <1>2
<1>4. n = (n - 1) + 1
  BY <1>2
<1> QED  BY <1>1, <1>2, <1>3, <1>4

\* f goes on by g, as far as n.
Follows(f, g, n) == \A j \in 1..n : f[j] = g[j][f[j - 1]]

Agree(e, f, n) == \A j \in 0..n : e[j] = f[j]

\* Two functions on the numbers that start alike and go on alike are the same
\* as far as they go.
LEMMA SameCourse ==
  ASSUME NEW g, NEW m \in Nat, NEW n \in Nat, m <= n, NEW e, NEW f,
         e[0] = f[0], Follows(e, g, m), Follows(f, g, n)
  PROVE  Agree(e, f, m)
<1> DEFINE S == {j \in Nat : j <= m => e[j] = f[j]}
<1>1. 0 \in S
  OBVIOUS
<1>2. ASSUME NEW j \in Nat, j \in S
      PROVE  j + 1 \in S
  <2>1. CASE j + 1 <= m
    <3>1. j + 1 \in 1..m /\ j + 1 \in 1..n /\ (j + 1) - 1 = j /\ e[j] = f[j]
      BY <1>2, <2>1
    <3>2. e[j + 1] = g[j + 1][e[j]] /\ f[j + 1] = g[j + 1][f[j]]
      BY <3>1 DEF Follows
    <3> QED  BY <3>1, <3>2
  <2> QED  BY <2>1
<1> HIDE DEF S
<1>3. Nat \subseteq S
  BY <1>1, <1>2, Induction
<1> QED  BY <1>3 DEF S, Agree

\* A course of values starts at a and goes on by g, as far as n.
CourseTo(S, a, g, n) ==
  {f \in [0..n -> S] : f[0] = a /\ Follows(f, g, n)}

LEMMA CoursesExist ==
  ASSUME NEW S, NEW a \in S, NEW g \in [Nat -> [S -> S]]
  PROVE  \A n \in Nat : CourseTo(S, a, g, n) # {}
<1> DEFINE T == {n \in Nat : CourseTo(S, a, g, n) # {}}
<1>1. 0 \in T
  <2>1. [j \in 0..0 |-> a] \in CourseTo(S, a, g, 0)
    BY DEF CourseTo, Follows
  <2> QED  BY <2>1
<1>2. ASSUME NEW n \in Nat, n \in T
      PROVE  n + 1 \in T
  <2>1. PICK f \in [0..n -> S] : f[0] = a /\ Follows(f, g, n)
    BY <1>2 DEF CourseTo
  <2> DEFINE e == [j \in 0..(n + 1) |-> IF j = n + 1 THEN g[n + 1][f[n]] ELSE f[j]]
  <2>2. g[n + 1][f[n]] \in S
    BY <2>1
  <2>3. e \in [0..(n + 1) -> S]
    BY <2>1, <2>2
  <2>4. e[0] = a
    BY <2>1
  <2>5. ASSUME NEW j \in 1..(n + 1)
        PROVE  e[j] = g[j][e[j - 1]]
    <3>1. j - 1 \in 0..n /\ e[j - 1] = f[j - 1]
      OBVIOUS
    <3>2. CASE j = n + 1
      <4>1. e[j] = g[j][f[j - 1]]
        BY <3>2
      <4> QED  BY <3>1, <4>1
    <3>3. CASE j \in 1..n
      <4>1. e[j] = f[j] /\ f[j] = g[j][f[j - 1]]
        BY <2>1, <3>3 DEF Follows
      <4> QED  BY <3>1, <4>1
    <3> QED  BY <3>2, <3>3
  <2> HIDE DEF e
  <2>6. e \in CourseTo(S, a, g, n + 1)
    BY <2>3, <2>4, <2>5 DEF CourseTo, Follows
  <2> QED  BY <2>6
<1> HIDE DEF T
<1>3. Nat \subseteq T
  BY <1>1, <1>2, Induction
<1> QED  BY <1>3 DEF T

\* One that does not end.
Course(S, a, g, f) ==
  f \in [Nat -> S] /\ f[0] = a /\ \A j \in Nat \ {0} : f[j] = g[j][f[j - 1]]

LEMMA CourseExists ==
  ASSUME NEW S, NEW a \in S, NEW g \in [Nat -> [S -> S]]
  PROVE  \E f : Course(S, a, g, f)
<1> DEFINE c == [n \in Nat |-> CHOOSE f : f \in CourseTo(S, a, g, n)]
           f == [n \in Nat |-> c[n][n]]
<1>1. ASSUME NEW n \in Nat
      PROVE  c[n] \in [0..n -> S] /\ c[n][0] = a /\ Follows(c[n], g, n)
  <2>1. CourseTo(S, a, g, n) # {}
    BY CoursesExist
  <2>2. c[n] \in CourseTo(S, a, g, n)
    BY <2>1
  <2> QED  BY <2>2 DEF CourseTo
<1> HIDE DEF c
<1>2. f \in [Nat -> S]
  BY <1>1
<1>3. f[0] = a
  BY <1>1
<1>4. ASSUME NEW j \in Nat \ {0}
      PROVE  f[j] = g[j][f[j - 1]]
  <2>1. j - 1 \in Nat /\ j \in Nat /\ j - 1 <= j
    OBVIOUS
  <2>2. /\ c[j - 1][0] = c[j][0]
        /\ Follows(c[j - 1], g, j - 1)
        /\ Follows(c[j], g, j)
    BY <1>1, <2>1
  <2>3. Agree(c[j - 1], c[j], j - 1)
    BY <2>1, <2>2, SameCourse, Zenon
  <2>4. c[j - 1][j - 1] = c[j][j - 1] /\ c[j][j] = g[j][c[j][j - 1]]
    BY <2>1, <2>2, <2>3 DEF Follows, Agree
  <2> QED  BY <2>1, <2>4
<1> HIDE DEF f
<1> QED  BY <1>2, <1>3, <1>4 DEF Course

-------------------------------------------------------------------------------
(***************************************************************************)
(* The delays.                                                             *)
(***************************************************************************)
\* The powers of two satisfy their definition.
LEMMA PowersOfTwo ==
  /\ TwoTo \in [Nat -> Nat \ {0}]
  /\ TwoTo[0] = 1
  /\ \A n \in Nat \ {0} : TwoTo[n] = 2 * TwoTo[n - 1]
<1> DEFINE g == [j \in Nat |-> [x \in Nat \ {0} |-> 2 * x]]
           Is(f) == f = [n \in Nat |-> IF n = 0 THEN 1 ELSE 2 * f[n - 1]]
<1>1. g \in [Nat -> [Nat \ {0} -> Nat \ {0}]]
  OBVIOUS
<1> HIDE DEF g
<1>2. PICK f : Course(Nat \ {0}, 1, g, f)
  <2>1. 1 \in Nat \ {0}
    OBVIOUS
  <2> QED  BY <1>1, <2>1, CourseExists, Zenon
<1>3. ASSUME NEW j \in Nat \ {0}
      PROVE  f[j] = 2 * f[j - 1]
  <2>1. j - 1 \in Nat /\ f[j - 1] \in Nat \ {0} /\ f[j] = g[j][f[j - 1]]
    BY <1>2 DEF Course
  <2> QED  BY <2>1 DEF g
<1>4. Is(f)
  BY <1>2, <1>3 DEF Course
<1>5. TwoTo = CHOOSE h : Is(h)
  BY DEF TwoTo
<1>6. Is(TwoTo)
  BY <1>4, <1>5
<1>7. /\ TwoTo[0] = 1
      /\ \A n \in Nat \ {0} : TwoTo[n] = 2 * TwoTo[n - 1]
  BY <1>6
<1>8. \A n \in Nat : TwoTo[n] \in Nat \ {0}
  <2> DEFINE S == {n \in Nat : TwoTo[n] \in Nat \ {0}}
  <2>1. 0 \in S
    BY <1>7
  <2>2. ASSUME NEW n \in Nat, n \in S
        PROVE  n + 1 \in S
    <3>1. TwoTo[n + 1] = 2 * TwoTo[n]
      BY <1>7
    <3> QED  BY <2>2, <3>1
  <2> HIDE DEF S
  <2>3. Nat \subseteq S
    BY <2>1, <2>2, Induction
  <2> QED  BY <2>3 DEF S
<1> QED  BY <1>6, <1>7, <1>8

\* The range of the durations.
LEMMA Bounds ==
  /\ Shortest \in Int /\ Longest \in Int
  /\ Shortest <= -1 /\ Longest = -Shortest - 1
  /\ TwoTo[Width] = -2 * Shortest
<1>1. Width \in Nat \ {0} /\ Width - 1 \in Nat
  BY WidthAssumption
<1>2. TwoTo[Width - 1] \in Nat \ {0} /\ TwoTo[Width] = 2 * TwoTo[Width - 1]
  BY <1>1, PowersOfTwo
<1> QED  BY <1>2 DEF Shortest, Longest

\* Quotient and remainder.
LEMMA Division ==
  ASSUME NEW y \in Int, NEW m \in Nat \ {0}
  PROVE  y \div m \in Int /\ y % m \in 0..(m - 1) /\ y = m * (y \div m) + (y % m)
OBVIOUS

\* A number that is a duration stays as it is, and one that is too large for
\* one by less than half wraps to a negative duration.
LEMMA Wrapped ==
  ASSUME NEW x \in Int
  PROVE  /\ Wrap(x) \in Durations
         /\ x \in Durations => Wrap(x) = x
         /\ x > Longest /\ x <= 2 * Longest => Wrap(x) < 0
<1> DEFINE h == -Shortest
           y == x - Shortest
           q == y \div (2 * h)
           r == y % (2 * h)
<1>1. h \in Nat \ {0} /\ 2 * h \in Nat \ {0} /\ y \in Int /\ Longest = h - 1
      /\ TwoTo[Width] = 2 * h
  BY Bounds
<1>2. Wrap(x) = r - h
  BY <1>1, Bounds DEF Wrap
<1> HIDE DEF h, y
<1>3. q \in Int /\ r \in 0..(2 * h - 1) /\ y = (2 * h) * q + r
  BY <1>1, Division, Zenon
<1> HIDE DEF q, r
<1>4. Durations = (-h)..(h - 1) /\ x = y - h
  BY Bounds DEF Durations, h, y
<1>5. (2 * h) * q = 2 * (h * q) /\ h * q \in Int
  BY <1>1, <1>3
<1>6. q >= 1 => h * q >= h
  BY <1>1, <1>3
<1>7. q <= -1 => h * q <= -h
  BY <1>1, <1>3
<1>8. q >= 2 => h * q >= 2 * h
  BY <1>1, <1>3
<1>9. q = 0 => h * q = 0
  BY <1>1
<1>10. q = 1 => h * q = h
  BY <1>1
<1>11. y \in 0..(2 * h - 1) => q = 0
  BY <1>1, <1>3, <1>5, <1>6, <1>7
<1>12. y >= 2 * h /\ y < 3 * h => q = 1
  BY <1>1, <1>3, <1>5, <1>7, <1>8, <1>9
<1> QED  BY <1>1, <1>2, <1>3, <1>4, <1>5, <1>9, <1>10, <1>11, <1>12

\* The rounds of the loop satisfy their definition.
LEMMA RoundsOf ==
  ASSUME NEW p, p.base \in Durations, p.cap \in Durations
  PROVE  /\ Rounds(p) \in [Nat -> Durations]
         /\ Rounds(p)[0] = p.base
         /\ \A j \in Nat \ {0} :
              Rounds(p)[j] = IF Rounds(p)[j - 1] >= p.cap THEN p.cap
                             ELSE Wrap(2 * Rounds(p)[j - 1])
<1> DEFINE After(x) == IF x >= p.cap THEN p.cap ELSE Wrap(2 * x)
           g == [j \in Nat |-> [x \in Durations |-> After(x)]]
           Is(f) == f = [j \in Nat |-> IF j = 0 THEN p.base ELSE After(f[j - 1])]
<1>1. g \in [Nat -> [Durations -> Durations]]
  <2>1. ASSUME NEW x \in Durations
        PROVE  After(x) \in Durations
    <3>1. 2 * x \in Int
      BY Bounds DEF Durations
    <3> QED  BY <3>1, Wrapped
  <2> HIDE DEF After
  <2> QED  BY <2>1
<1> HIDE DEF g, After
<1>2. PICK f : Course(Durations, p.base, g, f)
  BY <1>1, CourseExists, Zenon
<1>3. ASSUME NEW j \in Nat \ {0}
      PROVE  f[j] = After(f[j - 1])
  <2>1. j - 1 \in Nat /\ f[j - 1] \in Durations /\ f[j] = g[j][f[j - 1]]
    BY <1>2 DEF Course
  <2> QED  BY <2>1 DEF g
<1>4. Is(f)
  BY <1>2, <1>3 DEF Course
<1>5. Rounds(p) = CHOOSE h : Is(h)
  BY DEF Rounds, After
<1>6. Is(Rounds(p))
  BY <1>4, <1>5
<1>7. /\ Rounds(p)[0] = p.base
      /\ \A j \in Nat \ {0} : Rounds(p)[j] = After(Rounds(p)[j - 1])
  BY <1>6
<1>8. \A j \in Nat : Rounds(p)[j] \in Durations
  <2> DEFINE S == {j \in Nat : Rounds(p)[j] \in Durations}
  <2>1. 0 \in S
    BY <1>7
  <2>2. ASSUME NEW n \in Nat, n \in S
        PROVE  n + 1 \in S
    <3>1. Rounds(p)[n + 1] = After(Rounds(p)[n])
      BY <1>7
    <3>2. After(Rounds(p)[n]) = g[n][Rounds(p)[n]]
      BY <2>2 DEF g
    <3>3. Rounds(p)[n + 1] \in Durations
      BY <1>1, <2>2, <3>1, <3>2
    <3> QED  BY <3>3
  <2> HIDE DEF S
  <2>3. Nat \subseteq S
    BY <2>1, <2>2, Induction
  <2> QED  BY <2>3 DEF S
<1> QED  BY <1>6, <1>7, <1>8 DEF After

\* How a doubling grows.
LEMMA Doublings ==
  ASSUME NEW base \in Nat
  PROVE  \A n \in Nat : /\ base * TwoTo[n] \in Nat
                        /\ base * TwoTo[n + 1] = 2 * (base * TwoTo[n])
<1> SUFFICES ASSUME NEW n \in Nat
             PROVE  /\ base * TwoTo[n] \in Nat
                    /\ base * TwoTo[n + 1] = 2 * (base * TwoTo[n])
  OBVIOUS
<1>1. TwoTo[n] \in Nat /\ TwoTo[n + 1] = 2 * TwoTo[n]
  BY PowersOfTwo
<1> QED  BY <1>1

\* Overflows, by the number of doublings.
OverflowsIn(p, n) ==
  \E j \in 1..n : p.base * TwoTo[j - 1] < p.cap /\ p.base * TwoTo[j] > Longest

\* Until a doubling overflows, the loop doubles the base or has come to the cap.
LEMMA ExactRounds ==
  ASSUME NEW p, p.base \in 0..Longest, p.cap \in Durations
  PROVE  \A n \in Nat :
           OverflowsIn(p, n) \/ Rounds(p)[n] = p.base * TwoTo[n]
             \/ (Rounds(p)[n] = p.cap /\ p.base * TwoTo[n] >= p.cap)
<1> DEFINE B(n) == p.base * TwoTo[n]
           Exact(n) == OverflowsIn(p, n) \/ Rounds(p)[n] = B(n)
                         \/ (Rounds(p)[n] = p.cap /\ B(n) >= p.cap)
           S == {n \in Nat : Exact(n)}
<1>1. p.base \in Durations /\ p.base \in Nat /\ p.cap \in Int /\ Longest \in Int
  BY Bounds DEF Durations
<1>2. \A n \in Nat : B(n) \in Nat /\ B(n + 1) = 2 * B(n)
  BY <1>1, Doublings
<1>3. B(0) = p.base
  BY <1>1, PowersOfTwo
<1>4. /\ Rounds(p)[0] = p.base
      /\ \A n \in Nat \ {0} :
           Rounds(p)[n] = IF Rounds(p)[n - 1] >= p.cap THEN p.cap
                          ELSE Wrap(2 * Rounds(p)[n - 1])
  BY <1>1, RoundsOf
<1>5. 0 \in S
  BY <1>3, <1>4
<1>6. ASSUME NEW n \in Nat, n \in S
      PROVE  n + 1 \in S
  <2> SUFFICES ASSUME ~OverflowsIn(p, n + 1)
               PROVE  Exact(n + 1)
    OBVIOUS
  <2>1. ~OverflowsIn(p, n)
    BY DEF OverflowsIn
  <2>2. B(n) >= p.cap \/ B(n + 1) <= Longest
    <3>1. n + 1 \in 1..(n + 1) /\ (n + 1) - 1 = n
      OBVIOUS
    <3>2. ~(B(n) < p.cap /\ B(n + 1) > Longest)
      BY <3>1 DEF OverflowsIn
    <3>3. B(n) \in Int /\ B(n + 1) \in Int
      BY <1>2
    <3> HIDE DEF B
    <3> QED  BY <1>1, <3>2, <3>3
  <2>3. Rounds(p)[n + 1] = IF Rounds(p)[n] >= p.cap THEN p.cap
                           ELSE Wrap(2 * Rounds(p)[n])
    BY <1>4
  <2>4. CASE Rounds(p)[n] = p.cap /\ B(n) >= p.cap
    <3> HIDE DEF B
    <3>1. Rounds(p)[n + 1] = p.cap /\ B(n + 1) >= p.cap
      BY <1>1, <1>2, <2>3, <2>4
    <3> QED  BY <3>1 DEF B
  <2>5. CASE Rounds(p)[n] = B(n) /\ B(n) >= p.cap
    <3> HIDE DEF B
    <3>1. Rounds(p)[n + 1] = p.cap /\ B(n + 1) >= p.cap
      BY <1>1, <1>2, <2>3, <2>5
    <3> QED  BY <3>1 DEF B
  <2>6. CASE Rounds(p)[n] = B(n) /\ ~(B(n) >= p.cap)
    <3> HIDE DEF B
    <3>1. Rounds(p)[n + 1] = Wrap(B(n + 1))
      BY <1>2, <2>3, <2>6
    <3>2. B(n + 1) \in Durations
      BY <1>2, <2>2, <2>6, Bounds DEF Durations
    <3>3. Rounds(p)[n + 1] = B(n + 1)
      BY <1>2, <3>1, <3>2, Wrapped
    <3> QED  BY <3>3 DEF B
  <2>7. Rounds(p)[n] = B(n) \/ (Rounds(p)[n] = p.cap /\ B(n) >= p.cap)
    BY <1>6, <2>1
  <2> QED  BY <2>4, <2>5, <2>6, <2>7
<1> HIDE DEF S
<1>7. Nat \subseteq S
  BY <1>5, <1>6, Induction
<1> QED  BY <1>7 DEF S

\* Once a doubling has overflown, the doublings stay beyond the longest duration.
LEMMA BeyondLongest ==
  ASSUME NEW p, p.base \in 0..Longest
  PROVE  \A n \in Nat : OverflowsIn(p, n) => p.base * TwoTo[n] > Longest
<1> DEFINE B(n) == p.base * TwoTo[n]
           S == {n \in Nat : OverflowsIn(p, n) => B(n) > Longest}
<1>1. p.base \in Nat /\ Longest \in Int
  BY Bounds
<1>2. \A n \in Nat : B(n) \in Nat /\ B(n + 1) = 2 * B(n)
  BY <1>1, Doublings
<1>3. 0 \in S
  BY DEF OverflowsIn
<1>4. ASSUME NEW n \in Nat, n \in S
      PROVE  n + 1 \in S
  <2>1. ASSUME OverflowsIn(p, n + 1)
        PROVE  B(n + 1) > Longest
    <3>1. OverflowsIn(p, n) \/ B(n + 1) > Longest
      BY <2>1 DEF OverflowsIn
    <3>2. OverflowsIn(p, n) => B(n) > Longest
      BY <1>4
    <3> HIDE DEF B
    <3> QED  BY <1>1, <1>2, <3>1, <3>2
  <2> QED  BY <2>1
<1> HIDE DEF S
<1>5. Nat \subseteq S
  BY <1>3, <1>4, Induction
<1> QED  BY <1>5 DEF S

\* Backoff gives a duration of at most the cap.
LEMMA BackoffFits ==
  ASSUME NEW p, p.base \in Durations, p.cap \in Durations, NEW k \in Nat, k >= 2
  PROVE  Backoff(p, k) \in Durations /\ Backoff(p, k) <= p.cap
<1>1. Rounds(p)[k - 2] \in Durations
  <2>1. k - 2 \in Nat
    OBVIOUS
  <2> QED  BY <2>1, RoundsOf
<1> QED  BY <1>1, Bounds DEF Backoff, Durations

\* The delay without jitter: exact before the first overflow, and never above
\* what is meant.
LEMMA BackoffMeets ==
  ASSUME NEW p, p.base \in 0..Longest, p.cap \in Durations, NEW k \in Nat, k >= 2
  PROVE  /\ IdealBackoff(p, k) \in Int
         /\ ~Overflows(p, k) => Backoff(p, k) = IdealBackoff(p, k)
         /\ Backoff(p, k) <= IdealBackoff(p, k)
<1> DEFINE n == k - 2
           B(j) == p.base * TwoTo[j]
<1>1. p.base \in Durations /\ p.base \in Nat /\ p.cap \in Int /\ Longest \in Int
      /\ n \in Nat /\ p.cap <= Longest
  BY Bounds DEF Durations
<1>2. /\ IdealBackoff(p, k) = IF B(n) > p.cap THEN p.cap ELSE B(n)
      /\ Backoff(p, k) = IF Rounds(p)[n] > p.cap THEN p.cap ELSE Rounds(p)[n]
  BY DEF IdealBackoff, Backoff
<1>3. Overflows(p, k) <=> OverflowsIn(p, n)
  BY DEF Overflows, OverflowsIn
<1>4. \A j \in Nat : B(j) \in Nat /\ B(j + 1) = 2 * B(j)
  BY <1>1, Doublings
<1>5. Rounds(p)[n] \in Int
  <2>1. Rounds(p)[n] \in Durations
    BY <1>1, RoundsOf
  <2> QED  BY <2>1, Bounds DEF Durations
<1>6. ASSUME ~OverflowsIn(p, n)
      PROVE  Backoff(p, k) = IdealBackoff(p, k)
  <2>1. Rounds(p)[n] = B(n) \/ (Rounds(p)[n] = p.cap /\ B(n) >= p.cap)
    BY <1>1, <1>6, ExactRounds
  <2>2. B(n) \in Int
    BY <1>1, <1>4
  <2> HIDE DEF B, n
  <2> QED  BY <1>1, <1>2, <2>1, <2>2
<1>7. ASSUME OverflowsIn(p, n)
      PROVE  Backoff(p, k) <= IdealBackoff(p, k)
  <2>1. B(n) > Longest
    BY <1>1, <1>7, BeyondLongest
  <2>2. B(n) \in Int
    BY <1>1, <1>4
  <2> HIDE DEF B, n
  <2> QED  BY <1>1, <1>2, <1>5, <2>1, <2>2
<1>8. IdealBackoff(p, k) \in Int
  <2>1. B(n) \in Int
    BY <1>1, <1>4
  <2> HIDE DEF B, n
  <2> QED  BY <1>1, <1>2, <2>1
<1>9. OverflowsIn(p, n) \/ Backoff(p, k) <= IdealBackoff(p, k)
  BY <1>6, <1>8
<1> QED  BY <1>3, <1>6, <1>7, <1>8, <1>9

\* A fraction in hundredths, rounded down, grows with what it is of.
LEMMA Hundredths ==
  ASSUME NEW x \in Int, NEW y \in Int, x <= y
  PROVE  x \div 100 \in Int /\ x \div 100 <= y \div 100 /\ (x >= 0 => x \div 100 >= 0)
         /\ (x >= 0 => x \div 100 <= x)
OBVIOUS

\* The longest wait is a number.
LEMMA LongestWaitIs ==
  ASSUME NEW p \in Policies, NEW k \in Nat, k >= 2
  PROVE  LongestWait(p, k) \in Nat
<1> DEFINE ideal == IF p.base < 0 THEN p.cap ELSE IdealBackoff(p, k)
<1>1. p.base \in Durations /\ p.cap \in Durations /\ p.jitter \in 0..100
  BY DEF Policies
<1>2. ideal \in Int
  <2>1. p.base < 0 \/ p.base \in 0..Longest
    BY <1>1, Bounds DEF Durations
  <2>2. p.cap \in Int
    BY <1>1, Bounds DEF Durations
  <2> QED  BY <1>1, <2>1, <2>2, BackoffMeets
<1>3. LongestWait(p, k) = IF ideal <= 0 THEN 0
                          ELSE (ideal * (100 + p.jitter)) \div 100
  BY DEF LongestWait
<1> HIDE DEF ideal
<1>4. ideal > 0 => ideal * (100 + p.jitter) \in Nat
  BY <1>1, <1>2
<1> QED  BY <1>2, <1>3, <1>4

\* A delay is a duration, and no longer than the longest wait.
LEMMA DelaysFit ==
  ASSUME NEW p \in Policies, NEW k \in Nat, k >= 2, NEW x \in Delays(p, k)
  PROVE  x \in Durations /\ x <= LongestWait(p, k)
<1> DEFINE ideal == IF p.base < 0 THEN p.cap ELSE IdealBackoff(p, k)
           whole == Backoff(p, k)
           least == (whole * (100 - p.jitter)) \div 100
           most == (whole * (100 + p.jitter)) \div 100
<1>1. p.base \in Durations /\ p.cap \in Durations /\ p.jitter \in 0..100
  BY DEF Policies
<1>2. whole \in Durations /\ whole <= ideal /\ ideal \in Int
  <2>1. p.base < 0 \/ p.base \in 0..Longest
    BY <1>1, Bounds DEF Durations
  <2>2. p.cap \in Int
    BY <1>1, Bounds DEF Durations
  <2> QED  BY <1>1, <2>1, <2>2, BackoffMeets, BackoffFits
<1>3. LongestWait(p, k) = IF ideal <= 0 THEN 0
                          ELSE (ideal * (100 + p.jitter)) \div 100
  BY DEF LongestWait
<1>4. LongestWait(p, k) \in Nat
  BY LongestWaitIs
<1>5. whole \in Int
  BY <1>2, Bounds DEF Durations
<1>6. \/ whole <= 0 /\ x = whole
      \/ whole > 0 /\ x \in least..most /\ x <= Longest
      \/ whole > 0 /\ most > Longest /\ x \in {Shortest, Longest}
  BY <1>5 DEF Delays
<1> HIDE DEF ideal, whole
<1>7. CASE whole <= 0 /\ x = whole
  BY <1>2, <1>4, <1>5, <1>7
<1>8. CASE whole > 0
  <2>1. /\ whole * (100 - p.jitter) \in Nat
        /\ whole * (100 + p.jitter) \in Nat
        /\ whole * (100 + p.jitter) <= ideal * (100 + p.jitter)
        /\ ideal * (100 + p.jitter) \in Int
    <3>1. 100 - p.jitter \in Nat /\ 100 + p.jitter \in Nat
      BY <1>1
    <3> QED  BY <1>2, <1>5, <1>8, <3>1
  <2>2. least \in Nat /\ most \in Nat
    BY <2>1
  <2>3. most <= LongestWait(p, k)
    BY <1>2, <1>3, <1>5, <1>8, <2>1, Hundredths
  <2> HIDE DEF least, most
  <2>4. x \in Int /\ Shortest <= x /\ x <= Longest /\ (x <= most \/ x <= 0)
    <3>1. CASE x \in least..most /\ x <= Longest
      BY <2>2, <3>1, Bounds
    <3>2. CASE most > Longest /\ x = Longest
      BY <2>2, <3>2, Bounds
    <3>3. CASE x = Shortest
      BY <3>3, Bounds
    <3>4. ~(whole <= 0)
      BY <1>5, <1>8
    <3> QED  BY <1>6, <3>1, <3>2, <3>3, <3>4
  <2> QED  BY <1>4, <2>2, <2>3, <2>4, Bounds DEF Durations
<1> QED  BY <1>5, <1>6, <1>7, <1>8

\* A delay is as long as the policy says, less the jitter, unless it overflows.
LEMMA DelaysLast ==
  ASSUME NEW p \in Policies, NEW k \in Nat, k >= 2, NEW x \in Delays(p, k),
         ~Overflows(p, k), IdealBackoff(p, k) * (100 + p.jitter) <= 100 * Longest,
         p.base >= 0
  PROVE  IdealBackoff(p, k) <= 0 \/ (IdealBackoff(p, k) * (100 - p.jitter)) \div 100 <= x
<1> DEFINE whole == IdealBackoff(p, k)
           least == (whole * (100 - p.jitter)) \div 100
           most == (whole * (100 + p.jitter)) \div 100
<1>1. p.base \in 0..Longest /\ p.cap \in Durations /\ p.jitter \in 0..100
  BY Bounds DEF Policies, Durations
<1>2. whole \in Int /\ Backoff(p, k) = whole
  BY <1>1, BackoffMeets
<1>3. \/ whole <= 0
      \/ x \in least..most
      \/ most > Longest
  BY <1>2 DEF Delays
<1>4. most <= Longest
  <2>1. whole * (100 + p.jitter) \in Int
    BY <1>1, <1>2
  <2>2. (100 * Longest) \div 100 = Longest
    BY Bounds
  <2> QED  BY <2>1, <2>2, Bounds, Hundredths
<1>5. least \in Int /\ most \in Int
  BY <1>1, <1>2
<1> HIDE DEF least, most, whole
<1>6. whole <= 0 \/ least <= x
  BY <1>3, <1>4, <1>5, Bounds
<1> QED  BY <1>6 DEF whole, least

\* The sums of the waits satisfy their definition, and grow.
LEMMA WaitsAre ==
  ASSUME NEW p \in Policies
  PROVE  /\ Waits(p) \in [Nat -> Nat]
         /\ Waits(p)[1] = 0
         /\ \A n \in Nat : n >= 2 => Waits(p)[n] = Waits(p)[n - 1] + LongestWait(p, n)
<1> DEFINE After(n, x) == IF n < 2 THEN 0 ELSE x + LongestWait(p, n)
           g == [n \in Nat |-> [x \in Nat |-> After(n, x)]]
           Is(f) == f = [n \in Nat |-> After(n, f[n - 1])]
<1>1. ASSUME NEW n \in Nat, NEW x \in Nat
      PROVE  After(n, x) \in Nat
  BY LongestWaitIs
<1>2. After(0, 0) = 0 /\ After(1, 0) = 0 /\ \A x : After(0, x) = 0 /\ After(1, x) = 0
  OBVIOUS
<1> HIDE DEF After
<1>3. g \in [Nat -> [Nat -> Nat]]
  BY <1>1
<1> HIDE DEF g
<1>4. PICK f : Course(Nat, 0, g, f)
  <2>1. 0 \in Nat
    OBVIOUS
  <2> QED  BY <1>3, <2>1, CourseExists, Zenon
<1>5. ASSUME NEW n \in Nat
      PROVE  f[n] = After(n, f[n - 1])
  <2>1. CASE n = 0
    BY <1>2, <1>4, <2>1 DEF Course
  <2>2. CASE n # 0
    <3>1. n - 1 \in Nat /\ f[n - 1] \in Nat /\ f[n] = g[n][f[n - 1]]
      BY <1>4, <2>2 DEF Course
    <3> QED  BY <3>1 DEF g
  <2> QED  BY <2>1, <2>2
<1>6. Is(f)
  BY <1>4, <1>5 DEF Course
<1>7. Waits(p) = CHOOSE h : Is(h)
  BY DEF Waits, After
<1>8. Is(Waits(p))
  BY <1>6, <1>7
<1>9. \A n \in Nat : Waits(p)[n] = After(n, Waits(p)[n - 1])
  BY <1>8
<1>10. \A n \in Nat : Waits(p)[n] \in Nat
  <2> DEFINE S == {n \in Nat : Waits(p)[n] \in Nat}
  <2>1. 0 \in S
    BY <1>2, <1>9
  <2>2. ASSUME NEW n \in Nat, n \in S
        PROVE  n + 1 \in S
    <3>1. Waits(p)[n + 1] = After(n + 1, Waits(p)[n])
      BY <1>9
    <3>2. n + 1 \in Nat /\ Waits(p)[n] \in Nat
      BY <2>2
    <3>3. After(n + 1, Waits(p)[n]) \in Nat
      BY <1>1, <3>2
    <3> QED  BY <3>1, <3>2, <3>3
  <2> HIDE DEF S
  <2>3. Nat \subseteq S
    BY <2>1, <2>2, Induction
  <2> QED  BY <2>3 DEF S
<1> QED  BY <1>2, <1>8, <1>9, <1>10 DEF After

LEMMA WaitsGrow ==
  ASSUME NEW p \in Policies
  PROVE  \A m \in Nat : \A n \in Nat : 1 <= m /\ m <= n => Waits(p)[m] <= Waits(p)[n]
<1> SUFFICES ASSUME NEW m \in Nat, 1 <= m
             PROVE  \A n \in Nat : m <= n => Waits(p)[m] <= Waits(p)[n]
  OBVIOUS
<1> DEFINE S == {n \in Nat : m <= n => Waits(p)[m] <= Waits(p)[n]}
<1>1. 0 \in S
  OBVIOUS
<1>2. ASSUME NEW n \in Nat, n \in S
      PROVE  n + 1 \in S
  <2>1. CASE m <= n
    <3>1. n + 1 \in Nat /\ n + 1 >= 2 /\ (n + 1) - 1 = n
      BY <2>1
    <3>2. Waits(p)[n + 1] = Waits(p)[n] + LongestWait(p, n + 1)
      BY <3>1, WaitsAre
    <3>3. LongestWait(p, n + 1) \in Nat
      BY <3>1, LongestWaitIs
    <3>4. Waits(p)[m] <= Waits(p)[n] /\ Waits(p)[m] \in Nat /\ Waits(p)[n] \in Nat
      BY <1>2, <2>1, WaitsAre
    <3> QED  BY <3>2, <3>3, <3>4
  <2>2. CASE ~(m <= n)
    <3>1. m = n + 1 \/ ~(m <= n + 1)
      BY <2>2
    <3>2. Waits(p)[m] \in Nat
      BY WaitsAre
    <3> QED  BY <3>1, <3>2
  <2> QED  BY <2>1, <2>2
<1> HIDE DEF S
<1>3. Nat \subseteq S
  BY <1>1, <1>2, Induction
<1> QED  BY <1>3 DEF S

-------------------------------------------------------------------------------
(***************************************************************************)
(* Keys.                                                                   *)
(***************************************************************************)
\* Two names that are the same with a part appended are the same.
LEMMA SameWithoutPart ==
  ASSUME NEW S, NEW x \in Seq(S), NEW y \in Seq(S), NEW c,
         Append(x, c) = Append(y, c)
  PROVE  x = y
<1>1. x \in Seq(S \cup {c}) /\ y \in Seq(S \cup {c}) /\ c \in S \cup {c}
  OBVIOUS
<1> QED  BY <1>1, AppendInjective

\* What the fields of a step are.
LEMMA StepTypes ==
  ASSUME DefinitionInv
  PROVE  \A i \in Steps : defn[i].name \in Seq(STRING) /\ defn[i].timeout \in Nat
<1>1. \A i \in Steps : defn[i] \in StepDefinitions
  BY DEF DefinitionInv, Steps
<1>2. \A s \in StepDefinitions : s.name \in Seq(STRING) /\ s.timeout \in Nat
  BY DEF StepDefinitions
<1> QED  BY <1>1, <1>2

\* An operation and what it is on, by its key.
LEMMA SameKeys ==
  ASSUME DefinitionInv, NEW i \in Steps, NEW j \in Steps
  PROVE  /\ Key(<<i, "do">>) = Key(<<j, "do">>) => i = j
         /\ Key(<<i, "undo">>) = Key(<<j, "undo">>) => i = j
         /\ Key(<<i, "do">>) = Key(<<j, "undo">>) =>
              defn[i].name = Append(defn[j].name, "compensate")
<1>1. defn[i].name \in Seq(STRING) /\ defn[j].name \in Seq(STRING)
  BY StepTypes
<1>2. /\ Key(<<i, "do">>) = defn[i].name
      /\ Key(<<j, "do">>) = defn[j].name
      /\ Key(<<i, "undo">>) = Append(defn[i].name, "compensate")
      /\ Key(<<j, "undo">>) = Append(defn[j].name, "compensate")
  BY DEF Key
<1>3. defn[i].name = defn[j].name => i = j
  BY DEF DefinitionInv
<1>4. Append(defn[i].name, "compensate") = Append(defn[j].name, "compensate")
        => defn[i].name = defn[j].name
  BY <1>1, SameWithoutPart, Zenon
<1> QED  BY <1>2, <1>3, <1>4, Zenon

\* The forms an operation has.
LEMMA OperationForms ==
  \A op \in Operations :
    \E i \in 1..MaxSteps : op = <<i, "do">> \/ op = <<i, "undo">>
BY DEF Operations

\* A key stays the same as long as the definition does.
LEMMA KeysStay ==
  ASSUME defn' = defn
  PROVE  \A op \in Operations : Key(op)' = Key(op)
BY DEF Key

-------------------------------------------------------------------------------
(***************************************************************************)
(* The definition, the phases of a step, and the deadlines.                *)
(***************************************************************************)
LEMMA ShapeInit == Init => ShapeInv
BY CallsAssumption DEF Init, ShapeInv, DefinitionInv, PhaseInv, TimeInv, InStep, Steps

\* AddStep refuses a name that is taken.
LEMMA DefinitionStep ==
  ASSUME DefinitionInv, [Next]_vars
  PROVE  DefinitionInv'
<1>1. CASE \E s \in Menu : AddStep(s)
  <2>1. PICK s \in Menu : AddStep(s)
    BY <1>1
  <2>2. s \in StepDefinitions
    BY CallsAssumption
  <2>3. defn' = Append(defn, s) /\ Len(defn) < MaxSteps
    BY <2>1 DEF AddStep
  <2>4. \A i \in 1..Len(defn) : defn[i].name # s.name
    BY <2>1 DEF AddStep, Steps
  <2>5. Len(defn') = Len(defn) + 1 /\ defn' \in Seq(StepDefinitions)
    BY <2>2, <2>3 DEF DefinitionInv
  <2>6. /\ \A i \in 1..Len(defn) : defn'[i] = defn[i]
        /\ defn'[Len(defn) + 1] = s
    BY <2>2, <2>3, AppendProperties DEF DefinitionInv
  <2>7. ASSUME NEW i \in 1..Len(defn'), NEW j \in 1..Len(defn'),
               defn'[i].name = defn'[j].name
        PROVE  i = j
    <3>1. CASE i \in 1..Len(defn) /\ j \in 1..Len(defn)
      BY <3>1, <2>6, <2>7 DEF DefinitionInv, Steps
    <3>2. CASE i = Len(defn) + 1 \/ j = Len(defn) + 1
      BY <3>2, <2>4, <2>5, <2>6, <2>7 DEF DefinitionInv
    <3> QED  BY <3>1, <3>2, <2>5 DEF DefinitionInv
  <2>8. Len(defn') \in 0..MaxSteps
    BY <2>3, <2>5, CallsAssumption DEF DefinitionInv
  <2> QED  BY <2>5, <2>7, <2>8 DEF DefinitionInv, Steps
<1>2. CASE defn' = defn
  BY <1>2 DEF DefinitionInv, Steps
<1>3. (\E s \in Menu : AddStep(s)) \/ defn' = defn
  BY DEF Next, Build, Forward, Backward, Outside, Stop, Freeze, Execute,
         StartStep, GiveUpStep, Invoke, ActionSucceeds, ActionFails, Wake,
         WaitCut, Complete, Abort, CompensateReturns, Settle, Undo, Charge,
         Tick, StepDeadline, SagaDeadline, Cancel, EndContext, Crash, Rest,
         definition, vars
<1> QED  BY <1>1, <1>2, <1>3

\* A step outside of the building of the definition leaves it as it is.
LEMMA Phases ==
  ASSUME PhaseInv, DefinitionInv, [Next]_vars
  PROVE  PhaseInv'
<1> USE DEF PhaseInv, Steps, InStep, StepStatus
<1>1. CASE UNCHANGED vars
  BY <1>1 DEF vars, definition
<1>2. ASSUME NEW s \in Menu, AddStep(s)
      PROVE  PhaseInv'
  BY <1>2 DEF AddStep
<1>3. CASE Freeze \/ Execute
  BY <1>3 DEF Freeze, Execute
<1>4. CASE Charge \/ Tick \/ StepDeadline \/ SagaDeadline \/ Cancel
  BY <1>4 DEF Charge, Tick, StepDeadline, SagaDeadline, Cancel, EndContext, Rest,
              definition
<1>5. CASE StartStep \/ Invoke \/ Wake
  BY <1>5 DEF StartStep, Invoke, Wake, Rest, definition
<1>6. CASE GiveUpStep \/ WaitCut \/ ActionSucceeds \/ CompensateReturns
  BY <1>6 DEF GiveUpStep, WaitCut, ActionSucceeds, CompensateReturns, FailStep,
              Conclude, Rest, definition
<1>7. CASE ActionFails
  BY <1>7 DEF ActionFails, Wait, FailStep, Conclude, Rest, definition
<1>8. CASE Complete \/ Abort \/ Settle \/ Crash
  BY <1>8 DEF Complete, Abort, Settle, Crash, Rest, definition
<1>9. ASSUME NEW i \in Steps, Undo(i)
      PROVE  PhaseInv'
  BY <1>9 DEF Undo, Rest, definition
<1>10. CASE Stop
  BY <1>10, <1>1 DEF Stop
<1> QED
  BY <1>1, <1>2, <1>3, <1>4, <1>5, <1>6, <1>7, <1>8, <1>9, <1>10
     DEF Next, Build, Forward, Backward, Outside

\* Time does not pass a deadline that has not fired.
LEMMA Times ==
  ASSUME ShapeInv, [Next]_vars
  PROVE  TimeInv'
<1> USE DEF ShapeInv, TimeInv, PhaseInv, InStep
<1>1. CASE UNCHANGED vars
  BY <1>1 DEF vars, definition, timers
<1>2. ASSUME NEW s \in Menu, AddStep(s)
      PROVE  TimeInv'
  BY <1>2 DEF AddStep, timers
<1>3. CASE Freeze \/ Execute
  BY <1>3 DEF Freeze, Execute, timers
<1>4. CASE Charge \/ Wake \/ Complete \/ Settle \/ StartStep \/ Abort
  BY <1>4 DEF Charge, Wake, Complete, Settle, StartStep, Abort, Rest,
              definition, timers
<1>5. CASE Invoke
  <2>1. pc' = "acting" /\ stepCause' = "live" /\ clock' = 0 /\ cause' = cause
        /\ at' = at /\ defn' = defn /\ at \in Steps
    BY <1>5 DEF Invoke, Rest, definition
  <2>2. defn[at].timeout \in Nat
    BY <2>1, StepTypes
  <2> QED  BY <2>1, <2>2
<1>6. CASE GiveUpStep \/ WaitCut \/ ActionSucceeds \/ CompensateReturns
  BY <1>6 DEF GiveUpStep, WaitCut, ActionSucceeds, CompensateReturns, FailStep,
              Conclude
<1>7. CASE ActionFails
  BY <1>7 DEF ActionFails, Wait, FailStep, Conclude
<1>8. CASE Tick
  <2>1. /\ ~(pc = "acting" /\ stepCause = "live" /\ defn[at].timeout > 0
             /\ clock >= defn[at].timeout)
        /\ clock' = clock + 1
        /\ UNCHANGED <<defn, pc, at, cause, stepCause>>
    BY <1>8 DEF Tick, StepDue, Rest, definition
  <2>2. pc = "acting" => defn[at].timeout \in Nat
    BY StepTypes
  <2> QED  BY <2>1, <2>2
<1>9. CASE StepDeadline \/ SagaDeadline \/ Cancel
  BY <1>9 DEF StepDeadline, SagaDeadline, Cancel, EndContext, Rest, definition
<1>10. CASE Crash
  BY <1>10 DEF Crash
<1>11. ASSUME NEW i \in Steps, Undo(i)
       PROVE  TimeInv'
  BY <1>11 DEF Undo
<1>12. CASE Stop
  BY <1>12, <1>1 DEF Stop
<1> QED
  BY <1>1, <1>2, <1>3, <1>4, <1>5, <1>6, <1>7, <1>8, <1>9, <1>10, <1>11, <1>12
     DEF Next, Build, Forward, Backward, Outside

\* The three together hold in every reachable state.
LEMMA ShapeAlways == Spec => []ShapeInv
<1>1. Init => ShapeInv
  BY ShapeInit
<1>2. ShapeInv /\ [Next]_vars => ShapeInv'
  BY DefinitionStep, Phases, Times DEF ShapeInv
<1> QED  BY <1>1, <1>2, PTL DEF Spec

\* Late successes are discarded.
THEOREM SuccessesAreTimely == Spec => Timely
<1> DEFINE InTime ==
      \A i \in DOMAIN steps :
        steps[i] = "RUNNING" /\ steps'[i] = "SUCCEEDED" =>
          /\ cause # "sagaTimeout"
          /\ \/ defn[i].timeout = 0 \/ clock <= defn[i].timeout
             \/ cause = "cancelled"
<1>1. ASSUME ShapeInv, Next
      PROVE  InTime
  <2> SUFFICES ASSUME NEW i \in DOMAIN steps,
                      steps[i] = "RUNNING", steps'[i] = "SUCCEEDED"
               PROVE  /\ cause # "sagaTimeout"
                      /\ \/ defn[i].timeout = 0 \/ clock <= defn[i].timeout
                         \/ cause = "cancelled"
    OBVIOUS
  <2>1. ActionSucceeds /\ i = at
    BY <1>1 DEF ShapeInv, PhaseInv, Next, Build, Forward, Backward, Outside, Stop,
           Freeze, Execute, AddStep, StartStep, GiveUpStep, Invoke,
           ActionSucceeds, ActionFails, Wait, FailStep, Conclude, Wake, WaitCut,
           Complete, Abort, CompensateReturns, Settle, Undo, Charge, Tick,
           StepDeadline, SagaDeadline, Cancel, EndContext, Crash, Rest, vars
  <2>2. pc = "acting" /\ cause # "sagaTimeout" /\ stepCause # "stepTimeout"
    BY <2>1 DEF ActionSucceeds, Late
  <2> QED  BY <1>1, <2>1, <2>2 DEF ShapeInv, TimeInv
<1>2. ShapeInv /\ [Next]_vars => [InTime]_vars
  BY <1>1
<1> QED  BY <1>2, ShapeAlways, PTL DEF Spec, Timely

-------------------------------------------------------------------------------
(***************************************************************************)
(* The gateway.                                                            *)
(***************************************************************************)
\* What the gateway has done is kept by every step that leaves it, and the
\* definition, alone and does not bring the saga back from compensating.
LEMMA GatewayKept ==
  ASSUME GatewayInv, UNCHANGED <<defn, charged, carried>>,
         status \in {"COMPENSATING", "DONE"} => status' \in {"COMPENSATING", "DONE"},
         pc' # "build" \/ pc = "build"
  PROVE  GatewayInv'
<1> USE DEF GatewayInv, Carried
<1>1. \A op \in Operations : Key(op)' = Key(op)
  BY KeysStay
<1>2. Steps' = Steps
  BY DEF Steps
<1> QED  BY <1>1, <1>2

\* The operation that a step in hand asks for.
LEMMA AskedFor ==
  ASSUME ShapeInv, pc \in {"acting", "undoing"}
  PROVE  /\ Asked \in Operations
         /\ Asked[1] = at /\ at \in Steps
         /\ Asked[2] = "undo" <=> pc = "undoing"
         /\ pc = "acting" => Asked = <<at, "do">>
         /\ pc = "undoing" => Asked = <<at, "undo">>
<1>1. at \in Steps
  BY DEF ShapeInv, PhaseInv, InStep
<1>2. Len(defn) \in 0..MaxSteps
  BY DEF ShapeInv, DefinitionInv
<1>3. MaxSteps \in Nat
  BY CallsAssumption
<1>4. at \in 1..MaxSteps
  BY <1>1, <1>2, <1>3 DEF Steps
<1> QED  BY <1>1, <1>4 DEF Asked, Operations

\* The gateway carries out only operations with keys it has not seen.
LEMMA GatewayCharges ==
  ASSUME ShapeInv, GatewayInv, Charge
  PROVE  GatewayInv'
<1> USE DEF Carried
<1>1. PICK a \in Operations : a = Asked
  BY AskedFor DEF Charge
<1>2. /\ a[1] \in Steps
      /\ a[2] = "undo" => status = "COMPENSATING"
  BY <1>1, AskedFor DEF Charge, ShapeInv, PhaseInv
<1>3. /\ Key(a) \notin charged
      /\ charged' = charged \cup {Key(a)}
      /\ carried' = [carried EXCEPT ![a] = @ + 1]
      /\ UNCHANGED <<defn, pc, status>>
  BY <1>1 DEF Charge, definition
<1>4. carried[a] = 0
  BY <1>3 DEF GatewayInv
<1>5. carried' \in [Operations -> {0, 1}] /\ carried'[a] = 1
  BY <1>3, <1>4 DEF GatewayInv
<1>6. \A op \in Operations : Carried(op)' <=> Carried(op) \/ op = a
  BY <1>3, <1>4, <1>5 DEF GatewayInv
<1>7. \A op \in Operations : Key(op)' = Key(op)
  BY <1>3, KeysStay
<1>8. Steps' = Steps
  BY <1>3 DEF Steps
<1>9. pc' # "build"
  BY <1>3 DEF Charge
<1>10. \A op \in Operations : Carried(op)' => op[1] \in Steps' /\ Key(op)' \in charged'
  BY <1>2, <1>3, <1>6, <1>7, <1>8 DEF GatewayInv
<1>11. \A k \in charged' : \E op \in Operations : Carried(op)' /\ Key(op)' = k
  BY <1>3, <1>6, <1>7 DEF GatewayInv
<1>12. \A p, q \in Operations :
         Carried(p)' /\ Carried(q)' /\ Key(p)' = Key(q)' => p = q
  BY <1>3, <1>6, <1>7 DEF GatewayInv
<1>13. \A op \in Operations :
         Carried(op)' /\ op[2] = "undo" => status' \in {"COMPENSATING", "DONE"}
  BY <1>2, <1>3, <1>6 DEF GatewayInv
<1> QED  BY <1>5, <1>9, <1>10, <1>11, <1>12, <1>13 DEF GatewayInv

\* While the definition is built, nothing has been carried out.
LEMMA NothingCarried ==
  ASSUME GatewayInv, pc = "build"
  PROVE  \A op \in Operations : ~Carried(op)
BY DEF GatewayInv

LEMMA GatewayStep ==
  ASSUME ShapeInv, GatewayInv, [Next]_vars
  PROVE  GatewayInv'
<1>1. CASE \E s \in Menu : AddStep(s)
  <2>1. pc = "build" /\ UNCHANGED <<charged, carried, pc, status>>
    BY <1>1 DEF AddStep, gateway
  <2> QED  BY <2>1, NothingCarried DEF GatewayInv, Carried
<1>2. CASE Charge
  BY <1>2, GatewayCharges
<1>3. CASE ~Charge /\ ~\E s \in Menu : AddStep(s)
  <2>1. UNCHANGED <<defn, charged, carried>>
    BY <1>3 DEF Next, Build, Forward, Backward, Outside, Stop,
           Freeze, Execute, StartStep, GiveUpStep, Invoke,
           ActionSucceeds, ActionFails, Wake, WaitCut,
           Complete, Abort, CompensateReturns, Settle, Undo, Tick,
           StepDeadline, SagaDeadline, Cancel, EndContext, Crash, Rest, vars,
           definition, gateway
  <2>2. /\ status \in {"COMPENSATING", "DONE"} =>
             status' \in {"COMPENSATING", "DONE"}
        /\ pc' # "build" \/ pc = "build"
    BY <1>3 DEF Next, Build, Forward, Backward, Outside, Stop,
           Freeze, Execute, StartStep, GiveUpStep, Invoke, FailStep, Conclude,
           Wait, ActionSucceeds, ActionFails, Wake, WaitCut,
           Complete, Abort, CompensateReturns, Settle, Undo, Tick,
           StepDeadline, SagaDeadline, Cancel, EndContext, Crash, Rest, vars,
           ShapeInv, PhaseInv
  <2> QED  BY <2>1, <2>2, GatewayKept
<1> QED  BY <1>1, <1>2, <1>3

LEMMA GatewayAlways == Spec => []GatewayInv
<1>1. Init => GatewayInv
  BY DEF Init, GatewayInv, Carried
<1>2. ShapeInv /\ GatewayInv /\ [Next]_vars => GatewayInv'
  BY GatewayStep
<1> QED  BY <1>1, <1>2, ShapeAlways, PTL DEF Spec

\* Downstream carries nothing out twice.
THEOREM CarriedOutOnce == Spec => []OncePerOperation
<1>1. GatewayInv => OncePerOperation
  BY DEF GatewayInv, OncePerOperation
<1> QED  BY <1>1, GatewayAlways, PTL

-------------------------------------------------------------------------------
(***************************************************************************)
(* What the record says was done.                                          *)
(***************************************************************************)
\* An Action that succeeds was carried out by itself, not under the key of
\* another operation: forward, those are all Actions, with names of their own.
LEMMA ActionWasCarriedOut ==
  ASSUME ShapeInv, GatewayInv, pc = "acting", Key(Asked) \in charged
  PROVE  Carried(<<at, "do">>)
<1>1. Asked = <<at, "do">> /\ at \in Steps
  BY AskedFor
<1>2. status = "RUNNING"
  BY DEF ShapeInv, PhaseInv, InStep
<1>3. PICK op \in Operations : Carried(op) /\ Key(op) = Key(Asked)
  BY DEF GatewayInv
<1>4. op[1] \in Steps /\ op[2] # "undo"
  BY <1>2, <1>3 DEF GatewayInv
<1>5. PICK i \in Steps : op = <<i, "do">>
  BY <1>4, OperationForms
<1>6. DefinitionInv
  BY DEF ShapeInv
<1>7. i = at
  BY <1>1, <1>3, <1>5, <1>6, SameKeys
<1> QED  BY <1>3, <1>5, <1>7

\* What one step of the engine changes of the steps' statuses.
LEMMA DoneStep ==
  ASSUME ShapeInv, GatewayInv, DoneInv, [Next]_vars
  PROVE  DoneInv'
<1> DEFINE Gone(i, s) == /\ s \in Succeeded => Carried(<<i, "do">>)
                         /\ s = "COMPENSATED" => Key(<<i, "undo">>) \in charged
           Safe == \A i \in DOMAIN steps' : Gone(i, steps'[i])
<1>1. CASE (\E s \in Menu : AddStep(s)) \/ Freeze \/ Execute
  <2>1. \A i \in DOMAIN steps' : steps'[i] = "PENDING"
    BY <1>1 DEF AddStep, Freeze, Execute, ShapeInv, PhaseInv
  <2> QED  BY <2>1 DEF DoneInv, Succeeded
<1>2. CASE Charge
  <2>1. PICK a \in Operations : a = Asked
    BY <1>2, AskedFor DEF Charge
  <2>2. carried' = [carried EXCEPT ![a] = @ + 1] /\ Key(a) \notin charged
        /\ charged \subseteq charged' /\ steps' = steps /\ defn' = defn
    BY <1>2, <2>1 DEF Charge, definition
  <2>3. carried[a] = 0
    BY <2>2 DEF GatewayInv, Carried
  <2>4. \A op : Carried(op) => Carried(op)'
    BY <2>2, <2>3 DEF GatewayInv, Carried
  <2>5. \A i : Key(<<i, "undo">>)' = Key(<<i, "undo">>)
    BY <2>2 DEF Key
  <2> QED  BY <2>2, <2>4, <2>5 DEF DoneInv
<1>3. CASE ~(Charge \/ Freeze \/ Execute \/ \E s \in Menu : AddStep(s))
  <2>1. UNCHANGED <<defn, charged, carried>>
    BY <1>3 DEF Next, Build, Forward, Backward, Outside, Stop,
           StartStep, GiveUpStep, Invoke,
           ActionSucceeds, ActionFails, Wake, WaitCut,
           Complete, Abort, CompensateReturns, Settle, Undo, Tick,
           StepDeadline, SagaDeadline, Cancel, EndContext, Crash, Rest, vars,
           definition, gateway
  <2>2. Safe => DoneInv'
    BY <2>1 DEF DoneInv, Carried, Key
  <2>3. \A i \in DOMAIN steps : Gone(i, steps[i])
    BY DEF DoneInv
  <2>4. CASE steps' = steps
    BY <2>2, <2>3, <2>4
  <2>5. CASE StartStep \/ GiveUpStep \/ WaitCut \/ ActionFails
    <3>1. PICK s \in {"RUNNING", "FAILED"} :
            steps' = [steps EXCEPT ![at] = s] \/ steps' = steps
      BY <2>5 DEF StartStep, GiveUpStep, WaitCut, ActionFails, Wait, FailStep,
                  Conclude
    <3>2. \A i \in DOMAIN steps' :
            steps'[i] = steps[i] \/ steps'[i] \in {"RUNNING", "FAILED"}
      BY <3>1
    <3> QED  BY <3>1, <3>2, <2>2, <2>3 DEF Succeeded
  <2>6. CASE ActionSucceeds
    <3>1. Carried(<<at, "do">>) /\ steps' = [steps EXCEPT ![at] = "SUCCEEDED"]
      BY <2>6, ActionWasCarriedOut DEF ActionSucceeds, Conclude
    <3>2. \A i \in DOMAIN steps' :
            (i = at /\ steps'[i] = "SUCCEEDED") \/ steps'[i] = steps[i]
      BY <3>1
    <3> QED  BY <3>1, <3>2, <2>2, <2>3
  <2>7. ASSUME NEW i \in Steps, Undo(i)
        PROVE  DoneInv'
    <3>1. steps[i] \in {"SUCCEEDED", "COMPENSATING"} /\ i \in DOMAIN steps
          /\ steps' = [steps EXCEPT ![i] = "COMPENSATING"]
      BY <2>7 DEF Undo, ToUndo, ShapeInv, PhaseInv
    <3>2. Carried(<<i, "do">>)
      BY <3>1, <2>3 DEF Succeeded
    <3>3. \A j \in DOMAIN steps' :
            (j = i /\ steps'[j] = "COMPENSATING") \/ steps'[j] = steps[j]
      BY <3>1
    <3> QED  BY <3>1, <3>2, <3>3, <2>2, <2>3
  <2>8. CASE CompensateReturns
    <3>1. PICK s \in {"COMPENSATED", "COMPENSATION_FAILED"} :
            /\ s = "COMPENSATED" => Key(Asked) \in charged
            /\ steps' = [steps EXCEPT ![at] = s]
      BY <2>8 DEF CompensateReturns, Conclude
    <3>2. pc = "undoing" /\ at \in DOMAIN steps /\ steps[at] = "COMPENSATING"
      BY <2>8 DEF CompensateReturns, ShapeInv, PhaseInv
    <3>3. Asked = <<at, "undo">>
      BY <3>2 DEF Asked
    <3>4. Carried(<<at, "do">>)
      BY <3>2, <2>3 DEF Succeeded
    <3>5. \A j \in DOMAIN steps' :
            (j = at /\ steps'[j] = s) \/ steps'[j] = steps[j]
      BY <3>1
    <3> QED  BY <3>1, <3>3, <3>4, <3>5, <2>2, <2>3
  <2>9. \/ steps' = steps
        \/ StartStep \/ GiveUpStep \/ WaitCut \/ ActionFails
        \/ ActionSucceeds \/ CompensateReturns
        \/ \E i \in Steps : Undo(i)
    BY <1>3 DEF Next, Build, Forward, Backward, Outside, Stop, Invoke,
           Wake, Complete, Abort, Settle, Tick,
           StepDeadline, SagaDeadline, Cancel, EndContext, Crash, Rest, vars
  <2> QED  BY <2>4, <2>5, <2>6, <2>7, <2>8, <2>9
<1> QED  BY <1>1, <1>2, <1>3

\* A Compensate whose key no Action bears was carried out under that key.
LEMMA DoneIsReported ==
  ASSUME ShapeInv, GatewayInv, DoneInv
  PROVE  ReportedIsDone
<1> SUFFICES ASSUME NEW i \in DOMAIN steps
    PROVE  /\ steps[i] \in Succeeded => carried[<<i, "do">>] = 1
           /\ steps[i] = "COMPENSATED" /\ ~KeyTaken(i) =>
                carried[<<i, "undo">>] = 1
  BY DEF ReportedIsDone, Succeeded
<1>1. steps[i] \in Succeeded => carried[<<i, "do">>] = 1
  BY DEF DoneInv, Carried
<1>2. ASSUME steps[i] = "COMPENSATED", ~KeyTaken(i)
      PROVE  Carried(<<i, "undo">>)
  <2>1. i \in Steps /\ DefinitionInv
    BY DEF ShapeInv, PhaseInv
  <2>2. Key(<<i, "undo">>) \in charged
    BY <1>2 DEF DoneInv
  <2>3. PICK op \in Operations : Carried(op) /\ Key(op) = Key(<<i, "undo">>)
    BY <2>2 DEF GatewayInv
  <2>4. op[1] \in Steps
    BY <2>3 DEF GatewayInv
  <2>5. PICK j \in Steps : op = <<j, "do">> \/ op = <<j, "undo">>
    BY <2>4, OperationForms
  <2>6. op # <<j, "do">>
    <3>1. Key(<<j, "do">>) = defn[j].name
      BY DEF Key
    <3>2. Key(<<i, "undo">>) = Append(defn[i].name, "compensate")
      BY DEF Key
    <3> QED  BY <1>2, <2>3, <3>1, <3>2 DEF KeyTaken
  <2>7. op = <<j, "undo">> /\ j = i
    BY <2>1, <2>3, <2>5, <2>6, SameKeys
  <2> QED  BY <2>3, <2>7
<1> QED  BY <1>1, <1>2 DEF Carried

\* What the record says was done was done, as long as no step bears the name of
\* another's compensation (idempotency.go:43-59).
THEOREM ReportsAreTrue == Spec => []ReportedIsDone
<1>1. Init => DoneInv
  BY DEF Init, DoneInv
<1>2. ShapeInv /\ GatewayInv /\ DoneInv /\ [Next]_vars => DoneInv'
  BY DoneStep
<1>3. ShapeInv /\ GatewayInv /\ DoneInv => ReportedIsDone
  BY DoneIsReported
<1> QED  BY <1>1, <1>2, <1>3, ShapeAlways, GatewayAlways, PTL DEF Spec

-------------------------------------------------------------------------------
(***************************************************************************)
(* The attempts and the waits of a step.                                   *)
(***************************************************************************)
\* A step goes by a policy that the constructors make.
LEMMA PolicyIs ==
  ASSUME DefinitionInv, NEW i \in Steps
  PROVE  PolicyOf(i) \in Policies /\ MaxAttempts(PolicyOf(i)) \in Nat \ {0}
<1>1. defn[i] \in StepDefinitions
  BY DEF DefinitionInv, Steps
<1>2. defn[i].policy \in {Unset} \cup Policies
  BY <1>1 DEF StepDefinitions
<1>3. PolicyOf(i) \in Policies
  BY <1>2, CallsAssumption DEF PolicyOf
<1> QED  BY <1>3 DEF Policies, MaxAttempts

LEMMA PolicyStays ==
  ASSUME defn' = defn, at' = at
  PROVE  PolicyOf(at)' = PolicyOf(at)
BY DEF PolicyOf

\* Conclude puts the attempts back to none.
LEMMA AttemptsConclude ==
  ASSUME ShapeInv, AttemptInv, UNCHANGED defn,
         NEW s, NEW i \in 0..Len(defn), Conclude(s, i)
  PROVE  AttemptInv'
BY DEF AttemptInv, Conclude, InStep

LEMMA Attempts ==
  ASSUME ShapeInv, AttemptInv, [Next]_vars
  PROVE  AttemptInv'
<1> USE DEF AttemptInv, InStep
<1>0. Len(defn) \in Nat /\ DefinitionInv
  BY CallsAssumption DEF ShapeInv, DefinitionInv
<1>1. pc \in InStep => MaxAttempts(PolicyOf(at)) \in Nat \ {0}
  BY <1>0, PolicyIs DEF ShapeInv, PhaseInv
<1>2. CASE UNCHANGED vars
  BY <1>2, PolicyStays DEF vars, definition
<1>3. ASSUME NEW s \in Menu, AddStep(s)
      PROVE  AttemptInv'
  <2>1. UNCHANGED <<pc, at, attempt>> /\ pc = "build" /\ defn' = Append(defn, s)
    BY <1>3 DEF AddStep
  <2>2. Len(defn') = Len(defn) + 1
    BY <2>1, <1>3, CallsAssumption DEF ShapeInv, DefinitionInv
  <2> QED  BY <1>0, <2>1, <2>2
<1>4. CASE Freeze \/ Execute
  <2>1. /\ defn' = defn /\ attempt' = attempt /\ pc = "build" /\ pc' \in {"build", "next"}
        /\ at' = at \/ at' = IF defn = <<>> THEN 0 ELSE 1
    BY <1>4 DEF Freeze, Execute
  <2>2. defn # <<>> => Len(defn) >= 1
    BY <1>0 DEF DefinitionInv
  <2> QED  BY <1>0, <2>1, <2>2
<1>5. CASE Charge \/ Tick \/ StepDeadline \/ SagaDeadline \/ Cancel
  <2>1. UNCHANGED <<defn, at, pc, attempt>>
    BY <1>5 DEF Charge, Tick, StepDeadline, SagaDeadline, Cancel, EndContext, Rest,
                definition
  <2> QED  BY <2>1, PolicyStays
<1>6. CASE StartStep \/ Invoke \/ Wake
  <2>1. /\ UNCHANGED <<defn, at>> /\ at \in Steps
        /\ \/ pc = "next" /\ pc' = "attempt" /\ attempt' = attempt
           \/ pc = "attempt" /\ pc' = "acting" /\ attempt' = attempt + 1
           \/ pc = "waiting" /\ pc' = "attempt" /\ attempt' = attempt
    BY <1>6 DEF StartStep, Invoke, Wake, Rest, definition, ShapeInv, PhaseInv
  <2>2. MaxAttempts(PolicyOf(at)) \in Nat \ {0}
    BY <1>0, <2>1, PolicyIs
  <2>3. PolicyOf(at)' = PolicyOf(at)
    BY <2>1, PolicyStays
  <2> QED  BY <2>1, <2>2, <2>3
<1>7. CASE GiveUpStep \/ WaitCut \/ ActionSucceeds \/ CompensateReturns
  <2>1. /\ defn' = defn /\ at \in Steps
        /\ \E s : \E i \in {at, IF at = Len(defn) THEN at ELSE at + 1} : Conclude(s, i)
    BY <1>7 DEF GiveUpStep, WaitCut, ActionSucceeds, CompensateReturns, FailStep,
                Rest, definition, ShapeInv, PhaseInv
  <2>2. PICK s : \E i \in {at, IF at = Len(defn) THEN at ELSE at + 1} : Conclude(s, i)
    BY <2>1
  <2>3. PICK i \in {at, IF at = Len(defn) THEN at ELSE at + 1} : Conclude(s, i)
    BY <2>2
  <2>4. i \in 0..Len(defn)
    BY <1>0, <2>1 DEF Steps
  <2> QED  BY <2>1, <2>3, <2>4, AttemptsConclude
<1>8. CASE ActionFails
  <2>1. /\ defn' = defn /\ pc = "acting"
        /\ (AttemptsLeft /\ Wait) \/ Conclude("FAILED", at)
    BY <1>8 DEF ActionFails, FailStep, Rest, definition
  <2>2. CASE AttemptsLeft /\ Wait
    <3>1. /\ UNCHANGED <<at, attempt>> /\ pc' = "waiting"
          /\ attempt < MaxAttempts(PolicyOf(at))
      BY <2>2 DEF AttemptsLeft, Wait
    <3>2. PolicyOf(at)' = PolicyOf(at)
      BY <2>1, <3>1, PolicyStays
    <3> QED  BY <1>1, <2>1, <3>1, <3>2
  <2>3. CASE Conclude("FAILED", at)
    BY <2>1, <2>3, AttemptsConclude
  <2> QED  BY <2>1, <2>2, <2>3
<1>9. CASE Complete \/ Abort \/ Settle \/ Crash
  <2>1. /\ UNCHANGED <<defn, at>> /\ pc' \in {"next", "idle"}
        /\ attempt' = 0 \/ (pc = "next" /\ attempt' = attempt)
    BY <1>9 DEF Complete, Abort, Settle, Crash, Rest, definition
  <2>2. attempt' = 0 /\ pc' \notin InStep
    BY <2>1
  <2> QED  BY <2>1, <2>2
<1>10. ASSUME NEW i \in Steps, Undo(i)
      PROVE  AttemptInv'
  <2>1. defn' = defn /\ at' = i /\ attempt' = attempt /\ pc = "next" /\ pc' = "undoing"
    BY <1>10 DEF Undo, Rest, definition
  <2> QED  BY <1>0, <2>1 DEF Steps
<1>11. CASE Stop
  BY <1>11, <1>2 DEF Stop
<1> QED
  BY <1>2, <1>3, <1>4, <1>5, <1>6, <1>7, <1>8, <1>9, <1>10, <1>11
     DEF Next, Build, Forward, Backward, Outside

\* The wait in hand.
LEMMA WaitsStep ==
  ASSUME ShapeInv, AttemptInv, WaitInv, [Next]_vars
  PROVE  WaitInv'
<1> USE DEF WaitInv
<1>1. 0 \in Durations
  BY Bounds DEF Durations
<1>2. CASE UNCHANGED <<defn, at, pc, attempt, delay, clock>>
  BY <1>2, PolicyStays
<1>3. CASE pc' # "waiting" /\ delay' \in {delay, 0}
  BY <1>1, <1>3
<1>4. CASE ActionFails
  <2>1. defn' = defn /\ pc = "acting" /\ (Wait \/ Conclude("FAILED", at))
    BY <1>4 DEF ActionFails, FailStep, Rest, definition
  <2>2. CASE Wait
    <3>1. /\ UNCHANGED <<at, attempt>> /\ pc' = "waiting" /\ clock' = 0
          /\ delay' \in Delays(PolicyOf(at), attempt + 1)
      BY <2>2 DEF Wait
    <3>2. PolicyOf(at)' = PolicyOf(at)
      BY <2>1, <3>1, PolicyStays
    <3>3. PolicyOf(at) \in Policies
      BY <2>1, PolicyIs DEF ShapeInv, PhaseInv, InStep
    <3>4. attempt + 1 \in Nat /\ attempt + 1 >= 2
      BY <2>1 DEF AttemptInv
    <3>5. delay' \in Durations
      BY <3>1, <3>3, <3>4, DelaysFit
    <3> QED  BY <3>1, <3>2, <3>5
  <2>3. CASE Conclude("FAILED", at)
    BY <1>3, <2>3 DEF Conclude
  <2> QED  BY <2>1, <2>2, <2>3
<1>5. CASE Tick
  <2>1. /\ UNCHANGED <<defn, at, pc, attempt, delay>> /\ clock' = clock + 1
        /\ pc = "waiting" => clock < delay
    BY <1>5 DEF Tick, Rest, definition
  <2>2. clock \in Nat /\ delay \in Int
    BY Bounds DEF ShapeInv, TimeInv, Durations
  <2>3. PolicyOf(at)' = PolicyOf(at)
    BY <2>1, PolicyStays
  <2> QED  BY <2>1, <2>2, <2>3
<1>6. \/ UNCHANGED <<defn, at, pc, attempt, delay, clock>>
      \/ pc' # "waiting" /\ delay' \in {delay, 0}
      \/ ActionFails \/ Tick
  <2>1. CASE UNCHANGED vars
    BY <2>1 DEF vars, definition, timers
  <2>2. ASSUME NEW s \in Menu, AddStep(s)
        PROVE  pc' # "waiting" /\ delay' = delay
    BY <2>2 DEF AddStep
  <2>3. CASE Freeze \/ Execute
    BY <2>3 DEF Freeze, Execute
  <2>4. CASE Charge \/ StepDeadline \/ SagaDeadline \/ Cancel
    BY <2>4 DEF Charge, StepDeadline, SagaDeadline, Cancel, EndContext, Rest,
                definition, timers
  <2>5. CASE StartStep \/ Invoke \/ Wake
    BY <2>5 DEF StartStep, Invoke, Wake, Rest, definition
  <2>6. CASE GiveUpStep \/ WaitCut \/ ActionSucceeds \/ CompensateReturns
    BY <2>6 DEF GiveUpStep, WaitCut, ActionSucceeds, CompensateReturns, FailStep,
                Conclude
  <2>7. CASE Complete \/ Abort \/ Settle \/ Crash
    BY <2>7 DEF Complete, Abort, Settle, Crash, Rest, definition
  <2>8. ASSUME NEW i \in Steps, Undo(i)
        PROVE  pc' # "waiting" /\ delay' = delay
    BY <2>8 DEF Undo
  <2>9. CASE Stop
    BY <2>9, <2>1 DEF Stop
  <2> QED
    BY <2>1, <2>2, <2>3, <2>4, <2>5, <2>6, <2>7, <2>8, <2>9
       DEF Next, Build, Forward, Backward, Outside
<1> QED  BY <1>2, <1>3, <1>4, <1>5, <1>6

CallInv == ShapeInv /\ AttemptInv /\ WaitInv

LEMMA CallAlways == Spec => []CallInv
<1>1. Init => CallInv
  <2>1. Init => ShapeInv
    BY ShapeInit
  <2>2. ASSUME Init
        PROVE  AttemptInv /\ WaitInv
    BY <2>2, Bounds DEF Init, AttemptInv, WaitInv, InStep, Durations
  <2> QED  BY <2>1, <2>2 DEF CallInv
<1>2. CallInv /\ [Next]_vars => CallInv'
  BY DefinitionStep, Phases, Times, Attempts, WaitsStep DEF CallInv, ShapeInv
<1> QED  BY <1>1, <1>2, PTL DEF Spec

-------------------------------------------------------------------------------
(***************************************************************************)
(* Types.                                                                  *)
(***************************************************************************)
\* The variables that no other invariant speaks of.
TypeInv ==
  /\ defn \in Seq(Menu) /\ frozen \in BOOLEAN
  /\ status \in {"PENDING", "RUNNING", "COMPENSATING", "DONE"}
  /\ pc \in {"build", "next", "attempt", "acting", "waiting", "undoing", "idle"}
  /\ sagaClock \in 0..SagaTimeout /\ leaseAge \in 0..LockTTL
  /\ crashes \in 0..MaxCrashes

LEMMA TypeStep ==
  ASSUME TypeInv, [Next]_vars
  PROVE  TypeInv'
<1> USE DEF TypeInv
<1>0. {SagaTimeout, LockTTL, MaxCrashes} \subseteq Nat
  BY CallsAssumption
<1>1. CASE UNCHANGED vars
  BY <1>1 DEF vars, definition, timers
<1>2. ASSUME NEW s \in Menu, AddStep(s)
      PROVE  TypeInv'
  BY <1>2 DEF AddStep, timers
<1>3. CASE Freeze \/ Execute
  BY <1>3 DEF Freeze, Execute, timers
<1>4. CASE Charge \/ StepDeadline \/ SagaDeadline \/ Cancel
  BY <1>4 DEF Charge, StepDeadline, SagaDeadline, Cancel, EndContext, Rest,
              definition, timers
<1>5. CASE Tick
  BY <1>0, <1>5 DEF Tick, UpTo, Rest, definition
<1>6. CASE StartStep \/ Invoke \/ Wake
  BY <1>0, <1>6 DEF StartStep, Invoke, Wake, Rest, definition, timers
<1>7. CASE GiveUpStep \/ WaitCut \/ ActionSucceeds \/ ActionFails \/ CompensateReturns
  BY <1>0, <1>7 DEF GiveUpStep, WaitCut, ActionSucceeds, ActionFails, Wait,
       CompensateReturns, FailStep, Conclude, Renew, Rest, definition
<1>8. CASE Complete \/ Abort \/ Settle \/ Crash
  BY <1>0, <1>8 DEF Complete, Abort, Settle, Crash, Renew, Rest, definition
<1>9. ASSUME NEW i \in Steps, Undo(i)
      PROVE  TypeInv'
  BY <1>0, <1>9 DEF Undo, Rest, definition
<1>10. CASE Stop
  BY <1>10, <1>1 DEF Stop
<1> QED
  BY <1>1, <1>2, <1>3, <1>4, <1>5, <1>6, <1>7, <1>8, <1>9, <1>10
     DEF Next, Build, Forward, Backward, Outside

LEMMA TypeAlways == Spec => []TypeInv
<1>1. Init => TypeInv
  <2>1. 0 \in 0..SagaTimeout /\ 0 \in 0..LockTTL /\ 0 \in 0..MaxCrashes
    BY CallsAssumption
  <2>2. <<>> \in Seq(Menu)
    OBVIOUS
  <2> QED  BY <2>1, <2>2, Zenon DEF Init, TypeInv
<1>2. TypeInv /\ [Next]_vars => TypeInv'
  BY TypeStep
<1> QED  BY <1>1, <1>2, PTL DEF Spec

\* Every variable keeps to its type: of the delays, that they are durations, of
\* the attempts, that there are never more than MaxAttempts (retry.go:19-21).
THEOREM CallsTyped == Spec => []TypeOK
<1>1. ASSUME TypeInv, CallInv, GatewayInv
      PROVE  TypeOK
  <2>1. ShapeInv /\ AttemptInv /\ delay \in Durations
    BY <1>1 DEF CallInv, WaitInv
  <2>2. steps \in [IF pc = "build" THEN {} ELSE Steps -> StepStatus]
    <3>1. pc = "build" => steps = <<>>
      BY <2>1 DEF ShapeInv, PhaseInv
    <3>2. <<>> \in [{} -> StepStatus]
      OBVIOUS
    <3>3. pc # "build" => steps \in [Steps -> StepStatus]
      BY <2>1 DEF ShapeInv, PhaseInv
    <3> QED  BY <3>1, <3>2, <3>3
  <2>3. attempt \in 0..(IF at = 0 THEN 0 ELSE MaxAttempts(PolicyOf(at)))
    <3>1. CASE pc \in InStep
      <4>1. at \in Steps /\ DefinitionInv
        BY <2>1, <3>1 DEF ShapeInv, PhaseInv
      <4>2. at # 0 /\ MaxAttempts(PolicyOf(at)) \in Nat
        BY <4>1, PolicyIs DEF Steps
      <4> QED  BY <2>1, <3>1, <4>2 DEF AttemptInv, InStep
    <3>2. CASE pc \notin InStep
      <4>1. attempt = 0
        BY <2>1, <3>2 DEF AttemptInv
      <4>2. CASE at = 0
        BY <4>1, <4>2
      <4>3. CASE at # 0
        <5>1. at \in Steps /\ DefinitionInv
          BY <2>1, <4>3 DEF AttemptInv, ShapeInv, DefinitionInv, Steps
        <5>2. MaxAttempts(PolicyOf(at)) \in Nat
          BY <5>1, PolicyIs
        <5> QED  BY <4>1, <4>3, <5>2
      <4> QED  BY <4>2, <4>3
    <3> QED  BY <3>1, <3>2
  <2>4. carried \in [Operations -> 0..2]
    BY <1>1 DEF GatewayInv
  <2>5. at \in 0..Len(defn) /\ cause \in {"live", "cancelled", "sagaTimeout"}
        /\ stepCause \in {"live", "outer", "stepTimeout"} /\ clock \in Nat
    BY <2>1 DEF AttemptInv, ShapeInv, TimeInv
  <2> QED  BY <1>1, <2>1, <2>2, <2>3, <2>4, <2>5 DEF TypeInv, TypeOK
<1> QED  BY <1>1, TypeAlways, CallAlways, GatewayAlways, PTL

-------------------------------------------------------------------------------
(***************************************************************************)
(* The delays between the attempts.                                        *)
(***************************************************************************)
\* The loop of ExponentialBackoff is exact for durations of any width, up to the
\* first doubling below the cap that overflows (retry.go:64-78).
THEOREM BackoffAsMeant == Spec => []BackoffIsExact
<1>1. ASSUME NEW base \in 0..Longest, NEW maxDelay \in Durations,
             NEW k \in 2..(Width + 2)
      PROVE  LET p == ExponentialBackoff(base, maxDelay, 1)
             IN ~Overflows(p, k) => Backoff(p, k) = IdealBackoff(p, k)
  <2> DEFINE p == ExponentialBackoff(base, maxDelay, 1)
  <2>1. p.base = base /\ p.cap = maxDelay
    BY DEF ExponentialBackoff
  <2>2. k \in Nat /\ k >= 2
    BY WidthAssumption
  <2> HIDE DEF p
  <2>3. ~Overflows(p, k) => Backoff(p, k) = IdealBackoff(p, k)
    BY <2>1, <2>2, BackoffMeets
  <2> QED  BY <2>3 DEF p
<1>2. BackoffIsExact
  BY <1>1 DEF BackoffIsExact
<1> QED  BY <1>2, PTL

\* A wait that ends by itself was as long as the policy says.
LEMMA WokenRested ==
  ASSUME ShapeInv, AttemptInv, WaitInv, pc = "waiting", clock >= delay
  PROVE  Rested
<1> DEFINE p == PolicyOf(at)
           k == attempt + 1
           ideal == IdealBackoff(p, k)
<1>1. p \in Policies /\ k \in Nat /\ k >= 2 /\ delay \in Delays(p, k)
      /\ clock \in Nat
  BY PolicyIs DEF ShapeInv, PhaseInv, TimeInv, InStep, AttemptInv, WaitInv
<1>2. Rested <=> \/ Overflows(p, k)
                 \/ ideal * (100 + p.jitter) > 100 * Longest
                 \/ clock >= (ideal * (100 - p.jitter)) \div 100
  BY DEF Rested
<1> HIDE DEF p, k
<1>3. p.base \in Durations /\ p.cap \in Durations /\ p.jitter \in 0..100
      /\ p.base \in Int /\ Longest \in Int
  BY <1>1, Bounds DEF Policies, Durations
<1>4. ideal \in Int /\ (p.base < 0 => ideal <= 0)
  <2>1. CASE p.base < 0
    <3>1. k - 2 \in Nat
      BY <1>1
    <3>2. TwoTo[k - 2] \in Nat \ {0} /\ p.cap \in Int
      BY <1>3, <3>1, PowersOfTwo, Bounds DEF Durations
    <3>3. p.base * TwoTo[k - 2] \in Int /\ p.base * TwoTo[k - 2] <= 0
      BY <1>3, <2>1, <3>2
    <3> QED  BY <3>2, <3>3 DEF IdealBackoff
  <2>2. CASE p.base >= 0
    <3>1. p.base \in 0..Longest
      BY <1>3, <2>2, Bounds DEF Durations
    <3> QED  BY <1>1, <1>3, <2>2, <3>1, BackoffMeets
  <2> QED  BY <1>3, <2>1, <2>2
<1>5. CASE ideal <= 0
  <2>1. ideal * (100 - p.jitter) \in Int /\ ideal * (100 - p.jitter) <= 0
    BY <1>3, <1>4, <1>5
  <2>2. (ideal * (100 - p.jitter)) \div 100 <= 0
    BY <2>1, Hundredths
  <2>3. (ideal * (100 - p.jitter)) \div 100 \in Int
    BY <2>1
  <2> QED  BY <1>1, <1>2, <2>2, <2>3
<1>6. CASE ideal > 0
  <2>1. ASSUME ~Overflows(p, k), ~(ideal * (100 + p.jitter) > 100 * Longest)
        PROVE  clock >= (ideal * (100 - p.jitter)) \div 100
    <3>1. ideal * (100 + p.jitter) \in Int /\ ideal * (100 - p.jitter) \in Int
      BY <1>3, <1>4
    <3>2. ideal * (100 + p.jitter) <= 100 * Longest
      BY <1>3, <2>1, <3>1
    <3>3. p.base >= 0
      BY <1>3, <1>4, <1>6
    <3>4. (ideal * (100 - p.jitter)) \div 100 <= delay
      BY <1>1, <1>4, <1>6, <2>1, <3>2, <3>3, DelaysLast
    <3>5. (ideal * (100 - p.jitter)) \div 100 \in Int /\ delay \in Int
      BY <3>1, Bounds DEF WaitInv, Durations
    <3> QED  BY <1>1, <3>4, <3>5
  <2> QED  BY <1>2, <2>1
<1> QED  BY <1>4, <1>5, <1>6

\* A wait that has passed stays so until the attempt.
LEMMA RestStep ==
  ASSUME CallInv, RestInv, [Next]_vars
  PROVE  RestInv'
<1> SUFFICES ASSUME pc' = "attempt", attempt' > 0
             PROVE  Rested'
  BY DEF RestInv
<1>0. ShapeInv /\ AttemptInv /\ WaitInv
  BY DEF CallInv
<1>1. CASE UNCHANGED <<defn, at, attempt, clock, pc>>
  BY <1>1 DEF RestInv, Rested, PolicyOf
<1>2. CASE Wake
  <2>1. Rested
    BY <1>0, <1>2, WokenRested DEF Wake
  <2>2. UNCHANGED <<defn, at, attempt, clock>>
    BY <1>2 DEF Wake, Rest, definition, timers
  <2> QED  BY <2>1, <2>2 DEF Rested, PolicyOf
<1>3. CASE StartStep
  <2>1. attempt' = 0
    BY <1>0, <1>3 DEF StartStep, AttemptInv, InStep
  <2> QED  BY <2>1
<1>4. UNCHANGED <<defn, at, attempt, clock, pc>> \/ Wake \/ StartStep
  <2>1. CASE UNCHANGED vars \/ Stop
    BY <2>1 DEF vars, definition, timers, Stop
  <2>2. ASSUME NEW s \in Menu, AddStep(s)
        PROVE  FALSE
    BY <2>2 DEF AddStep
  <2>3. CASE Freeze \/ Execute
    BY <2>3 DEF Freeze, Execute
  <2>4. CASE Charge \/ StepDeadline \/ SagaDeadline \/ Cancel \/ Tick
    BY <2>4 DEF Charge, StepDeadline, SagaDeadline, Cancel, EndContext, Tick, Rest,
                definition, timers
  <2>5. CASE Invoke \/ Complete \/ Abort \/ Settle \/ Crash
    BY <2>5 DEF Invoke, Complete, Abort, Settle, Crash, Rest
  <2>6. CASE GiveUpStep \/ WaitCut \/ ActionSucceeds \/ ActionFails \/ CompensateReturns
    BY <2>6 DEF GiveUpStep, WaitCut, ActionSucceeds, ActionFails, Wait,
                CompensateReturns, FailStep, Conclude
  <2>7. ASSUME NEW i \in Steps, Undo(i)
        PROVE  FALSE
    BY <2>7 DEF Undo
  <2> QED
    BY <2>1, <2>2, <2>3, <2>4, <2>5, <2>6, <2>7
       DEF Next, Build, Forward, Backward, Outside
<1> QED  BY <1>1, <1>2, <1>3, <1>4

\* No attempt starts before the wait of the policy has passed.
THEOREM AttemptsAreSpaced == Spec => AttemptsSpaced
<1> DEFINE Apart ==
      pc = "attempt" /\ pc' = "acting" /\ attempt > 0 =>
        LET p == PolicyOf(at)
            ideal == IdealBackoff(p, attempt + 1)
        IN \/ Overflows(p, attempt + 1)
           \/ ideal * (100 + p.jitter) > 100 * Longest
           \/ clock >= (ideal * (100 - p.jitter)) \div 100
<1>1. Init => RestInv
  BY DEF Init, RestInv
<1>2. CallInv /\ RestInv /\ [Next]_vars => RestInv'
  BY RestStep
<1>3. RestInv => Apart
  BY DEF RestInv, Rested
<1>4. RestInv /\ [Next]_vars => [Apart]_vars
  BY <1>3
<1> QED  BY <1>1, <1>2, <1>4, CallAlways, PTL DEF Spec, AttemptsSpaced

-------------------------------------------------------------------------------
(***************************************************************************)
(* The age of the lease.                                                   *)
(***************************************************************************)
\* The time that attempts take.
LEMMA Spent ==
  /\ ActionTime \in Nat
  /\ \A n \in Nat : /\ n * ActionTime \in Nat
                    /\ (n + 1) * ActionTime = n * ActionTime + ActionTime
                    /\ \A m \in Nat : m <= n => m * ActionTime <= n * ActionTime
<1>1. ActionTime \in Nat
  BY CallsAssumption
<1> QED  BY <1>1

\* In a step, what the policy, the waits and the times are made of.
LEMMA InHand ==
  ASSUME CallInv, pc \in InStep
  PROVE  /\ PolicyOf(at) \in Policies /\ at \in Steps
         /\ \A n \in Nat : Waits(PolicyOf(at))[n] \in Nat
         /\ Waits(PolicyOf(at))[1] = 0
<1>1. PolicyOf(at) \in Policies /\ at \in Steps
  BY PolicyIs DEF CallInv, ShapeInv, PhaseInv
<1> QED  BY <1>1, WaitsAre

LEMMA LeaseStep ==
  ASSUME CallInv, TypeInv, LeaseInv, [Next]_vars
  PROVE  LeaseInv'
<1> DEFINE A == ActionTime
           w(n) == Waits(PolicyOf(at))[n]
<1>0. /\ attempt \in Nat /\ clock \in Nat /\ leaseAge \in Nat /\ LockTTL \in Nat
      /\ ShapeInv /\ AttemptInv /\ WaitInv
  BY CallsAssumption DEF CallInv, ShapeInv, TimeInv, AttemptInv, TypeInv
<1>1. CASE UNCHANGED <<defn, at, pc, attempt, clock, leaseAge>>
  BY <1>1, PolicyStays DEF LeaseInv
<1>2. CASE pc' \in {"build", "next", "idle"} /\ (pc' # "idle" => leaseAge' = 0)
  BY <1>2 DEF LeaseInv
<1>3. CASE StartStep
  <2>1. pc = "next" /\ pc' = "attempt" /\ attempt' = attempt /\ leaseAge' \in {0, leaseAge}
        /\ at \in Steps /\ UNCHANGED <<defn, at>>
    BY <1>3 DEF StartStep, Rest, definition
  <2>2. leaseAge' = 0 /\ attempt' = 0
    BY <1>0, <2>1 DEF LeaseInv, AttemptInv, InStep
  <2>3. PolicyOf(at) \in Policies
    BY <1>0, <2>1, PolicyIs DEF ShapeInv
  <2>4. PolicyOf(at)' = PolicyOf(at)
    BY <2>1, PolicyStays
  <2>5. Waits(PolicyOf(at))[1] = 0
    BY <2>3, WaitsAre
  <2>6. leaseAge' <= attempt' * A + Waits(PolicyOf(at)')[attempt' + 1]
    BY <2>2, <2>4, <2>5, Spent
  <2> QED  BY <2>1, <2>6 DEF LeaseInv
<1>4. CASE Invoke
  <2>1. /\ pc = "attempt" /\ pc' = "acting" /\ attempt' = attempt + 1 /\ clock' = 0
        /\ UNCHANGED <<defn, at, leaseAge>>
    BY <1>4 DEF Invoke, Rest, definition
  <2>2. leaseAge <= attempt * A + w(attempt + 1)
    BY <2>1 DEF LeaseInv
  <2>3. PolicyOf(at)' = PolicyOf(at)
    BY <2>1, PolicyStays
  <2>4. w(attempt + 1) \in Nat /\ attempt * A \in Nat
    BY <1>0, <2>1, InHand, Spent DEF InStep
  <2>5. attempt' - 1 = attempt
    BY <1>0, <2>1
  <2>6. leaseAge' <= (attempt' - 1) * A + Waits(PolicyOf(at)')[attempt'] + clock'
    BY <1>0, <2>1, <2>2, <2>3, <2>4, <2>5
  <2>7. clock' <= A
    BY <2>1, Spent
  <2> QED  BY <2>1, <2>6, <2>7 DEF LeaseInv
<1>5. CASE ActionFails
  <2>1. UNCHANGED defn /\ pc = "acting" /\ (Wait \/ Conclude("FAILED", at))
    BY <1>5 DEF ActionFails, FailStep, Rest, definition
  <2>2. CASE Wait
    <3>1. pc' = "waiting" /\ clock' = 0 /\ UNCHANGED <<at, attempt, leaseAge>>
      BY <2>2 DEF Wait
    <3>2. leaseAge <= (attempt - 1) * A + w(attempt) + clock /\ clock <= A
      BY <2>1 DEF LeaseInv
    <3>3. attempt - 1 \in Nat /\ (attempt - 1) + 1 = attempt
      BY <1>0, <2>1 DEF AttemptInv
    <3>4. (attempt - 1) * A \in Nat /\ attempt * A = (attempt - 1) * A + A
      BY <3>3, Spent
    <3>5. w(attempt) \in Nat
      BY <1>0, <2>1, InHand DEF InStep
    <3>6. leaseAge <= attempt * A + w(attempt)
      BY <1>0, <3>2, <3>4, <3>5, Spent
    <3>7. PolicyOf(at)' = PolicyOf(at)
      BY <2>1, <3>1, PolicyStays
    <3>8. leaseAge' <= attempt' * A + Waits(PolicyOf(at)')[attempt'] + clock'
      BY <1>0, <3>1, <3>4, <3>5, <3>6, <3>7, Spent
    <3> QED  BY <3>1, <3>8 DEF LeaseInv
  <2>3. CASE Conclude("FAILED", at)
    BY <1>2, <2>3 DEF Conclude, Renew
  <2> QED  BY <2>1, <2>2, <2>3
<1>6. CASE Wake
  <2>1. pc = "waiting" /\ pc' = "attempt" /\ UNCHANGED <<defn, at, attempt, clock, leaseAge>>
    BY <1>6 DEF Wake, Rest, definition, timers
  <2>2. leaseAge <= attempt * A + w(attempt) + clock
    BY <2>1 DEF LeaseInv
  <2> DEFINE p == PolicyOf(at)
             longest == LongestWait(p, attempt + 1)
  <2>3. p \in Policies /\ attempt + 1 \in Nat /\ attempt + 1 >= 2
        /\ delay \in Delays(p, attempt + 1) /\ (clock = 0 \/ clock <= delay)
    BY <1>0, <2>1, InHand DEF InStep, AttemptInv, WaitInv
  <2>4. longest \in Nat /\ delay <= longest /\ delay \in Int
    BY <1>0, <2>3, LongestWaitIs, DelaysFit, Bounds DEF WaitInv, Durations
  <2>5. clock <= longest
    BY <1>0, <2>3, <2>4
  <2>6. w(attempt + 1) = w(attempt) + longest /\ w(attempt) \in Nat
    <3>1. (attempt + 1) - 1 = attempt
      BY <1>0
    <3> QED  BY <1>0, <2>3, <3>1, WaitsAre
  <2>7. leaseAge <= attempt * A + w(attempt + 1)
    BY <1>0, <2>2, <2>4, <2>5, <2>6, Spent
  <2>8. PolicyOf(at)' = PolicyOf(at)
    BY <2>1, PolicyStays
  <2>9. leaseAge' <= attempt' * A + Waits(PolicyOf(at)')[attempt' + 1]
    BY <2>1, <2>7, <2>8
  <2> QED  BY <2>1, <2>9 DEF LeaseInv
<1>7. CASE Tick
  <2>1. /\ pc \in {"acting", "waiting", "undoing"} /\ clock' = clock + 1
        /\ leaseAge' = UpTo(leaseAge, LockTTL)
        /\ UNCHANGED <<defn, at, pc, attempt>>
        /\ pc # "waiting" => clock < A
    BY <1>7 DEF Tick, Rest, definition
  <2>2. leaseAge' <= leaseAge + 1 /\ leaseAge' \in Nat
    BY <1>0, <2>1 DEF UpTo
  <2>3. pc # "waiting" => clock' <= A
    BY <1>0, <2>1, Spent
  <2>4. PolicyOf(at)' = PolicyOf(at)
    BY <2>1, PolicyStays
  <2>5. CASE pc = "acting"
    <3>1. leaseAge <= (attempt - 1) * A + w(attempt) + clock
      BY <2>5 DEF LeaseInv
    <3>2. attempt - 1 \in Nat
      BY <1>0, <2>5 DEF AttemptInv
    <3>3. (attempt - 1) * A \in Nat /\ w(attempt) \in Nat
      BY <1>0, <2>5, <3>2, InHand, Spent DEF InStep
    <3>4. leaseAge' <= (attempt' - 1) * A + Waits(PolicyOf(at)')[attempt'] + clock'
      BY <1>0, <2>1, <2>2, <2>4, <3>1, <3>3
    <3> QED  BY <2>1, <2>3, <2>5, <3>4 DEF LeaseInv
  <2>6. CASE pc = "waiting"
    <3>1. leaseAge <= attempt * A + w(attempt) + clock
      BY <2>6 DEF LeaseInv
    <3>2. attempt * A \in Nat /\ w(attempt) \in Nat
      BY <1>0, <2>6, InHand, Spent DEF InStep
    <3>3. leaseAge' <= attempt' * A + Waits(PolicyOf(at)')[attempt'] + clock'
      BY <1>0, <2>1, <2>2, <2>4, <3>1, <3>2
    <3> QED  BY <2>1, <2>6, <3>3 DEF LeaseInv
  <2>7. CASE pc = "undoing"
    <3>1. leaseAge <= clock
      BY <2>7 DEF LeaseInv
    <3>2. leaseAge' <= clock'
      BY <1>0, <2>1, <2>2, <3>1
    <3> QED  BY <2>1, <2>3, <2>7, <3>2 DEF LeaseInv
  <2> QED  BY <2>1, <2>5, <2>6, <2>7
<1>8. ASSUME NEW i \in Steps, Undo(i)
      PROVE  LeaseInv'
  <2>1. pc = "next" /\ pc' = "undoing" /\ clock' = 0 /\ leaseAge' \in {0, leaseAge}
    BY <1>8 DEF Undo
  <2>2. leaseAge' = 0
    BY <2>1 DEF LeaseInv
  <2>3. 0 <= A
    BY Spent
  <2> QED  BY <2>1, <2>2, <2>3 DEF LeaseInv
<1>9. CASE UNCHANGED vars \/ Stop
  BY <1>1, <1>9 DEF vars, definition, timers, Stop
<1>10. ASSUME NEW s \in Menu, AddStep(s)
       PROVE  LeaseInv'
  BY <1>2, <1>10 DEF AddStep, timers, LeaseInv
<1>11. CASE Freeze \/ Execute
  BY <1>2, <1>11 DEF Freeze, Execute, timers, LeaseInv
<1>12. CASE Charge \/ StepDeadline \/ SagaDeadline \/ Cancel
  BY <1>1, <1>12 DEF Charge, StepDeadline, SagaDeadline, Cancel, EndContext, Rest,
                     definition, timers
<1>13. CASE GiveUpStep \/ WaitCut \/ ActionSucceeds \/ CompensateReturns
  BY <1>2, <1>13 DEF GiveUpStep, WaitCut, ActionSucceeds, CompensateReturns,
                     FailStep, Conclude, Renew
<1>14. CASE Complete \/ Abort \/ Settle \/ Crash
  BY <1>2, <1>14 DEF Complete, Abort, Settle, Crash, Renew
<1> QED
  BY <1>3, <1>4, <1>5, <1>6, <1>7, <1>8, <1>9, <1>10, <1>11, <1>12, <1>13, <1>14
     DEF Next, Build, Forward, Backward, Outside

\* What is spent and waited by an attempt is within the budget of the step.
LEMMA WithinBudget ==
  ASSUME CallInv, pc \in InStep, NEW m \in Nat, NEW n \in Nat, 1 <= n,
         m <= MaxAttempts(PolicyOf(at)), n <= MaxAttempts(PolicyOf(at))
  PROVE  /\ m * ActionTime + Waits(PolicyOf(at))[n] \in Nat
         /\ m * ActionTime + Waits(PolicyOf(at))[n] <= Budget(at)
         /\ Budget(at) \in Nat
<1> DEFINE p == PolicyOf(at)
           most == MaxAttempts(p)
<1>1. p \in Policies /\ most \in Nat
  BY InHand, PolicyIs DEF CallInv, ShapeInv
<1>2. m * ActionTime \in Nat /\ most * ActionTime \in Nat
      /\ m * ActionTime <= most * ActionTime
  BY <1>1, Spent
<1>3. Waits(p)[n] <= Waits(p)[most] /\ Waits(p)[n] \in Nat /\ Waits(p)[most] \in Nat
  BY <1>1, WaitsGrow, WaitsAre
<1>4. Budget(at) = most * ActionTime + Waits(p)[most]
  BY DEF Budget
<1> QED  BY <1>2, <1>3, <1>4

LEMMA LeaseIsEnough ==
  ASSUME CallInv, TypeInv, LeaseInv
  PROVE  LeaseOutlivesBudget
<1> SUFFICES ASSUME pc \in {"attempt", "acting", "waiting", "undoing"},
                    ActionTime < LockTTL, Budget(at) < LockTTL
             PROVE  leaseAge < LockTTL
  BY DEF LeaseOutlivesBudget
<1> DEFINE A == ActionTime
           p == PolicyOf(at)
           w(n) == Waits(p)[n]
           most == MaxAttempts(p)
<1>1. /\ clock \in Nat /\ leaseAge \in Nat /\ LockTTL \in Nat /\ A \in Nat
      /\ ShapeInv /\ AttemptInv /\ WaitInv
  BY CallsAssumption DEF CallInv, ShapeInv, TimeInv, TypeInv
<1>2. CASE pc = "undoing"
  BY <1>1, <1>2 DEF LeaseInv
<1>3. CASE pc \in InStep
  <2>1. p \in Policies /\ most \in Nat
    BY <1>1, <1>3, PolicyIs DEF ShapeInv, PhaseInv
  <2>2. \E m \in Nat, n \in Nat : /\ 1 <= n /\ m <= most /\ n <= most
                                  /\ leaseAge <= m * A + w(n)
    <3>1. CASE pc = "attempt"
      <4>1. leaseAge <= attempt * A + w(attempt + 1)
        BY <3>1 DEF LeaseInv
      <4>2. attempt \in Nat /\ attempt + 1 \in Nat /\ attempt + 1 <= most
        BY <1>1, <2>1, <3>1 DEF AttemptInv
      <4>3. 1 <= attempt + 1 /\ attempt <= most
        BY <2>1, <4>2
      <4> QED  BY <4>1, <4>2, <4>3
    <3>2. CASE pc = "acting"
      <4>1. leaseAge <= (attempt - 1) * A + w(attempt) + clock /\ clock <= A
        BY <3>2 DEF LeaseInv
      <4>2. attempt \in Nat /\ attempt - 1 \in Nat /\ 1 <= attempt /\ attempt <= most
        BY <1>1, <2>1, <3>2 DEF AttemptInv
      <4>3. attempt * A = (attempt - 1) * A + A /\ (attempt - 1) * A \in Nat
        <5>1. (attempt - 1) + 1 = attempt
          BY <4>2
        <5> QED  BY <4>2, <5>1, Spent
      <4>4. w(attempt) \in Nat
        BY <2>1, <4>2, WaitsAre
      <4>5. leaseAge <= attempt * A + w(attempt)
        BY <1>1, <4>1, <4>3, <4>4
      <4> QED  BY <4>2, <4>5
    <3>3. CASE pc = "waiting"
      <4>1. leaseAge <= attempt * A + w(attempt) + clock
        BY <3>3 DEF LeaseInv
      <4>2. attempt \in Nat /\ 1 <= attempt /\ attempt + 1 <= most
        BY <1>1, <2>1, <3>3 DEF AttemptInv
      <4>3. attempt + 1 \in Nat /\ 1 <= attempt + 1 /\ attempt + 1 >= 2
            /\ attempt <= most /\ (attempt + 1) - 1 = attempt
        BY <2>1, <4>2
      <4> DEFINE longest == LongestWait(p, attempt + 1)
      <4>4. longest \in Nat /\ delay <= longest /\ delay \in Int
            /\ (clock = 0 \/ clock <= delay)
        BY <1>1, <2>1, <3>3, <4>3, LongestWaitIs, DelaysFit, Bounds
           DEF WaitInv, Durations
      <4>5. w(attempt + 1) = w(attempt) + longest /\ w(attempt) \in Nat
            /\ attempt * A \in Nat
        BY <2>1, <4>2, <4>3, WaitsAre, Spent
      <4>6. leaseAge <= attempt * A + w(attempt + 1)
        BY <1>1, <4>1, <4>4, <4>5
      <4> QED  BY <4>2, <4>3, <4>6
    <3> QED  BY <1>3, <3>1, <3>2, <3>3 DEF InStep
  <2>3. PICK m \in Nat, n \in Nat : /\ 1 <= n /\ m <= most /\ n <= most
                                    /\ leaseAge <= m * A + w(n)
    BY <2>2
  <2>4. m * A + w(n) \in Nat /\ m * A + w(n) <= Budget(at) /\ Budget(at) \in Nat
    BY <1>3, <2>3, WithinBudget
  <2> QED  BY <1>1, <2>3, <2>4
<1> QED  BY <1>2, <1>3 DEF InStep

\* A lease that is long enough for the attempts and the waits of each step never
\* runs out while the call goes on.
THEOREM LeaseOutlives == Spec => []LeaseOutlivesBudget
<1>1. Init => LeaseInv
  BY DEF Init, LeaseInv
<1>2. CallInv /\ TypeInv /\ LeaseInv /\ [Next]_vars => LeaseInv'
  BY LeaseStep
<1>3. CallInv /\ TypeInv /\ LeaseInv => LeaseOutlivesBudget
  BY LeaseIsEnough
<1> QED  BY <1>1, <1>2, <1>3, CallAlways, TypeAlways, PTL DEF Spec

===============================================================================
