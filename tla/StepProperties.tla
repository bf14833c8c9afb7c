---------------------------- MODULE StepProperties ----------------------------
(***************************************************************************)
(* What the steps of a saga, and what they call, may expect of the engine. *)
(***************************************************************************)
EXTENDS StepCalls

\* However often a step is attempted, in one call or after a crash, downstream
\* carries each operation out at most once: all its attempts bear the same key
\* (idempotency.go:12-28).
OncePerOperation == \A op \in Operations : carried[op] <= 1

\* Another step is named after the compensation of i.
KeyTaken(i) == \E j \in Steps : defn[j].name = Append(defn[i].name, "compensate")

\* A step that the record says succeeded was carried out downstream, and one
\* that it says was compensated was undone there, unless another step bears the
\* key of its compensation (idempotency.go:43-59).
ReportedIsDone ==
  \A i \in DOMAIN steps :
    /\ steps[i] \in {"SUCCEEDED", "COMPENSATING", "COMPENSATED",
                     "COMPENSATION_FAILED"} => carried[<<i, "do">>] = 1
    /\ steps[i] = "COMPENSATED" /\ ~KeyTaken(i) => carried[<<i, "undo">>] = 1

\* No success counts that came after the saga's deadline or after that of the
\* attempt, except that an attempt has none any more once the caller cancelled
\* (execute.go:290-306, 336-345).
Timely ==
  [][\A i \in DOMAIN steps :
       steps[i] = "RUNNING" /\ steps'[i] = "SUCCEEDED" =>
         /\ cause # "sagaTimeout"
         /\ \/ defn[i].timeout = 0 \/ clock <= defn[i].timeout
            \/ cause = "cancelled"]_vars

\* What the delay before an attempt is meant to be, over all the integers.
IdealBackoff(p, k) ==
  LET doubled == p.base * TwoTo[k - 2]
  IN IF doubled > p.cap THEN p.cap ELSE doubled

\* A delay below the cap is doubled past the longest duration.
Overflows(p, k) ==
  \E j \in 1..(k - 2) :
    /\ p.base * TwoTo[j - 1] < p.cap
    /\ p.base * TwoTo[j] > Longest

\* The loop computes the capped doubling of every base, whatever the cap, as
\* long as no doubling below the cap passes the longest duration
\* (retry.go:64-78).
BackoffIsExact ==
  defn = <<>> /\ pc = "build" =>
    \A base \in 0..Longest, maxDelay \in Durations, k \in 2..(Width + 2) :
      LET p == ExponentialBackoff(base, maxDelay, 1)
      IN ~Overflows(p, k) => Backoff(p, k) = IdealBackoff(p, k)

\* The engine never starts an attempt before the delay of its policy, less the
\* jitter, has passed since the attempt before, unless the delay is beyond the
\* longest duration with its doublings or its jitter (execute.go:307-313,
\* retry.go:98-110).
AttemptsSpaced ==
  [][pc = "attempt" /\ pc' = "acting" /\ attempt > 0 =>
       LET p == PolicyOf(at)
           ideal == IdealBackoff(p, attempt + 1)
       IN \/ Overflows(p, attempt + 1)
          \/ ideal * (100 + p.jitter) > 100 * Longest
          \/ clock >= (ideal * (100 - p.jitter)) \div 100]_vars

\* The longest wait before the k-th attempt.  Doubled often enough, a negative
\* base wraps to any delay up to the cap.
LongestWait(p, k) ==
  LET ideal == IF p.base < 0 THEN p.cap ELSE IdealBackoff(p, k)
  IN IF ideal <= 0 THEN 0 ELSE (ideal * (100 + p.jitter)) \div 100

\* All the waits before the n-th attempt.
Waits(p) ==
  LET w[n \in Nat] == IF n < 2 THEN 0 ELSE w[n - 1] + LongestWait(p, n)
  IN w

\* The time between the saves that begin and end a step: its attempts and the
\* waits between them.
Budget(i) ==
  LET p == PolicyOf(i)
  IN MaxAttempts(p) * ActionTime + Waits(p)[MaxAttempts(p)]

\* A lease whose TTL is above the budget of each step, waits included, is never
\* let run out by a call that goes on (execute.go:591-602, README.md:203-210).
LeaseOutlivesBudget ==
  pc \in {"attempt", "acting", "waiting", "undoing"} /\ ActionTime < LockTTL =>
    (Budget(at) < LockTTL => leaseAge < LockTTL)

-------------------------------------------------------------------------------
(***************************************************************************)
(* Statements of the comments that the code does not keep: see the README  *)
(* for what refutes them.                                                  *)
(***************************************************************************)

\* "Action and Compensate are different real-world operations ... and must
\* never be mistaken for the same idempotent request" (idempotency.go:54-56):
\* what the record says was compensated was undone, whatever the steps' names.
CompensatedIsUndone ==
  \A i \in DOMAIN steps :
    steps[i] = "COMPENSATED" => carried[<<i, "undo">>] = 1

\* "attempt 2's delay is base; each attempt after that doubles it, capped at
\* maxDelay" (retry.go:66-67): no attempt comes earlier, less the jitter.
DelaysAreKept ==
  [][pc = "attempt" /\ pc' = "acting" /\ attempt > 0 =>
       LET p == PolicyOf(at)
       IN clock >= (IdealBackoff(p, attempt + 1) * (100 - p.jitter)) \div 100]_vars

===============================================================================
