------------------------------ MODULE RetryPolicy -----------------------------
(***************************************************************************)
(* How often a step is attempted, and how long the engine waits before the *)
(* next attempt (retry.go).  A duration is an integer of Width bits.       *)
(***************************************************************************)
EXTENDS Integers

CONSTANT Width    \* the bits of a time.Duration: 64 in the code

ASSUME WidthAssumption == Width \in Nat \ {0}

\* The powers of two, as a recursive function.
TwoTo[n \in Nat] == IF n = 0 THEN 1 ELSE 2 * TwoTo[n - 1]

Shortest == -TwoTo[Width - 1]
Longest == TwoTo[Width - 1] - 1
Durations == Shortest..Longest

\* What is left of x in Width bits.
Wrap(x) == ((x - Shortest) % TwoTo[Width]) + Shortest

Clamp(x, lo, hi) == IF x < lo THEN lo ELSE IF x > hi THEN hi ELSE x

\* What the constructors make; the jitter is in hundredths.
Policies ==
  [base : Durations, cap : Durations, attempts : Nat \ {0}, jitter : 0..100]

NoRetry == [base |-> 0, cap |-> 0, attempts |-> 1, jitter |-> 0]

ExponentialBackoff(base, maxDelay, n) ==
  [base |-> base, cap |-> maxDelay, attempts |-> IF n < 1 THEN 1 ELSE n,
   jitter |-> 0]

\* A constant delay is its own cap: it is never doubled.
FixedDelay(delay, n) == ExponentialBackoff(delay, delay, n)

\* The fraction is in hundredths.
WithJitter(p, fraction) == [p EXCEPT !.jitter = Clamp(fraction, 0, 100)]

MaxAttempts(p) == p.attempts

\* What rounds of the loop make of the base: the delay after j of them.
Rounds(p) ==
  LET d[j \in Nat] ==
        IF j = 0 THEN p.base
        ELSE LET delay == d[j - 1]
             IN IF delay >= p.cap THEN p.cap ELSE Wrap(2 * delay)
  IN d

\* Mutant: one doubling too many.
BackoffOnceMore(p, attempt) ==
  LET delay == Rounds(p)[attempt - 1]
  IN IF delay > p.cap THEN p.cap ELSE delay

\* The delay before an attempt, from the second on, without jitter.
Backoff(p, attempt) ==
  LET delay == Rounds(p)[attempt - 2]
  IN IF delay > p.cap THEN p.cap ELSE delay

\* The delay with jitter.  A float beyond the longest duration becomes what the
\* machine makes of it: the shortest or the longest.
Delays(p, attempt) ==
  LET delay == Backoff(p, attempt)
      least == (delay * (100 - p.jitter)) \div 100
      most == (delay * (100 + p.jitter)) \div 100
  IN IF delay <= 0 THEN {delay}
     ELSE {x \in least..most : x <= Longest}
            \cup (IF most > Longest THEN {Shortest, Longest} ELSE {})

===============================================================================
