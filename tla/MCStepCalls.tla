------------------------------ MODULE MCStepCalls -----------------------------
(***************************************************************************)
(* An instance of StepProperties for TLC: up to three steps, one of which  *)
(* is named after the compensation of another, while AddStep refuses a     *)
(* second "charge" and a blank name.  The delays of "ship" pass the        *)
(* longest duration, by doubling and by jitter.                            *)
(***************************************************************************)
EXTENDS StepProperties

Named(name, policy, compensable, timeout) ==
  [name |-> name, policy |-> policy, compensable |-> compensable,
   timeout |-> timeout]

MCMenu ==
  {Named(<<"charge">>, Unset, TRUE, 0),
   Named(<<"charge", "compensate">>,
         WithJitter(ExponentialBackoff(1, 4, 4), 50), FALSE, 1),
   Named(<<"ship">>, WithJitter(ExponentialBackoff(4, 7, 3), 100), TRUE, 2),
   Named(<<"charge">>, ExponentialBackoff(-3, 4, 4), FALSE, 2),
   Named(<<>>, NoRetry, FALSE, 0)}

\* A policy whose cap is nearly the longest duration, with no jitter.
MCPatientMenu ==
  {Named(<<"ship">>, ExponentialBackoff(4, 7, 3), FALSE, 0)}

MCSagaPolicy == FixedDelay(1, 2)

===============================================================================
