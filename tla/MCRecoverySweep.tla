---------------------------- MODULE MCRecoverySweep ---------------------------
(***************************************************************************)
(* An instance of SweepProperties for TLC: three executions, which a sweep *)
(* comes to in the order 2, 1, 3.                                          *)
(***************************************************************************)
EXTENDS SweepProperties, TLC

MCCreated == 1 :> 1 @@ 2 :> 0 @@ 3 :> 1

\* Version 2 has no definition for the saga of 2, and a shorter one for that of 3.
MCDefinitions ==
  1 :> (1 :> 1 @@ 2 :> 1 @@ 3 :> 3)
    @@ 2 :> (1 :> 1 @@ 2 :> Unregistered @@ 3 :> 1)

===============================================================================
