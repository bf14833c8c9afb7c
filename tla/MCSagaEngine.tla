----------------------------- MODULE MCSagaEngine -----------------------------
(***************************************************************************)
(* Instances of SagaProperties for TLC.                                    *)
(***************************************************************************)
EXTENDS SagaProperties, TLC

Permuted == Permutations(Workers)

===============================================================================
