---------------------------- MODULE MCSagaObservers ---------------------------
(***************************************************************************)
(* Instances of SagaObservers for TLC.                                     *)
(***************************************************************************)
EXTENDS SagaObservers, TLC

===============================================================================
