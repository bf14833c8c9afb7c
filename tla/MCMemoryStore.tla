---------------------------- MODULE MCMemoryStore -----------------------------
(***************************************************************************)
(* Instances of MemoryStore for TLC.                                       *)
(***************************************************************************)
EXTENDS MemoryStore
CONSTANTS c1, c2, x
===============================================================================
