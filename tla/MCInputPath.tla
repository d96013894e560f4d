---------------------------- MODULE MCInputPath ----------------------------
(***************************************************************************)
(* InputPath for TLC.  WebOps of each .cfg says which requests the         *)
(* operator makes in that run.                                             *)
(***************************************************************************)
EXTENDS InputPath, TLC

Symmetry == Permutations(Adapters) \cup Permutations(Clients)
=============================================================================
