----------------------------- MODULE MCSyncLatency -----------------------------
(***************************************************************************)
(* SyncLatency for TLC.  The ways are such that a difference is below the  *)
(* deadband, within it and above every ceiling.                            *)
(***************************************************************************)
EXTENDS SyncLatency
=============================================================================
