-------------------------- MODULE MCAdapterManager --------------------------
(***************************************************************************)
(* AdapterManager for TLC.  WebOps leaves out the operator's own rescan,   *)
(* which ends the watcher when it meets a pass (README, section 6).        *)
(***************************************************************************)
EXTENDS AdapterManager
=============================================================================
