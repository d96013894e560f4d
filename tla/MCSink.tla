------------------------------- MODULE MCSink -------------------------------
(* Sink for TLC: one adapter, with few reports, lines, sessions and ticks. *)
EXTENDS Sink
=============================================================================
