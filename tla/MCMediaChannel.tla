--------------------------- MODULE MCMediaChannel ---------------------------
(***************************************************************************)
(* MediaChannel for TLC.  Shapes: protected frames whose first or short    *)
(* last slice may have to be rebuilt, and an unprotected one.  The window, *)
(* the half of the counter space and the number of datagrams are scaled    *)
(* down together, so that one run slides the window and jumps over it.     *)
(***************************************************************************)
EXTENDS MediaChannel

MCShapes == {[n |-> 1, short |-> TRUE, fec |-> FALSE], [n |-> 2, short |-> TRUE, fec |-> TRUE], [n |-> 2, short |-> FALSE, fec |-> FALSE]}
=============================================================================
