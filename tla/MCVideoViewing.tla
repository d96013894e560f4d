--------------------------- MODULE MCVideoViewing ---------------------------
(***************************************************************************)
(* VideoViewing for TLC: one place where the source may be, since an older *)
(* advert is one of an offer withdrawn meanwhile, and two receivers, so    *)
(* that one may be at its handshake when the next starts.                  *)
(***************************************************************************)
EXTENDS VideoViewing
=============================================================================
