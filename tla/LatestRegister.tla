--------------------------- MODULE LatestRegister ---------------------------
(***************************************************************************)
(* What a sink promises its player: the console is a register of the       *)
(* newest state.  States are numbered in the order they are offered; the   *)
(* console may miss some, but it never goes back to an earlier one, and it *)
(* never shows one that was not offered.  A new connection starts afresh.  *)
(***************************************************************************)
EXTENDS Naturals

VARIABLES newest,   \* number of the last state offered
          seen      \* number of the last state given to the console, 0 for none

Init == newest = 0 /\ seen = 0

Offer == newest' = newest + 1 /\ UNCHANGED seen

Give == seen' \in (seen + 1) .. newest /\ UNCHANGED newest

OfferAndGive == newest' = newest + 1 /\ seen' = newest'

Reset == seen' = 0 /\ UNCHANGED newest

Next == Offer \/ Give \/ OfferAndGive \/ Reset

Spec == Init /\ [][Next]_<<newest, seen>>
=============================================================================
