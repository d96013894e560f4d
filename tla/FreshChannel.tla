---------------------------- MODULE FreshChannel ----------------------------
(***************************************************************************)
(* What the receive side of a session promises about the datagrams of one  *)
(* direction, without saying how: every counter is taken at most once, and *)
(* a counter that was never taken is refused only when it lies Window or   *)
(* more behind the newest one taken.  ReplayWindow implements this with a  *)
(* number and a bitmap (common/protocol.py, class ReplayWindow).           *)
(***************************************************************************)
EXTENDS Integers

CONSTANT Window      \* how far behind the newest counter is still considered

VARIABLES sent,      \* counters 0 .. sent-1 have left the sender
          accepted,  \* counters the receiver has taken
          verdict    \* the last datagram examined, what became of it, and a
                     \* bit that flips with every call, so that none stutters

vars == <<sent, accepted, verdict>>

NoVerdict == [seq |-> -1, fresh |-> FALSE, turn |-> 0]

Verdict(c, answer) == [seq |-> c, fresh |-> answer, turn |-> 1 - verdict.turn]

TypeOK == /\ sent \in Nat
          /\ accepted \subseteq 0 .. (sent - 1)
          /\ verdict \in [seq : Int, fresh : BOOLEAN, turn : {0, 1}]

Init == /\ sent = 0
        /\ accepted = {}
        /\ verdict = NoVerdict

Send == /\ sent' = sent + 1
        /\ UNCHANGED <<accepted, verdict>>

\* The whole promise: fresh means never taken before and not too old.
Fresh(c) == /\ c \notin accepted
            /\ \A a \in accepted : a - c < Window

Receive(c) == /\ verdict' = Verdict(c, Fresh(c))
              /\ accepted' = IF Fresh(c) THEN accepted \cup {c} ELSE accepted
              /\ UNCHANGED sent

Next == Send \/ \E c \in 0 .. (sent - 1) : Receive(c)

Spec == Init /\ [][Next]_vars
=============================================================================
