---------------------------- MODULE ReplayWindow ----------------------------
(***************************************************************************)
(* The receive side of one direction of an encrypted session: the sender's *)
(* datagram counter (common/crypto.py, SessionCrypto.encrypt), a network   *)
(* that loses, duplicates and reorders, and the sliding-window detector    *)
(* that decides which datagrams are processed (common/protocol.py, class   *)
(* ReplayWindow).  Every INPUT, CONTROL and HEARTBEAT passes through it.   *)
(*                                                                         *)
(* The bitmap is modelled as the set of ages (distances behind highest)    *)
(* whose bit is set; bit 0 is highest itself.                              *)
(***************************************************************************)
EXTENDS Integers

CONSTANTS Window,     \* ReplayWindow.WINDOW: 64 in the code
          SeqHalf,    \* _SEQ_HALF: 2^31 in the code
          MaxSent     \* bound: how many datagrams one run sends

ASSUME WindowAssumption == Window \in Nat \ {0}
ASSUME SeqAssumption == SeqHalf \in Nat /\ Window < SeqHalf
ASSUME MaxSentAssumption == MaxSent \in Nat

SeqModulus == 2 * SeqHalf

VARIABLES sent,      \* SessionCrypto.send_counter of the sender
          highest,   \* ReplayWindow._highest, -1 before the first datagram
          bitmap,    \* ReplayWindow._bitmap
          accepted,  \* history: counters check_and_update returned True for
          verdict    \* history: the last call's argument and answer, and a bit
                     \* that flips with every call

vars == <<sent, highest, bitmap, accepted, verdict>>

Init == /\ sent = 0
        /\ highest = -1
        /\ bitmap = {}
        /\ accepted = {}
        /\ verdict = [seq |-> -1, fresh |-> FALSE, turn |-> 0]

-----------------------------------------------------------------------------
seq_is_newer(candidate, reference) ==
    LET distance == (candidate - reference) % SeqModulus
    IN  0 < distance /\ distance < SeqHalf

Verdict(seq, answer) ==
    [seq |-> seq, fresh |-> answer, turn |-> 1 - verdict.turn]

\* Mutant: the window shifts by one too few.
ShiftedOneShort(shift) ==
    IF shift >= Window THEN {0}
    ELSE {0} \cup {age \in 0 .. (Window - 1) : age - shift + 1 \in bitmap}

\* self._bitmap << shift, or just the new bit when the whole window moved on.
Shifted(shift) ==
    IF shift >= Window THEN {0}
    ELSE {0} \cup {age \in 0 .. (Window - 1) : age - shift \in bitmap}

Took(seq, newHighest, newBitmap) ==
    /\ highest' = newHighest
    /\ bitmap' = newBitmap
    /\ accepted' = accepted \cup {seq}
    /\ verdict' = Verdict(seq, TRUE)

Refused(seq) ==
    /\ verdict' = Verdict(seq, FALSE)
    /\ UNCHANGED <<highest, bitmap, accepted>>

\* One branch per early return of check_and_update, in the code's order.
CheckFirst(seq) == highest < 0 /\ Took(seq, seq, {0})

CheckNewer(seq) ==
    /\ highest >= 0 /\ seq # highest
    /\ seq_is_newer(seq, highest)
    /\ Took(seq, seq, Shifted((seq - highest) % SeqModulus))

CheckOlder(seq) ==
    LET age == (highest - seq) % SeqModulus
    IN  /\ highest >= 0 /\ seq # highest
        /\ ~ seq_is_newer(seq, highest)
        /\ IF age >= Window \/ age \in bitmap
           THEN Refused(seq)
           ELSE Took(seq, highest, bitmap \cup {age})

CheckEqual(seq) == highest >= 0 /\ seq = highest /\ Refused(seq)

check_and_update(seq) == \/ CheckFirst(seq) \/ CheckEqual(seq)
                         \/ CheckNewer(seq) \/ CheckOlder(seq)

-----------------------------------------------------------------------------
(* The sender's counter runs ahead of the receiver by less than SeqHalf: a *)
(* session silent for SESSION_TIMEOUT_S (10 s) is dropped by both ends,    *)
(* and nothing sends 2^31 datagrams in that time.                          *)
Send == /\ sent < MaxSent
        /\ sent - highest < SeqHalf
        /\ sent' = sent + 1
        /\ UNCHANGED <<highest, bitmap, accepted, verdict>>

(* The network hands over any datagram of the session, any number of times *)
(* and in any order, while it is less than SeqHalf behind the newest one   *)
(* taken (at 1000 datagrams a second SeqHalf of them take 24 days).        *)
Deliver(seq) == /\ highest - seq < SeqHalf
                /\ check_and_update(seq)
                /\ UNCHANGED sent

Next == Send \/ \E seq \in 0 .. (sent - 1) : Deliver(seq)

Spec == Init /\ [][Next]_vars

-----------------------------------------------------------------------------
TypeOK == /\ sent \in Nat
          /\ highest \in -1 .. (sent - 1)
          /\ bitmap \subseteq 0 .. (Window - 1)
          /\ accepted \subseteq 0 .. (sent - 1)
          /\ verdict \in [seq : Int, fresh : BOOLEAN, turn : {0, 1}]

\* The bitmap remembers exactly the accepted counters that are still inside
\* the window, and highest is the newest of them: shifting, masking and the
\* out-of-order bit of check_and_update lose none and invent none.
BitmapIsHistory ==
    /\ \A a \in accepted : a <= highest
    /\ highest >= 0 => highest \in accepted
    /\ bitmap = {age \in 0 .. (Window - 1) : highest - age \in accepted}

\* The step of a call that answers True is taken for a new counter only.
TakesOnlyNew ==
    verdict' # verdict /\ verdict'.fresh => verdict'.seq \notin accepted

\* No datagram is processed twice: check_and_update answers True at most once
\* for a counter, whatever was duplicated or reordered on the way.
NeverTwice == [][TakesOnlyNew]_vars

\* The number-and-bitmap detector implements the promise of FreshChannel: at
\* most once, and nothing inside the window is refused without reason.
Channel == INSTANCE FreshChannel
ImplementsFreshChannel == Channel!Spec
=============================================================================
