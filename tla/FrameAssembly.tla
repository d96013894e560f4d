---------------------------- MODULE FrameAssembly ----------------------------
(***************************************************************************)
(* How a picture crosses the network: _fan_out of videoserver/net.py cuts  *)
(* an encoded frame into slices, with one of parity when the path is       *)
(* lossy, and FrameAssembler of common/video.py puts them together again   *)
(* (class FrameAssembler, build_parity).                                   *)
(*                                                                         *)
(* The payload of a slice is a set of bytes, and XOR the bytes that are in *)
(* an odd number of operands.  All slices of a frame are full but the      *)
(* last, which may be short: padded for the parity, it is cut to its       *)
(* length again.  Frame numbers do not wrap: it takes 2^31 frames.         *)
(***************************************************************************)
EXTENDS Integers, FiniteSets

CONSTANT Missing    \* a slice, or a frame, that is not there

VARIABLES
    asm,         \* the assembler: the frame in progress, or the last one delivered
    complete,    \* frames_complete
    handed,      \* what add returned last: CompletedFrame
    gap          \* gap_detected, read after every add: it gave up a frame

assembler == <<asm, complete, handed, gap>>

InitAssembler ==
    /\ asm = [id |-> 0, started |-> FALSE, delivered |-> FALSE, total |-> 0, fec |-> FALSE,
              slices |-> <<>>]
    /\ complete = 0
    /\ handed = Missing
    /\ gap = FALSE

-----------------------------------------------------------------------------
(* The sender.  A frame f has n data slices, numbered from 0. *)

Frames == [id : Nat, n : Nat \ {0}, short : BOOLEAN, fec : BOOLEAN]

Payload(f, i) == [bytes |-> {<<f.id, i>>}, short |-> f.short /\ i = f.n - 1]

\* build_parity: the XOR of all data slices, headed by the length of the last one.
Parity(f) == [bytes |-> {<<f.id, i>> : i \in 0 .. (f.n - 1)}, short |-> f.short]

Total(f) == IF f.fec THEN f.n + 1 ELSE f.n

\* encode_video_slice_into.
Slice(f, i) ==
    [id |-> f.id, index |-> i, total |-> Total(f), fec |-> f.fec,
     chunk |-> IF i = f.n THEN Parity(f) ELSE Payload(f, i)]

\* The frame's bytes.
Data(f) == [i \in 0 .. (f.n - 1) |-> Payload(f, i)]

-----------------------------------------------------------------------------
(* The receiver.  s is a slice that has arrived. *)

seq_newer(a, b) == a > b

Begun(s) ==
    [id |-> s.id, started |-> TRUE, delivered |-> FALSE, total |-> s.total, fec |-> s.fec,
     slices |-> [i \in 0 .. (s.total - 1) |-> Missing]]

\* Mutant: a straggler of the frame just delivered starts it again.
StaleInProgress(s) == asm.started /\ s.id # asm.id /\ ~ seq_newer(s.id, asm.id)

\* A straggler of a frame given up or delivered.
Stale(s) ==
    /\ ~ seq_newer(s.id, asm.id)
    /\ IF asm.started THEN s.id # asm.id ELSE asm.delivered

\* Mutant: a newer frame goes on in the slices of the one abandoned.
JoinedKeeping(s) ==
    IF asm.started /\ s.total = asm.total THEN [asm EXCEPT !.id = s.id, !.fec = s.fec]
    ELSE Begun(s)

\* The frame in progress, or a newer one: whatever was in progress is abandoned.
Joined(s) == IF asm.started /\ s.id = asm.id THEN asm ELSE Begun(s)

\* A duplicate changes nothing.
Absorbed(s) == [Joined(s) EXCEPT !.slices[s.index] = IF @ = Missing THEN s.chunk ELSE @]

DataCount(a) == IF a.fec THEN a.total - 1 ELSE a.total
Lost(a) == {i \in 0 .. (DataCount(a) - 1) : a.slices[i] = Missing}

\* The XOR of a's slices numbered in J.
Xor(a, J) ==
    {b \in UNION {a.slices[j].bytes : j \in J} :
        Cardinality({j \in J : b \in a.slices[j].bytes}) % 2 = 1}

\* _recover: the parity and the survivors give the slice that is missing.
Recover(a, i) ==
    [bytes |-> Xor(a, (0 .. DataCount(a)) \ {i}),
     short |-> a.slices[DataCount(a)].short /\ i = DataCount(a) - 1]

CanRecover(a) == a.fec /\ Cardinality(Lost(a)) = 1 /\ a.slices[DataCount(a)] # Missing

\* _assemble.
Assembled(a) ==
    [i \in 0 .. (DataCount(a) - 1) |-> IF a.slices[i] = Missing THEN Recover(a, i)
                                       ELSE a.slices[i]]

\* add, and the gap_detected after it.
Add(s) ==
    /\ gap' = (~ Stale(s) /\ asm.started /\ s.id # asm.id)
    /\ IF Stale(s)
       THEN UNCHANGED <<asm, complete, handed>>
       ELSE LET a == Absorbed(s)
            IN  IF Lost(a) = {} \/ CanRecover(a)
                THEN /\ handed' = [id |-> a.id, data |-> Assembled(a)]
                     /\ complete' = complete + 1
                     /\ asm' = [a EXCEPT !.started = FALSE, !.delivered = TRUE, !.slices = <<>>]
                ELSE /\ asm' = a
                     /\ UNCHANGED <<complete, handed>>
=============================================================================
