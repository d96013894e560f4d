---------------------------- MODULE MediaChannel ----------------------------
(***************************************************************************)
(* The video of one viewer: the slices of FrameAssembly, sent as the       *)
(* datagrams of a ReplayWindow session, over a network that loses,         *)
(* duplicates and reorders them.                                           *)
(***************************************************************************)
EXTENDS ReplayWindow, FrameAssembly, Sequences

CONSTANT MaxFrames,    \* bound: frames sent
         Shapes        \* what frames there are: how many slices, the last one
                       \* short or not, protected or not

ASSUME MediaAssumption ==
    /\ MaxFrames \in Nat
    /\ Shapes \subseteq [n : Nat \ {0}, short : BOOLEAN, fec : BOOLEAN]

VARIABLES
    frames,   \* those sent or being sent, the one with frame_id i at i + 1
    index,    \* the next slice of the last one
    wire      \* history: the slice each datagram carries

media == <<frames, index, wire>>

MediaInit == Init /\ InitAssembler /\ frames = <<>> /\ index = 0 /\ wire = <<>>

Last == frames[Len(frames)]

\* _fan_out takes the next frame ...
NextFrame(shape) ==
    /\ Len(frames) < MaxFrames
    /\ frames # <<>> => index = Total(Last)
    /\ frames' = Append(frames, [id |-> Len(frames), n |-> shape.n, short |-> shape.short,
                                 fec |-> shape.fec])
    /\ index' = 0
    /\ UNCHANGED <<vars, assembler, wire>>

\* ... and sends its slices in order.
SendSlice ==
    /\ frames # <<>> /\ index < Total(Last)
    /\ Send
    /\ wire' = Append(wire, Slice(Last, index))
    /\ index' = index + 1
    /\ UNCHANGED <<assembler, frames>>

\* A datagram that check_and_update takes is given to the assembler.
Receive(c) ==
    /\ Deliver(c)
    /\ IF verdict'.fresh THEN Add(wire[c + 1]) ELSE UNCHANGED assembler
    /\ UNCHANGED media

MediaNext ==
    \/ \E shape \in Shapes : NextFrame(shape)
    \/ SendSlice
    \/ \E c \in 0 .. (sent - 1) : Receive(c)

mediaVars == <<vars, assembler, media>>

MediaSpec == MediaInit /\ [][MediaNext]_mediaVars

-----------------------------------------------------------------------------
\* Whatever is handed to the decoder is, byte for byte, one frame of the source:
\* never slices of two frames, and rebuilt from the parity without its padding.
FramesAreWhole ==
    handed # Missing => \E k \in DOMAIN frames : frames[k].id = handed.id /\ handed.data = Data(frames[k])

\* The decoder sees every frame at most once and none after a later one, whatever
\* order the slices arrive in.
DeliveredInOrder ==
    [][complete' # complete => handed = Missing \/ handed'.id > handed.id]_mediaVars
=============================================================================
