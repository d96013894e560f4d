------------------------- MODULE MediaChannel_proofs -------------------------
(***************************************************************************)
(* That the decoder is given whole frames, each once and none after a      *)
(* later one, for frames of any number of slices, over a network that does *)
(* to the datagrams whatever it likes; and what the replay window below    *)
(* them keeps, alone and when it carries a stream.                         *)
(***************************************************************************)
EXTENDS MediaChannel, FiniteSetTheorems, TLAPS

-----------------------------------------------------------------------------
(* The replay window, for every window and every size of the counter space:  *)
(* the bitmap is exactly the recent history, no datagram is processed        *)
(* twice, and the detector implements FreshChannel.                          *)

\* The sender is never more than SeqHalf ahead of the receiver.
Lead == sent - highest <= SeqHalf

IInv == TypeOK /\ BitmapIsHistory /\ Lead

\* The modular distance of two counters less than SeqHalf apart is their
\* difference, wrapped once when it is negative.
LEMMA Distance ==
    ASSUME NEW d \in Int, -SeqHalf < d, d <= SeqHalf
    PROVE  d % SeqModulus = IF d >= 0 THEN d ELSE d + SeqModulus
<1>1. CASE d >= 0
  BY <1>1, SeqAssumption, WindowAssumption DEF SeqModulus
<1>2. CASE d < 0
  BY <1>2, SeqAssumption, WindowAssumption DEF SeqModulus
<1> QED BY <1>1, <1>2

\* Within the distances the network keeps, a counter is newer exactly when it
\* is larger, a newer one's shift is the difference, and an older one's age is
\* the difference.
LEMMA Order ==
    ASSUME NEW c \in Int, NEW h \in Int, c - h <= SeqHalf - 1, h - c < SeqHalf
    PROVE  /\ seq_is_newer(c, h) <=> c > h
           /\ c > h => (c - h) % SeqModulus = c - h
           /\ c <= h => (h - c) % SeqModulus = h - c
<1>1. (c - h) % SeqModulus = IF c - h >= 0 THEN c - h ELSE c - h + SeqModulus
  BY Distance, SeqAssumption
<1>2. c <= h => (h - c) % SeqModulus = h - c
  BY Distance, SeqAssumption
<1> QED BY <1>1, <1>2, SeqAssumption, WindowAssumption DEF seq_is_newer, SeqModulus

\* A refusal keeps the history, and is right when FreshChannel refuses too.
LEMMA RefusedStep ==
    ASSUME IInv, NEW seq \in 0 .. (sent - 1), Refused(seq), sent' = sent,
           ~ Channel!Fresh(seq)
    PROVE  /\ IInv'
           /\ verdict' = Verdict(seq, Channel!Fresh(seq))
           /\ accepted' = IF Channel!Fresh(seq) THEN accepted \cup {seq} ELSE accepted
<1>1. Channel!Fresh(seq) = FALSE
  BY DEF Channel!Fresh
<1>2. verdict' \in [seq : Int, fresh : BOOLEAN, turn : {0, 1}]
  BY DEF Refused, Verdict, IInv, TypeOK
<1>3. IInv'
  BY <1>2 DEF Refused, IInv, TypeOK, BitmapIsHistory, Lead
<1> QED BY <1>1, <1>3 DEF Refused

\* What one call does to the inductive invariant, and what it answers: fresh
\* exactly when FreshChannel says so.
LEMMA CheckStep ==
    ASSUME IInv,
           NEW seq \in 0 .. (sent - 1), Deliver(seq)
    PROVE  /\ IInv'
           /\ verdict' = Verdict(seq, Channel!Fresh(seq))
           /\ accepted' = IF Channel!Fresh(seq) THEN accepted \cup {seq} ELSE accepted
<1> USE WindowAssumption, SeqAssumption
<1>0. /\ seq - highest <= SeqHalf - 1
      /\ highest - seq < SeqHalf
  BY DEF Deliver, IInv, TypeOK, Lead
<1>1. /\ seq_is_newer(seq, highest) <=> seq > highest
      /\ seq > highest => (seq - highest) % SeqModulus = seq - highest
      /\ seq <= highest => (highest - seq) % SeqModulus = highest - seq
  BY <1>0, Order DEF IInv, TypeOK
<1>2. CASE CheckFirst(seq)
  <2>1. accepted = {}
    BY <1>2 DEF CheckFirst, IInv, TypeOK, BitmapIsHistory, Lead
  <2>2. Channel!Fresh(seq)
    BY <2>1 DEF Channel!Fresh
  <2> QED BY <1>2, <2>1, <2>2 DEF CheckFirst, Took, Verdict, Deliver, IInv, TypeOK, BitmapIsHistory, Lead
<1>3. CASE CheckEqual(seq)
  <2>1. ~ Channel!Fresh(seq)
    BY <1>3 DEF CheckEqual, IInv, BitmapIsHistory, Channel!Fresh
  <2> QED BY <1>3, <2>1, RefusedStep DEF CheckEqual, Deliver
<1>4. CASE CheckNewer(seq)
  <2>1. seq > highest /\ highest >= 0
    BY <1>1, <1>4 DEF CheckNewer
  <2>2. Channel!Fresh(seq)
    BY <2>1 DEF Channel!Fresh, IInv, TypeOK, BitmapIsHistory, Lead
  <2>3. bitmap' = {age \in 0 .. (Window - 1) : seq - age \in accepted \cup {seq}}
    <3>1. bitmap' = Shifted(seq - highest)
      BY <1>1, <1>4, <2>1 DEF CheckNewer, Took
    <3>2. ASSUME NEW age \in 0 .. (Window - 1)
          PROVE  age \in Shifted(seq - highest) <=> seq - age \in accepted \cup {seq}
      BY <2>1 DEF Shifted, IInv, TypeOK, BitmapIsHistory, Lead
    <3>3. Shifted(seq - highest) \subseteq 0 .. (Window - 1)
      BY DEF Shifted
    <3> QED BY <3>1, <3>2, <3>3
  <2>4. TypeOK'
    BY <1>4, <2>1, <2>3 DEF CheckNewer, Took, Verdict, Deliver, IInv, TypeOK
  <2>5. BitmapIsHistory' /\ Lead'
    BY <1>4, <2>1, <2>3 DEF CheckNewer, Took, Deliver, IInv, TypeOK, BitmapIsHistory, Lead
  <2> QED BY <1>4, <2>2, <2>4, <2>5 DEF CheckNewer, Took, Verdict, IInv
<1>5. CASE CheckOlder(seq)
  <2>1. seq < highest /\ highest >= 0 /\ (highest - seq) % SeqModulus = highest - seq
    BY <1>1, <1>5 DEF CheckOlder, IInv, TypeOK
  <2>2. highest \in accepted /\ \A a \in accepted : a <= highest
    BY <2>1 DEF IInv, BitmapIsHistory
  <2>3. CASE highest - seq >= Window \/ highest - seq \in bitmap
    <3>1. ~ Channel!Fresh(seq)
      BY <2>1, <2>2, <2>3 DEF Channel!Fresh, IInv, TypeOK, BitmapIsHistory, Lead
    <3>2. Refused(seq)
      BY <1>5, <2>1, <2>3 DEF CheckOlder
    <3> QED BY <3>1, <3>2, RefusedStep DEF Deliver
  <2>4. CASE ~ (highest - seq >= Window \/ highest - seq \in bitmap)
    <3>1. Channel!Fresh(seq)
      BY <2>1, <2>2, <2>4 DEF Channel!Fresh, IInv, TypeOK, BitmapIsHistory, Lead
    <3>2. Took(seq, highest, bitmap \cup {highest - seq})
      BY <1>5, <2>1, <2>4 DEF CheckOlder
    <3> QED BY <2>1, <2>2, <2>4, <3>1, <3>2 DEF Took, Verdict, Deliver, IInv, TypeOK, BitmapIsHistory, Lead
  <2> QED BY <2>3, <2>4
<1> QED BY <1>2, <1>3, <1>4, <1>5 DEF Deliver, check_and_update

LEMMA SendStep == IInv /\ Send => IInv'
  BY WindowAssumption, SeqAssumption
     DEF Send, IInv, TypeOK, BitmapIsHistory, Lead

LEMMA Initially == Init => IInv
  BY WindowAssumption, SeqAssumption
     DEF Init, IInv, TypeOK, BitmapIsHistory, Lead

LEMMA Unchanged == IInv /\ UNCHANGED vars => IInv'
  BY DEF vars, IInv, TypeOK, BitmapIsHistory, Lead

LEMMA Inductive == Spec => []IInv
<1>1. IInv /\ [Next]_vars => IInv'
  BY SendStep, CheckStep, Unchanged DEF Next
<1> QED BY <1>1, Initially, PTL DEF Spec

\* The detector's state keeps its type: ages stay inside the window and the
\* newest counter taken was really sent.
THEOREM TypeCorrect == Spec => []TypeOK
  BY Inductive, PTL DEF IInv

\* ReplayWindow._bitmap is exactly the history of the last Window counters.
THEOREM BitmapExact == Spec => []BitmapIsHistory
  BY Inductive, PTL DEF IInv

\* check_and_update never answers True a second time for a counter: duplicated
\* INPUT, CONTROL and HEARTBEAT datagrams are processed once.
THEOREM AtMostOnce == Spec => NeverTwice
<1>1. IInv /\ [Next]_vars => [TakesOnlyNew]_vars
  <2> SUFFICES ASSUME IInv, Next PROVE TakesOnlyNew
    BY DEF vars, TakesOnlyNew
  <2>1. CASE Send
    BY <2>1 DEF Send, TakesOnlyNew
  <2>2. ASSUME NEW seq \in 0 .. (sent - 1), Deliver(seq) PROVE TakesOnlyNew
    <3>1. verdict' = Verdict(seq, Channel!Fresh(seq))
      BY <2>2, CheckStep
    <3>2. verdict'.seq = seq /\ verdict'.fresh = Channel!Fresh(seq)
      BY <3>1 DEF Verdict
    <3>3. Channel!Fresh(seq) => seq \notin accepted
      BY DEF Channel!Fresh
    <3> QED BY <3>2, <3>3 DEF TakesOnlyNew
  <2> QED BY <2>1, <2>2 DEF Next
<1> QED BY <1>1, Inductive, PTL DEF NeverTwice, Spec

\* The number-and-bitmap detector implements FreshChannel: nothing twice, and
\* nothing refused that is new and inside the window.
THEOREM Implements == Spec => ImplementsFreshChannel
<1>1. Init => Channel!Init
  BY DEF Init, Channel!Init, Channel!NoVerdict
<1>2. IInv /\ [Next]_vars => [Channel!Next]_Channel!vars
  <2> SUFFICES ASSUME IInv, [Next]_vars PROVE [Channel!Next]_Channel!vars
    OBVIOUS
  <2>1. CASE Send
    BY <2>1 DEF Send, Channel!Next, Channel!Send
  <2>2. ASSUME NEW seq \in 0 .. (sent - 1), Deliver(seq) PROVE Channel!Next
    <3>1. Channel!Receive(seq)
      BY <2>2, CheckStep DEF Channel!Receive, Channel!Verdict, Verdict, Deliver
    <3> QED BY <3>1 DEF Channel!Next
  <2>3. CASE UNCHANGED vars
    BY <2>3 DEF vars, Channel!vars
  <2> QED BY <2>1, <2>2, <2>3 DEF Next
<1> QED BY <1>1, <1>2, Inductive, PTL DEF Spec, Channel!Spec, ImplementsFreshChannel

-----------------------------------------------------------------------------
(* Frames over it.                                                         *)

Chunks == [bytes : SUBSET (Nat \X Nat), short : BOOLEAN]

Slices == [id : Nat, index : Nat, total : Nat, fec : BOOLEAN, chunk : Chunks]

Assemblies(f) ==
    [id : Nat, started : BOOLEAN, delivered : BOOLEAN, total : Nat, fec : BOOLEAN,
     slices : [0 .. (Total(f) - 1) -> Chunks \cup {Missing}]]

\* a is the frame f, as far as its slices have come.
PartOf(a, f) ==
    /\ a \in Assemblies(f)
    /\ a.id = f.id /\ a.total = Total(f) /\ a.fec = f.fec
    /\ \A i \in 0 .. (Total(f) - 1) : a.slices[i] # Missing => a.slices[i] = Slice(f, i).chunk

\* The frames are numbered as they are taken, and a datagram carries a slice of one.
FramesInv ==
    /\ frames \in Seq(Frames)
    /\ \A k \in DOMAIN frames : frames[k].id = k - 1

IndexInv == index \in Nat /\ sent \in Nat

WireInv ==
    /\ wire \in Seq(Slices)
    /\ Len(wire) = sent
    /\ \A j \in DOMAIN wire : \E k \in DOMAIN frames :
          \E i \in 0 .. (Total(frames[k]) - 1) : wire[j] = Slice(frames[k], i)

\* What is put together is a frame of the source.
AsmInv ==
    /\ asm.id \in Nat /\ asm.started \in BOOLEAN /\ asm.delivered \in BOOLEAN
    /\ asm.started => \E k \in DOMAIN frames : PartOf(asm, frames[k])

\* The assembler has not gone back behind what it handed over last.
HandedInv ==
    handed # Missing =>
        /\ handed.id \in Nat /\ handed.id <= asm.id
        /\ asm.started => handed.id < asm.id
        /\ ~ asm.started => asm.delivered

MediaInv == FramesInv /\ IndexInv /\ WireInv /\ AsmInv /\ HandedInv /\ FramesAreWhole

-----------------------------------------------------------------------------
(* Slices.                                                                 *)

LEMMA TotalSlices ==
    ASSUME NEW f \in Frames
    PROVE  /\ Total(f) \in Nat \ {0}
           /\ f.id \in Nat /\ f.n \in Nat \ {0} /\ f.short \in BOOLEAN /\ f.fec \in BOOLEAN
           /\ f.fec => Total(f) = f.n + 1
           /\ ~ f.fec => Total(f) = f.n
BY DEF Frames, Total

LEMMA SliceFields ==
    ASSUME NEW f \in Frames, NEW i \in 0 .. (Total(f) - 1)
    PROVE  /\ Slice(f, i).id = f.id /\ Slice(f, i).index = i
           /\ Slice(f, i).total = Total(f) /\ Slice(f, i).fec = f.fec
           /\ i < f.n => Slice(f, i).chunk = Payload(f, i)
           /\ i = f.n => Slice(f, i).chunk = Parity(f)
BY TotalSlices DEF Slice

LEMMA SliceType ==
    ASSUME NEW f \in Frames, NEW i \in 0 .. (Total(f) - 1)
    PROVE  Slice(f, i) \in Slices
<1>1. Payload(f, i) \in Chunks
  <2>1. {<<f.id, i>>} \in SUBSET (Nat \X Nat)
    BY TotalSlices
  <2>2. (f.short /\ i = f.n - 1) \in BOOLEAN
    OBVIOUS
  <2> QED BY <2>1, <2>2 DEF Payload, Chunks
<1>2. Parity(f) \in Chunks
  <2>1. {<<f.id, j>> : j \in 0 .. (f.n - 1)} \in SUBSET (Nat \X Nat)
    BY TotalSlices
  <2> QED BY <2>1, TotalSlices DEF Parity, Chunks
<1> QED BY <1>1, <1>2, TotalSlices DEF Slice, Slices

-----------------------------------------------------------------------------
(* Putting together.                                                       *)

LEMMA BegunIsPart ==
    ASSUME NEW f \in Frames, NEW i \in 0 .. (Total(f) - 1)
    PROVE  /\ PartOf(Begun(Slice(f, i)), f)
           /\ Begun(Slice(f, i)).started
BY SliceFields, TotalSlices DEF Begun, PartOf, Assemblies

LEMMA AbsorbedIsPart ==
    ASSUME NEW f \in Frames, NEW i \in 0 .. (Total(f) - 1), NEW a, PartOf(a, f)
    PROVE  LET b == [a EXCEPT !.slices[i] = IF @ = Missing THEN Slice(f, i).chunk ELSE @]
           IN  PartOf(b, f) /\ b.started = a.started
<1> DEFINE part == [a.slices EXCEPT ![i] = IF @ = Missing THEN Slice(f, i).chunk ELSE @]
           b == [a EXCEPT !.slices = part]
<1>1. Slice(f, i).chunk \in Chunks
  BY SliceType DEF Slices
<1>2. part \in [0 .. (Total(f) - 1) -> Chunks \cup {Missing}]
  BY <1>1 DEF PartOf, Assemblies
<1>3. \A j \in 0 .. (Total(f) - 1) : part[j] # Missing => part[j] = Slice(f, j).chunk
  BY DEF PartOf, Assemblies
<1> HIDE DEF part
<1>4. PartOf(b, f) /\ b.started = a.started
  BY <1>2, <1>3 DEF PartOf, Assemblies
<1> QED BY <1>4 DEF part
\* The slice the parity and the survivors give is the one that is missing.
LEMMA XorOfSurvivors ==
    ASSUME NEW f \in Frames, NEW a, PartOf(a, f), f.fec,
           NEW m \in 0 .. (f.n - 1), Lost(a) = {m}, a.slices[f.n] # Missing
    PROVE  Xor(a, (0 .. f.n) \ {m}) = {<<f.id, m>>}
<1> DEFINE J == (0 .. f.n) \ {m}
           carriers(b) == {j \in J : b \in a.slices[j].bytes}
<1>1. Total(f) = f.n + 1 /\ f.n \in Nat \ {0} /\ f.id \in Nat /\ f.short \in BOOLEAN
  BY TotalSlices
<1>2. DataCount(a) = f.n
  BY <1>1 DEF DataCount, PartOf
<1>3. ASSUME NEW j \in J, j # f.n
      PROVE  a.slices[j].bytes = {<<f.id, j>>}
  <2>1. j \in 0 .. (f.n - 1) /\ j \in 0 .. (Total(f) - 1) /\ j < f.n
    BY <1>1, <1>3
  <2>2. a.slices[j] # Missing
    BY <2>1, <1>2, <1>3 DEF Lost
  <2>3. a.slices[j] = Payload(f, j)
    BY <2>1, <2>2, SliceFields DEF PartOf
  <2> QED BY <2>3 DEF Payload
<1>4. f.n \in J /\ a.slices[f.n].bytes = {<<f.id, i>> : i \in 0 .. (f.n - 1)}
  <2>1. f.n \in 0 .. (Total(f) - 1) /\ f.n \in J
    BY <1>1
  <2>2. a.slices[f.n] = Parity(f)
    BY <2>1, SliceFields DEF PartOf
  <2> QED BY <2>1, <2>2 DEF Parity
<1>5. ASSUME NEW k \in 0 .. (f.n - 1), k # m
      PROVE  Cardinality(carriers(<<f.id, k>>)) = 2
  <2>1. carriers(<<f.id, k>>) = {f.n} \cup {k}
    BY <1>1, <1>3, <1>4, <1>5
  <2>2. k \notin {f.n}
    BY <1>1
  <2>3. IsFiniteSet({f.n}) /\ Cardinality({f.n}) = 1
    BY FS_Singleton
  <2>4. Cardinality({f.n} \cup {k}) = Cardinality({f.n}) + 1
    BY <2>2, <2>3, FS_AddElement
  <2>5. Cardinality({f.n} \cup {k}) = 2
    BY <2>3, <2>4
  <2> HIDE DEF carriers
  <2> QED BY <2>1, <2>5
<1>6. Cardinality(carriers(<<f.id, m>>)) = 1
  <2>1. carriers(<<f.id, m>>) = {f.n}
    BY <1>1, <1>3, <1>4
  <2> QED BY <2>1, FS_Singleton
<1>7. UNION {a.slices[j].bytes : j \in J} = {<<f.id, k>> : k \in 0 .. (f.n - 1)}
  BY <1>1, <1>3, <1>4
<1>8. \A b : b \in Xor(a, J) <=> b \in UNION {a.slices[j].bytes : j \in J}
                                  /\ Cardinality(carriers(b)) % 2 = 1
  BY DEF Xor
<1> HIDE DEF carriers, J
<1>9. ASSUME NEW b
      PROVE  b \in Xor(a, J) <=> b = <<f.id, m>>
  <2>1. CASE b \in {<<f.id, k>> : k \in 0 .. (f.n - 1)}
    <3>1. PICK k \in 0 .. (f.n - 1) : b = <<f.id, k>>
      BY <2>1
    <3>2. CASE k = m
      <4>1. Cardinality(carriers(b)) = 1
        BY <1>6, <3>1, <3>2
      <4>2. Cardinality(carriers(b)) % 2 = 1
        BY <4>1
      <4> QED BY <4>2, <3>1, <3>2, <2>1, <1>7, <1>8
    <3>3. CASE k # m
      <4>1. Cardinality(carriers(b)) = 2
        BY <1>5, <3>1, <3>3
      <4>2. Cardinality(carriers(b)) % 2 # 1
        BY <4>1
      <4> QED BY <4>2, <3>1, <3>3, <1>8
    <3> QED BY <3>2, <3>3
  <2>2. CASE b \notin {<<f.id, k>> : k \in 0 .. (f.n - 1)}
    BY <2>2, <1>7, <1>8
  <2> QED BY <2>1, <2>2
<1>10. Xor(a, J) = {<<f.id, m>>}
  BY <1>9
<1> QED BY <1>10 DEF J

\* What is handed over when nothing is missing, or one slice and the parity is
\* there, is the frame.
LEMMA Whole ==
    ASSUME NEW f \in Frames, NEW a, PartOf(a, f), Lost(a) = {} \/ CanRecover(a)
    PROVE  Assembled(a) = Data(f)
<1>1. DataCount(a) = f.n /\ f.n \in Nat \ {0} /\ f.id \in Nat /\ f.short \in BOOLEAN
  BY TotalSlices DEF DataCount, PartOf
<1>2. ASSUME NEW i \in 0 .. (f.n - 1), a.slices[i] # Missing
      PROVE  a.slices[i] = Payload(f, i)
  <2>1. i \in 0 .. (Total(f) - 1) /\ i < f.n
    BY TotalSlices
  <2> QED BY <1>2, <2>1, SliceFields DEF PartOf
<1>3. ASSUME NEW i \in 0 .. (f.n - 1), a.slices[i] = Missing
      PROVE  Recover(a, i) = Payload(f, i)
  <2>1. i \in Lost(a)
    BY <1>1, <1>3 DEF Lost
  <2>2. CanRecover(a)
    BY <2>1
  <2>3. f.fec /\ a.slices[f.n] # Missing
    BY <1>1, <2>2 DEF CanRecover, PartOf
  <2>4. Lost(a) = {i}
    <3>1. IsFiniteSet(0 .. (f.n - 1))
      BY <1>1, FS_Interval
    <3>2. Lost(a) \subseteq 0 .. (f.n - 1)
      BY <1>1 DEF Lost
    <3>3. IsFiniteSet(Lost(a))
      BY <3>1, <3>2, FS_Subset
    <3>4. PICK x : Lost(a) = {x}
      BY <3>3, <2>2, FS_Singleton DEF CanRecover
    <3> QED BY <3>4, <2>1
  <2>5. Xor(a, (0 .. f.n) \ {i}) = {<<f.id, i>>}
    BY <2>3, <2>4, XorOfSurvivors
  <2>6. a.slices[f.n].short = f.short
    <3>1. f.n \in 0 .. (Total(f) - 1)
      BY <2>3, TotalSlices
    <3>2. a.slices[f.n] = Parity(f)
      BY <3>1, <2>3, SliceFields DEF PartOf
    <3> QED BY <3>2 DEF Parity
  <2> QED BY <1>1, <2>5, <2>6 DEF Recover, Payload
<1>4. \A i \in 0 .. (f.n - 1) :
         (IF a.slices[i] = Missing THEN Recover(a, i) ELSE a.slices[i]) = Payload(f, i)
  BY <1>2, <1>3
<1> QED BY <1>1, <1>4 DEF Assembled, Data

-----------------------------------------------------------------------------
(* The steps.                                                              *)

\* A slice given to the assembler: it leaves the frame it belongs to in progress,
\* or hands it over, a newer one than the last.
LEMMA AddStep ==
    ASSUME MediaInv, NEW k \in DOMAIN frames, NEW i \in 0 .. (Total(frames[k]) - 1),
           Add(Slice(frames[k], i)), UNCHANGED frames
    PROVE  /\ AsmInv' /\ HandedInv' /\ FramesAreWhole'
           /\ complete' # complete => handed = Missing \/ handed'.id > handed.id
<1> DEFINE f == frames[k]
           s == Slice(f, i)
<1>1. /\ f \in Frames /\ i \in 0 .. (Total(f) - 1) /\ f.id = k - 1
      /\ f.id \in Nat /\ k \in Nat
  <2>1. f \in Frames /\ f.id = k - 1 /\ k \in Nat
    BY DEF MediaInv, FramesInv
  <2> QED BY <2>1, TotalSlices
<1>2. s.id = f.id /\ s.index = i
  BY <1>1, SliceFields
<1>3. /\ asm.id \in Nat /\ asm.started \in BOOLEAN
      /\ AsmInv /\ HandedInv /\ FramesAreWhole
  BY DEF MediaInv, AsmInv
<1>4. CASE Stale(s)
  <2>1. UNCHANGED <<asm, complete, handed, frames>>
    BY <1>4 DEF Add
  <2> QED BY <2>1, <1>3 DEF AsmInv, HandedInv, FramesAreWhole
<1>5. CASE ~ Stale(s)
  <2> DEFINE a == Absorbed(s)
  <2>1. PartOf(Joined(s), f) /\ Joined(s).started
    <3>1. CASE asm.started /\ s.id = asm.id
      <4>1. PICK j \in DOMAIN frames : PartOf(asm, frames[j])
        BY <1>3, <3>1 DEF AsmInv
      <4>2. frames[j].id = asm.id /\ frames[j].id = j - 1
        BY <4>1 DEF PartOf, MediaInv, FramesInv
      <4>3. j = k
        BY <4>2, <3>1, <1>1, <1>2 DEF MediaInv, FramesInv
      <4> QED BY <4>1, <4>3, <3>1 DEF Joined
    <3>2. CASE ~ (asm.started /\ s.id = asm.id)
      <4>1. Joined(s) = Begun(s)
        BY <3>2 DEF Joined
      <4>2. PartOf(Begun(s), f) /\ Begun(s).started
        BY <1>1, BegunIsPart
      <4> QED BY <4>1, <4>2
    <3> QED BY <3>1, <3>2
  <2>2. PartOf(a, f) /\ a.started
    <3>1. a = [Joined(s) EXCEPT !.slices[i] = IF @ = Missing THEN Slice(f, i).chunk ELSE @]
      BY <1>2 DEF Absorbed
    <3>2. PartOf([Joined(s) EXCEPT !.slices[i] = IF @ = Missing THEN Slice(f, i).chunk ELSE @], f)
      BY <1>1, <2>1, AbsorbedIsPart
    <3>3. [Joined(s) EXCEPT !.slices[i] = IF @ = Missing THEN Slice(f, i).chunk ELSE @].started
          = Joined(s).started
      BY <1>1, <2>1, AbsorbedIsPart
    <3> QED BY <3>1, <3>2, <3>3, <2>1
  <2>3. handed # Missing => handed.id \in Nat /\ handed.id < f.id
    <3>1. CASE asm.started
      <4>1. s.id > asm.id \/ s.id = asm.id
        BY <1>5, <3>1 DEF Stale, seq_newer
      <4> QED BY <4>1, <3>1, <1>1, <1>2, <1>3 DEF HandedInv
    <3>2. CASE ~ asm.started
      <4>1. s.id > asm.id \/ ~ asm.delivered
        BY <1>5, <3>2 DEF Stale, seq_newer
      <4> QED BY <4>1, <3>2, <1>1, <1>2, <1>3 DEF HandedInv
    <3> QED BY <3>1, <3>2
  <2> HIDE DEF a
  <2>4. a \in Assemblies(f) /\ a.id = f.id
    BY <2>2 DEF PartOf
  <2>5. CASE Lost(a) = {} \/ CanRecover(a)
    <3>1. /\ handed' = [id |-> a.id, data |-> Assembled(a)]
          /\ asm' = [a EXCEPT !.started = FALSE, !.delivered = TRUE, !.slices = <<>>]
      BY <1>5, <2>5 DEF Add, a
    <3>2. handed'.id = f.id /\ handed'.data = Data(f)
      BY <3>1, <2>4, <1>1, <2>2, <2>5, Whole
    <3>3. asm'.id = f.id /\ asm'.started = FALSE /\ asm'.delivered = TRUE
      BY <3>1, <2>4 DEF Assemblies
    <3>4. AsmInv'
      BY <3>3, <1>1 DEF AsmInv
    <3>5. HandedInv'
      BY <3>2, <3>3, <1>1 DEF HandedInv
    <3>6. FramesAreWhole'
      BY <3>2 DEF FramesAreWhole
    <3>7. handed = Missing \/ handed'.id > handed.id
      BY <3>2, <2>3, <1>1
    <3> QED BY <3>4, <3>5, <3>6, <3>7
  <2>6. CASE ~ (Lost(a) = {} \/ CanRecover(a))
    <3>1. asm' = a /\ UNCHANGED <<complete, handed>>
      BY <1>5, <2>6 DEF Add, a
    <3>2. /\ a.id \in Nat /\ a.started \in BOOLEAN /\ a.delivered \in BOOLEAN
          /\ PartOf(a, frames[k])
      BY <2>2, <2>4, <1>1 DEF Assemblies
    <3>3. AsmInv'
      BY <3>1, <3>2 DEF AsmInv
    <3>4. HandedInv'
      BY <3>1, <2>2, <2>3, <2>4, <1>1 DEF HandedInv
    <3>5. FramesAreWhole'
      BY <3>1, <1>3 DEF FramesAreWhole
    <3> QED BY <3>1, <3>3, <3>4, <3>5
  <2> QED BY <2>5, <2>6
<1> QED BY <1>4, <1>5

\* A new frame leaves those before it where they are.
LEMMA NextFrameStep ==
    ASSUME MediaInv, NEW shape \in Shapes, NextFrame(shape)
    PROVE  MediaInv'
<1> DEFINE f == [id |-> Len(frames), n |-> shape.n, short |-> shape.short, fec |-> shape.fec]
<1>1. f \in Frames /\ frames \in Seq(Frames)
  BY MediaAssumption DEF Frames, MediaInv, FramesInv
<1>2. frames' = Append(frames, f) /\ UNCHANGED <<vars, assembler, wire>> /\ index' = 0
  BY DEF NextFrame
<1>3. f.id = Len(frames)
  OBVIOUS
<1> HIDE DEF f
<1>4. /\ frames' \in Seq(Frames)
      /\ DOMAIN frames \subseteq DOMAIN frames'
      /\ \A k \in DOMAIN frames : frames'[k] = frames[k]
      /\ \A k \in DOMAIN frames' : k \in DOMAIN frames \/ (k = Len(frames) + 1 /\ frames'[k] = f)
  BY <1>1, <1>2
<1>5. FramesInv'
  BY <1>1, <1>3, <1>4 DEF MediaInv, FramesInv
<1>6. UNCHANGED <<sent, wire, asm, handed>>
  BY <1>2 DEF vars, assembler
<1>7. IndexInv'
  BY <1>2, <1>6 DEF MediaInv, IndexInv
<1>8. WireInv'
  BY <1>4, <1>6 DEF MediaInv, WireInv
<1>9. AsmInv' /\ HandedInv'
  BY <1>4, <1>6 DEF MediaInv, AsmInv, HandedInv
<1>10. FramesAreWhole'
  BY <1>4, <1>6 DEF MediaInv, FramesAreWhole
<1> QED BY <1>5, <1>7, <1>8, <1>9, <1>10 DEF MediaInv

\* A datagram leaves with the next slice of the last frame.
LEMMA SendSliceStep ==
    ASSUME MediaInv, SendSlice
    PROVE  MediaInv'
<1>1. /\ wire' = Append(wire, Slice(Last, index)) /\ index' = index + 1
      /\ sent' = sent + 1 /\ UNCHANGED <<frames, asm, handed>>
  BY DEF SendSlice, Send, assembler
<1>2. Len(frames) \in DOMAIN frames /\ Last = frames[Len(frames)] /\ Last \in Frames
  BY DEF SendSlice, Last, MediaInv, FramesInv
<1>3. index \in 0 .. (Total(Last) - 1)
  BY <1>2, TotalSlices DEF SendSlice, MediaInv, IndexInv
<1>4. Slice(Last, index) \in Slices
  BY <1>2, <1>3, SliceType
<1> DEFINE s == Slice(Last, index)
<1>5. \E k \in DOMAIN frames : \E i \in 0 .. (Total(frames[k]) - 1) : s = Slice(frames[k], i)
  BY <1>2, <1>3
<1> HIDE DEF s
<1>6. WireInv'
  <2>1. /\ wire' \in Seq(Slices)
        /\ Len(wire') = sent'
        /\ \A j \in DOMAIN wire' : (j \in DOMAIN wire /\ wire'[j] = wire[j]) \/ wire'[j] = s
    BY <1>1, <1>4 DEF s, MediaInv, WireInv
  <2> QED BY <2>1, <1>1, <1>5 DEF MediaInv, WireInv
<1>7. IndexInv'
  BY <1>1 DEF MediaInv, IndexInv
<1>8. FramesInv' /\ AsmInv' /\ HandedInv' /\ FramesAreWhole'
  BY <1>1 DEF MediaInv, FramesInv, AsmInv, HandedInv, FramesAreWhole
<1> QED BY <1>6, <1>7, <1>8 DEF MediaInv

\* A datagram arrives, and its slice goes to the assembler if it is fresh.
LEMMA ReceiveStep ==
    ASSUME MediaInv, NEW c \in 0 .. (sent - 1), Receive(c)
    PROVE  /\ MediaInv'
           /\ complete' # complete => handed = Missing \/ handed'.id > handed.id
<1>1. UNCHANGED <<sent, frames, index, wire>>
  BY DEF Receive, Deliver, media
<1>2. FramesInv' /\ IndexInv' /\ WireInv'
  BY <1>1 DEF MediaInv, FramesInv, IndexInv, WireInv
<1>3. CASE verdict'.fresh
  <2>1. Add(wire[c + 1])
    BY <1>3 DEF Receive
  <2>2. c + 1 \in DOMAIN wire
    BY DEF MediaInv, WireInv, IndexInv
  <2>3. PICK k \in DOMAIN frames : \E i \in 0 .. (Total(frames[k]) - 1) : wire[c + 1] = Slice(frames[k], i)
    BY <2>2 DEF MediaInv, WireInv
  <2>4. PICK i \in 0 .. (Total(frames[k]) - 1) : wire[c + 1] = Slice(frames[k], i)
    BY <2>3
  <2>5. Add(Slice(frames[k], i))
    BY <2>1, <2>4
  <2> QED BY <2>5, <1>1, <1>2, AddStep DEF MediaInv
<1>4. CASE ~ verdict'.fresh
  <2>1. UNCHANGED <<asm, complete, handed>>
    BY <1>4 DEF Receive, assembler
  <2> QED BY <2>1, <1>1, <1>2 DEF MediaInv, AsmInv, HandedInv, FramesAreWhole
<1> QED BY <1>3, <1>4

LEMMA MediaInitially == MediaInit => MediaInv
<1> SUFFICES ASSUME MediaInit PROVE MediaInv
  OBVIOUS
<1>1. frames = <<>> /\ wire = <<>> /\ index = 0 /\ sent = 0 /\ handed = Missing
  BY DEF MediaInit, InitAssembler, Init
<1>2. asm.id = 0 /\ asm.started = FALSE /\ asm.delivered = FALSE
  BY DEF MediaInit, InitAssembler
<1>3. FramesInv /\ IndexInv
  BY <1>1 DEF FramesInv, IndexInv
<1>4. WireInv
  <2>1. wire \in Seq(Slices)
    BY <1>1
  <2>2. Len(wire) = sent
    BY <1>1
  <2>3. DOMAIN wire = {}
    BY <1>1
  <2> QED BY <2>1, <2>2, <2>3 DEF WireInv
<1>5. AsmInv
  <2>1. asm.id \in Nat
    BY <1>2
  <2> QED BY <2>1, <1>2, Zenon DEF AsmInv
<1>6. HandedInv /\ FramesAreWhole
  BY <1>1 DEF HandedInv, FramesAreWhole
<1> QED BY <1>3, <1>4, <1>5, <1>6 DEF MediaInv

LEMMA MediaStep ==
    ASSUME MediaInv, [MediaNext]_mediaVars
    PROVE  /\ MediaInv'
           /\ complete' # complete => handed = Missing \/ handed'.id > handed.id
<1>1. ASSUME NEW shape \in Shapes, NextFrame(shape)
      PROVE  MediaInv' /\ complete' = complete
  BY <1>1, NextFrameStep DEF NextFrame, assembler
<1>2. CASE SendSlice
  BY <1>2, SendSliceStep DEF SendSlice, assembler
<1>3. ASSUME NEW c \in 0 .. (sent - 1), Receive(c)
      PROVE  /\ MediaInv'
             /\ complete' # complete => handed = Missing \/ handed'.id > handed.id
  BY <1>3, ReceiveStep
<1>4. CASE UNCHANGED mediaVars
  BY <1>4 DEF mediaVars, vars, assembler, media, MediaInv, FramesInv, IndexInv, WireInv,
              AsmInv, HandedInv, FramesAreWhole
<1> QED BY <1>1, <1>2, <1>3, <1>4 DEF MediaNext

LEMMA MediaInductive == MediaSpec => []MediaInv
<1>1. MediaInv /\ [MediaNext]_mediaVars => MediaInv'
  BY MediaStep
<1> QED BY <1>1, MediaInitially, PTL DEF MediaSpec

\* Whatever the network does, what the decoder is given is a frame of the source,
\* byte for byte: never a mixture of two, and the slice the parity gives back is
\* the one that was lost.
THEOREM FramesWhole == MediaSpec => []FramesAreWhole
<1>1. MediaInv => FramesAreWhole
  BY DEF MediaInv
<1> QED BY <1>1, MediaInductive, PTL

\* The decoder sees the frames in their order, each at most once.
THEOREM InOrder == MediaSpec => DeliveredInOrder
<1>1. MediaInv /\ [MediaNext]_mediaVars
      => [complete' # complete => handed = Missing \/ handed'.id > handed.id]_mediaVars
  BY MediaStep
<1> QED BY <1>1, MediaInductive, PTL DEF MediaSpec, DeliveredInOrder

\* The video path is a user of the replay window: all its steps are the window's
\* own or leave it alone.
LEMMA OnTheWindow == MediaSpec => Spec
<1>1. MediaInit => Init
  BY DEF MediaInit
<1>2. [MediaNext]_mediaVars => [Next]_vars
  <2>1. ASSUME NEW shape \in Shapes, NextFrame(shape)
        PROVE  UNCHANGED vars
    BY <2>1 DEF NextFrame, vars
  <2>2. ASSUME SendSlice
        PROVE  Next
    BY <2>2 DEF SendSlice, Next
  <2>3. ASSUME NEW c \in 0 .. (sent - 1), Receive(c)
        PROVE  Next
    BY <2>3 DEF Receive, Next
  <2>4. ASSUME UNCHANGED mediaVars
        PROVE  UNCHANGED vars
    BY <2>4 DEF mediaVars, vars
  <2> QED BY <2>1, <2>2, <2>3, <2>4 DEF MediaNext
<1> QED BY <1>1, <1>2, PTL DEF MediaSpec, Spec

\* So the datagrams of a viewer's video keep the promise of FreshChannel, with the
\* assembler behind the window as without it.
THEOREM MediaImplements == MediaSpec => ImplementsFreshChannel
BY OnTheWindow, Implements
=============================================================================
