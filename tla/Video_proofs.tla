-------------------------- MODULE Video_proofs --------------------------
(***************************************************************************)
(* Both ends of the video, for any number of clients, tickets, receivers,  *)
(* late messages and restarts.                                             *)
(*                                                                         *)
(* VideoConfig: a client is only ever sent to the video with a ticket the  *)
(* source has accepted.  The number of a configuration stands for its      *)
(* tickets: whatever is on its way, was applied or is reported under the   *)
(* registry's number carries the registry's tickets, and a change takes a  *)
(* number nothing bears yet.                                               *)
(*                                                                         *)
(* VideoViewing: no receiver is left with an open session that nobody is   *)
(* going to close.  Its state is its own, and so is its specification.     *)
(***************************************************************************)
EXTENDS VideoConfig, VideoViewing, TLAPS

USE VideoConfigAssumption

\* What is pending under the number of the registry carries its tickets.
PendingIsCurrent ==
    \A m \in pending : m.seq <= cfgSeq /\ (m.seq = cfgSeq => m.tickets = Live)

\* What was applied or is reported under it has been accepted by the source.
AppliedIsHeld ==
    ~reborn => source.seq <= cfgSeq /\ (source.seq = cfgSeq => Live \subseteq held)

ReportedIsHeld ==
    session /\ ~reborn =>
        \A s \in statuses : s <= cfgSeq /\ (s = cfgSeq => Live \subseteq held)

\* A source that knows the session has the link, and nothing outlives it.
LinkIsWhole ==
    /\ session => up
    /\ ~up => pending = {} /\ statuses = {}

Numbered == cfgSeq \in Nat /\ cfgSeq >= 1

\* A number that is sent fits a message.
SeqWithin == cfgSeq \in Numbers

KnownInv ==
    /\ TypeOK /\ Numbered /\ SeqWithin /\ LinkIsWhole
    /\ PendingIsCurrent /\ AppliedIsHeld /\ ReportedIsHeld
    /\ AdvertsAreKnown

-----------------------------------------------------------------------------
LEMMA FirstNumbers == 0 \in Numbers /\ 1 \in Numbers
BY DEF Numbers

LEMMA LiveTickets ==
    ASSUME TypeOK
    PROVE  Live \subseteq Tickets
BY DEF TypeOK, Live

LEMMA LiveUnchanged ==
    ASSUME UNCHANGED tickets
    PROVE  Live' = Live
BY DEF Live

LEMMA ConfigurationType ==
    ASSUME TypeOK, cfgSeq \in Numbers, NEW released \in BOOLEAN
    PROVE  /\ Configuration(released) \in Message
           /\ Configuration(released).seq = cfgSeq
           /\ Configuration(released).tickets = Live
<1>1. Live \subseteq Tickets
  BY LiveTickets
<1> QED
  BY <1>1 DEF TypeOK, Configuration, Message, Withheld, Settings

\* Nothing bears the number a change takes.
LEMMA BumpKeeps ==
    ASSUME KnownInv, Bump, UNCHANGED <<acked, pending, statuses, source, held, session, reborn, up>>
    PROVE  (Numbered /\ SeqWithin /\ LinkIsWhole /\ PendingIsCurrent /\ AppliedIsHeld /\ ReportedIsHeld
            /\ AdvertsAreKnown)'
<1>0. /\ \A m \in pending : m.seq \in Nat
      /\ source.seq \in Nat /\ statuses \subseteq Nat
  BY DEF KnownInv, TypeOK, Message, Numbers
<1>1. Numbered' /\ cfgSeq' = cfgSeq + 1 /\ cfgSeq \in Nat
  BY DEF KnownInv, Numbered, Bump
<1>2. LinkIsWhole' /\ AdvertsAreKnown' /\ SeqWithin'
  BY <1>1 DEF KnownInv, LinkIsWhole, AdvertsAreKnown, SeqWithin, Numbered, Numbers, Bump
<1>3. PendingIsCurrent'
  BY <1>0, <1>1 DEF KnownInv, PendingIsCurrent
<1>4. AppliedIsHeld'
  BY <1>0, <1>1 DEF KnownInv, AppliedIsHeld
<1>5. ReportedIsHeld'
  BY <1>0, <1>1 DEF KnownInv, ReportedIsHeld
<1> QED
  BY <1>1, <1>2, <1>3, <1>4, <1>5

-----------------------------------------------------------------------------
LEMMA InitKnown == ASSUME Init PROVE KnownInv
<1> USE DEF Init
<1>1. TypeOK
  <2>1. minted \in 0 .. MaxTickets /\ faults \in 0 .. MaxFaults /\ settings \in Settings
    BY DEF Settings
  <2>2. tickets \in [Clients -> {0} \cup Tickets]
    OBVIOUS
  <2>3. source \in [seq : Numbers, tickets : SUBSET Tickets, settings : Settings]
    BY FirstNumbers DEF Settings
  <2>4. configured \in {"no", "adopted", "saved"}
    OBVIOUS
  <2> QED
    BY <2>1, <2>2, <2>3, <2>4, FirstNumbers DEF TypeOK
<1>2. Live = {}
  BY DEF Live
<1> QED
  BY <1>1, <1>2 DEF KnownInv, Numbered, SeqWithin, Numbers, LinkIsWhole, PendingIsCurrent,
        AppliedIsHeld, ReportedIsHeld, AdvertsAreKnown

LEMMA TicketForKnown ==
    ASSUME KnownInv, NEW c \in Clients, TicketFor(c)
    PROVE  KnownInv'
<1> USE DEF TicketFor, Unnumbered, link, sourceVars, mirror, choices
<1>1. TypeOK'
  <2>1. minted' \in Tickets /\ minted' \in 0 .. MaxTickets
    BY DEF KnownInv, TypeOK, Tickets
  <2>2. tickets' \in [Clients -> {0} \cup Tickets]
    BY <2>1 DEF KnownInv, TypeOK
  <2>3. cfgSeq' \in Numbers /\ appliedSeq' \in Numbers
    BY DEF KnownInv, Numbered, Bump, Numbers
  <2> QED
    BY <2>1, <2>2, <2>3 DEF KnownInv, TypeOK
<1>2. Bump
  OBVIOUS
<1> QED
  BY <1>1, <1>2, BumpKeeps DEF KnownInv

LEMMA RevokeTicketKnown ==
    ASSUME KnownInv, NEW c \in Clients, RevokeTicket(c)
    PROVE  KnownInv'
<1> USE DEF RevokeTicket, Unnumbered, link, sourceVars, mirror, choices
<1>1. TypeOK'
  <2>1. tickets' \in [Clients -> {0} \cup Tickets]
    BY DEF KnownInv, TypeOK
  <2>2. cfgSeq' \in Numbers /\ appliedSeq' \in Numbers
    BY DEF KnownInv, Numbered, Bump, Numbers
  <2> QED
    BY <2>1, <2>2 DEF KnownInv, TypeOK
<1>2. Bump
  OBVIOUS
<1> QED
  BY <1>1, <1>2, BumpKeeps DEF KnownInv

LEMMA ChangeKnown ==
    ASSUME KnownInv, SetBroker \/ \E s \in Settings \ {0} : SetConfig(s)
    PROVE  KnownInv'
<1> USE DEF SetBroker, SetConfig, Unnumbered, link, sourceVars, mirror, choices, tokens
<1>1. TypeOK'
  <2>1. cfgSeq' \in Numbers /\ appliedSeq' \in Numbers
    BY DEF KnownInv, Numbered, Bump, Numbers
  <2> QED
    BY <2>1 DEF KnownInv, TypeOK
<1>2. Bump
  OBVIOUS
<1> QED
  BY <1>1, <1>2, BumpKeeps DEF KnownInv

-----------------------------------------------------------------------------
LEMMA ConnectKnown == ASSUME KnownInv, Connect PROVE KnownInv'
<1> USE DEF Connect, tokens, choices
<1>1. cfgSeq \in Numbers
  BY DEF KnownInv, SeqWithin
<1> DEFINE first == Configuration(mode = "embedded")
<1>2. first \in Message /\ first.seq = cfgSeq /\ first.tickets = Live
  BY <1>1, ConfigurationType DEF KnownInv
<1>3. pending' = {first}
  OBVIOUS
<1> HIDE DEF first
<1>4. Live' = Live
  BY LiveUnchanged
<1>5. TypeOK'
  BY <1>2, <1>3, FirstNumbers DEF KnownInv, TypeOK
<1>6. Numbered' /\ SeqWithin' /\ LinkIsWhole'
  BY DEF KnownInv, Numbered, SeqWithin, LinkIsWhole
<1>7. PendingIsCurrent'
  BY <1>2, <1>3, <1>4 DEF KnownInv, Numbered, PendingIsCurrent
<1>8. AppliedIsHeld' /\ AdvertsAreKnown'
  BY <1>4 DEF KnownInv, AppliedIsHeld, AdvertsAreKnown
<1>9. ReportedIsHeld'
  BY DEF KnownInv, LinkIsWhole, ReportedIsHeld
<1> QED
  BY <1>5, <1>6, <1>7, <1>8, <1>9 DEF KnownInv

\* Both ways to push put the registry's configuration among the pending ones.
LEMMA QueueKnown ==
    ASSUME KnownInv, up, NEW released \in BOOLEAN, Queue(Configuration(released)),
           owed' \in BOOLEAN, mirrored' \in BOOLEAN,
           UNCHANGED <<mode, tokens, choices, cfgSeq, acknowledged, reported, up, statuses,
                       sourceVars, faults, reborn>>
    PROVE  KnownInv'
<1> USE DEF tokens, choices, acknowledged, sourceVars
<1>1. cfgSeq \in Numbers
  BY DEF KnownInv, SeqWithin
<1> DEFINE message == Configuration(released)
<1>2. message \in Message /\ message.seq = cfgSeq /\ message.tickets = Live
  BY <1>1, ConfigurationType DEF KnownInv
<1>3. pending' = pending \cup {message}
  BY DEF Queue
<1> HIDE DEF message
<1>4. Live' = Live
  BY LiveUnchanged
<1>5. TypeOK'
  BY <1>2, <1>3 DEF KnownInv, TypeOK
<1>6. Numbered' /\ SeqWithin' /\ LinkIsWhole'
  BY DEF KnownInv, Numbered, SeqWithin, LinkIsWhole
<1>7. PendingIsCurrent'
  BY <1>2, <1>3, <1>4 DEF KnownInv, Numbered, PendingIsCurrent
<1>8. AppliedIsHeld' /\ AdvertsAreKnown' /\ ReportedIsHeld'
  BY <1>4 DEF KnownInv, AppliedIsHeld, AdvertsAreKnown, ReportedIsHeld
<1> QED
  BY <1>5, <1>6, <1>7, <1>8 DEF KnownInv

LEMMA PushKnown ==
    ASSUME KnownInv, SettleAndPush \/ \E forced \in BOOLEAN : PushConfig(forced)
    PROVE  KnownInv'
<1>1. CASE SettleAndPush
  <2>1. owed' \in BOOLEAN /\ mirrored' \in BOOLEAN /\ Queue(Configuration(TRUE)) /\ up
    BY <1>1 DEF SettleAndPush
  <2> QED
    BY <1>1, <2>1, QueueKnown DEF SettleAndPush
<1>2. CASE \E forced \in BOOLEAN : PushConfig(forced)
  <2> DEFINE released == (mode = "embedded" \/ mirrored)
  <2>1. released \in BOOLEAN
    BY DEF KnownInv, TypeOK
  <2>2. /\ owed' \in BOOLEAN /\ mirrored' \in BOOLEAN
        /\ Queue(Configuration(released)) /\ up
    BY <1>2 DEF PushConfig, KnownInv, TypeOK
  <2>3. UNCHANGED <<mode, tokens, choices, cfgSeq, acknowledged, reported, up, statuses,
                    sourceVars, faults, reborn>>
    BY <1>2 DEF PushConfig
  <2> HIDE DEF released
  <2> QED
    BY <2>1, <2>2, <2>3, QueueKnown
<1> QED
  BY <1>1, <1>2

LEMMA DropKnown == ASSUME KnownInv, Drop PROVE KnownInv'
<1> USE DEF Drop, LinkGone, registry, tokens, choices, acknowledged, mirror
<1>1. Live' = Live
  BY LiveUnchanged
<1>2. faults' \in 0 .. MaxFaults
  BY DEF KnownInv, TypeOK
<1>3. TypeOK'
  BY <1>2 DEF KnownInv, TypeOK
<1> QED
  BY <1>1, <1>3 DEF KnownInv, Numbered, SeqWithin, LinkIsWhole, PendingIsCurrent,
        AppliedIsHeld, ReportedIsHeld, AdvertsAreKnown

-----------------------------------------------------------------------------
\* A status on its way is one of those before, or the new one.
LEMMA LateOnes ==
    ASSUME NEW s \in Numbers
    PROVE  Late(s) \subseteq statuses \cup {s}
BY DEF Late

LEMMA OnControlKnown ==
    ASSUME KnownInv, NEW m \in pending, NEW ackArrives \in BOOLEAN, OnControl(m, ackArrives)
    PROVE  KnownInv'
<1> USE DEF OnControl, registry, tokens, choices, acknowledged, mirror
<1>1. /\ m \in Message /\ m.seq \in Numbers /\ m.tickets \subseteq Tickets
      /\ m.seq <= cfgSeq /\ (m.seq = cfgSeq => m.tickets = Live)
  BY DEF KnownInv, TypeOK, Message, PendingIsCurrent
<1>2. Live' = Live
  BY LiveUnchanged
<1>3. pending' \subseteq pending /\ statuses' \subseteq statuses \cup {m.seq}
  BY <1>1, LateOnes
<1>4. /\ source'.seq = m.seq /\ source'.tickets = m.tickets
      /\ source' \in [seq : Numbers, tickets : SUBSET Tickets, settings : Settings]
  <2>1. m.config \in Settings \cup {Withheld} /\ source.settings \in Settings
    BY <1>1 DEF KnownInv, TypeOK, Message
  <2> QED
    BY <1>1, <2>1
<1>5. TypeOK'
  BY <1>1, <1>3, <1>4 DEF KnownInv, TypeOK, StillVouched
<1>6. Numbered' /\ SeqWithin' /\ LinkIsWhole'
  BY DEF KnownInv, Numbered, SeqWithin, LinkIsWhole
<1>7. PendingIsCurrent'
  BY <1>2, <1>3 DEF KnownInv, PendingIsCurrent
<1>8. AppliedIsHeld'
  BY <1>1, <1>2, <1>4 DEF KnownInv, AppliedIsHeld
<1>9. ReportedIsHeld'
  BY <1>1, <1>2, <1>3 DEF KnownInv, ReportedIsHeld
<1>10. AdvertsAreKnown'
  BY DEF KnownInv, AdvertsAreKnown
<1> QED
  BY <1>5, <1>6, <1>7, <1>8, <1>9, <1>10 DEF KnownInv

LEMMA AdmitKnown ==
    ASSUME KnownInv, NEW t \in Tickets, Admit(t)
    PROVE  KnownInv'
<1> USE DEF Admit, registry, link, tokens, choices, acknowledged, mirror
<1>1. Live' = Live
  BY LiveUnchanged
<1>2. TypeOK'
  BY DEF KnownInv, TypeOK
<1> QED
  BY <1>1, <1>2 DEF KnownInv, Numbered, SeqWithin, LinkIsWhole, PendingIsCurrent,
        AppliedIsHeld, ReportedIsHeld, AdvertsAreKnown

LEMMA SendStatusKnown == ASSUME KnownInv, SendStatus PROVE KnownInv'
<1> USE DEF SendStatus, registry, sourceVars, tokens, choices, acknowledged, mirror
<1>1. source.seq \in Numbers
  BY DEF KnownInv, TypeOK
<1>2. statuses' \subseteq statuses \cup {source.seq}
  BY <1>1, LateOnes
<1>3. Live' = Live
  BY LiveUnchanged
<1>4. TypeOK'
  BY <1>1, <1>2 DEF KnownInv, TypeOK
<1>5. ReportedIsHeld'
  BY <1>2, <1>3 DEF KnownInv, ReportedIsHeld, AppliedIsHeld
<1>6. LinkIsWhole'
  BY DEF KnownInv, LinkIsWhole
<1> QED
  BY <1>3, <1>4, <1>5, <1>6 DEF KnownInv, Numbered, SeqWithin, PendingIsCurrent, AppliedIsHeld,
        AdvertsAreKnown

\* A report of the registry's own number acknowledges tickets that are held.
LEMMA ReportKnown ==
    ASSUME KnownInv, NEW s \in Numbers, Report(s), statuses' \subseteq statuses,
           session /\ ~reborn => (s = cfgSeq => Live \subseteq held)
    PROVE  KnownInv'
<1> USE DEF Report, sourceVars, tokens, choices
<1>1. Live' = Live /\ Live \subseteq Tickets
  BY LiveUnchanged, LiveTickets DEF KnownInv
<1>2. acked' \subseteq Tickets
  BY <1>1 DEF KnownInv, TypeOK, Acknowledged
<1>3. TypeOK'
  BY <1>2 DEF KnownInv, TypeOK
<1>4. AdvertsAreKnown'
  BY DEF KnownInv, AdvertsAreKnown, Acknowledged
<1>5. LinkIsWhole'
  BY DEF KnownInv, LinkIsWhole
<1> QED
  BY <1>1, <1>3, <1>4, <1>5 DEF KnownInv, Numbered, SeqWithin, PendingIsCurrent, AppliedIsHeld,
        ReportedIsHeld

LEMMA StatusKnown ==
    ASSUME KnownInv, PromptStatus \/ \E s \in Numbers : ReceiveStatus(s)
    PROVE  KnownInv'
<1>1. CASE PromptStatus
  <2>1. source.seq \in Numbers /\ (~reborn => (source.seq = cfgSeq => Live \subseteq held))
    BY DEF KnownInv, TypeOK, AppliedIsHeld
  <2> QED
    BY <1>1, <2>1, ReportKnown DEF PromptStatus
<1>2. CASE \E s \in Numbers : ReceiveStatus(s)
  <2>1. PICK s \in Numbers : ReceiveStatus(s)
    BY <1>2
  <2>2. /\ Report(s) /\ statuses' \subseteq statuses
        /\ session /\ ~reborn => (s = cfgSeq => Live \subseteq held)
    BY <2>1 DEF ReceiveStatus, KnownInv, ReportedIsHeld
  <2> QED
    BY <2>2, ReportKnown
<1> QED
  BY <1>1, <1>2

LEMMA ReceiveSettingsKnown == ASSUME KnownInv, ReceiveSettings PROVE KnownInv'
<1> USE DEF ReceiveSettings, link, sourceVars, tokens, acknowledged
<1>1. Live' = Live
  BY LiveUnchanged
<1>2. TypeOK'
  <2>1. settings' \in Settings /\ configured' \in {"no", "adopted", "saved"}
    BY DEF KnownInv, TypeOK
  <2>2. mirrored' \in BOOLEAN /\ owed' \in BOOLEAN
    BY DEF KnownInv, TypeOK
  <2> QED
    BY <2>1, <2>2 DEF KnownInv, TypeOK
<1> QED
  BY <1>1, <1>2 DEF KnownInv, Numbered, SeqWithin, LinkIsWhole, PendingIsCurrent,
        AppliedIsHeld, ReportedIsHeld, AdvertsAreKnown

-----------------------------------------------------------------------------
LEMMA SourceRestartsKnown == ASSUME KnownInv, SourceRestarts PROVE KnownInv'
<1> USE DEF SourceRestarts, registry, link, tokens, choices, acknowledged, mirror
<1>1. Live' = Live
  BY LiveUnchanged
<1>2. /\ source'.seq = 0 /\ faults' \in 0 .. MaxFaults
      /\ source' \in [seq : Numbers, tickets : SUBSET Tickets, settings : Settings]
  <2>1. source \in [seq : Numbers, tickets : SUBSET Tickets, settings : Settings]
    BY DEF KnownInv, TypeOK
  <2>2. faults' \in 0 .. MaxFaults
    BY DEF KnownInv, TypeOK
  <2> QED
    BY <2>1, <2>2, FirstNumbers
<1>3. TypeOK'
  BY <1>2 DEF KnownInv, TypeOK
<1>4. AppliedIsHeld'
  BY <1>2 DEF KnownInv, Numbered, AppliedIsHeld
<1>5. LinkIsWhole' /\ ReportedIsHeld' /\ AdvertsAreKnown'
  BY DEF KnownInv, LinkIsWhole, ReportedIsHeld, AdvertsAreKnown
<1> QED
  BY <1>1, <1>3, <1>4, <1>5 DEF KnownInv, Numbered, SeqWithin, PendingIsCurrent

LEMMA ServerRestartsKnown == ASSUME KnownInv, ServerRestarts PROVE KnownInv'
<1> USE DEF ServerRestarts, LinkGone
<1>1. TypeOK'
  <2>1. settings' \in Settings /\ configured' \in {"no", "adopted", "saved"}
    BY DEF KnownInv, TypeOK, Settings
  <2>2. tickets' \in [Clients -> {0} \cup Tickets]
    OBVIOUS
  <2>3. faults' \in 0 .. MaxFaults
    BY DEF KnownInv, TypeOK
  <2> QED
    BY <2>1, <2>2, <2>3, FirstNumbers DEF KnownInv, TypeOK
<1>2. Numbered' /\ SeqWithin' /\ LinkIsWhole'
  BY DEF KnownInv, Numbered, SeqWithin, LinkIsWhole, Numbers
<1> QED
  BY <1>1, <1>2 DEF KnownInv, PendingIsCurrent, AppliedIsHeld, ReportedIsHeld, AdvertsAreKnown

-----------------------------------------------------------------------------
LEMMA StepKnown == ASSUME KnownInv, [Next]_vars PROVE KnownInv'
<1>1. CASE UNCHANGED vars
  <2> USE <1>1 DEF vars, registry, link, sourceVars, tokens, choices, acknowledged, mirror
  <2>1. Live' = Live
    BY LiveUnchanged
  <2>2. TypeOK'
    BY DEF KnownInv, TypeOK
  <2> QED
    BY <2>1, <2>2 DEF KnownInv, Numbered, SeqWithin, LinkIsWhole, PendingIsCurrent,
          AppliedIsHeld, ReportedIsHeld, AdvertsAreKnown
<1>2. CASE Next
  <2>1. CASE \E c \in Clients : TicketFor(c) \/ RevokeTicket(c)
    BY <2>1, TicketForKnown, RevokeTicketKnown
  <2>2. CASE SetBroker \/ \E s \in Settings \ {0} : SetConfig(s)
    BY <2>2, ChangeKnown
  <2>3. CASE Connect \/ Drop
    BY <2>3, ConnectKnown, DropKnown
  <2>4. CASE SettleAndPush \/ \E forced \in BOOLEAN : PushConfig(forced)
    BY <2>4, PushKnown
  <2>5. CASE \E m \in pending, ackArrives \in BOOLEAN : OnControl(m, ackArrives)
    BY <2>5, OnControlKnown
  <2>6. CASE \E t \in Tickets : Admit(t)
    BY <2>6, AdmitKnown
  <2>7. CASE SendStatus
    BY <2>7, SendStatusKnown
  <2>8. CASE PromptStatus \/ \E s \in Numbers : ReceiveStatus(s)
    BY <2>8, StatusKnown
  <2>9. CASE ReceiveSettings
    BY <2>9, ReceiveSettingsKnown
  <2>10. CASE SourceRestarts \/ ServerRestarts
    BY <2>10, SourceRestartsKnown, ServerRestartsKnown
  <2> QED
    BY <1>2, <2>1, <2>2, <2>3, <2>4, <2>5, <2>6, <2>7, <2>8, <2>9, <2>10 DEF Next
<1> QED
  BY <1>1, <1>2

\* Every value keeps its type, for any number of clients, tickets and restarts.
THEOREM TypeCorrect == Spec => []TypeOK
<1>1. KnownInv => TypeOK
  BY DEF KnownInv
<1> QED
  BY <1>1, InitKnown, StepKnown, PTL DEF Spec

\* source_advert offers a ticket only when the source has accepted it: the number of
\* a configuration stands for its tickets as long as one life of the server counts.
THEOREM AdvertsKnown == Spec => []AdvertsAreKnown
<1>1. KnownInv => AdvertsAreKnown
  BY DEF KnownInv
<1> QED
  BY <1>1, InitKnown, StepKnown, PTL DEF Spec

-----------------------------------------------------------------------------
(* The client's side: VideoViewing, which has variables of its own.        *)

USE ViewingAssumption

ReceiverStates ==
    [thread : {"none", "connecting", "connected", "streaming", "done", "dead"},
     at : Adverts, stop : BOOLEAN,
     state : {"DISCONNECTED", "CONNECTING", "STREAMING", "STALLED", "FAILED"}]

ViewerTypes ==
    /\ video_source \in Adverts
    /\ gui \in [at : {"idle", "stopping", "restoring", "leaving"},
                why : {"none", "withdrawn", "retry", "disconnect"}, seen : Adverts]
    /\ receiver \in Receivers \cup {None}
    /\ rx \in [Receivers -> ReceiverStates]
    /\ open \subseteq Receivers

\* Whose transport has a session, and whether that thread will look at _stop.
SessionHeld(r) ==
    /\ r \in open => rx[r].thread \in {"connected", "streaming", "done"}
    /\ r \in open => r = receiver \/ rx[r].thread = "connected"
    /\ r # receiver /\ rx[r].thread \in {"connecting", "connected"} => rx[r].stop

\* _stop_video has told the receiver it is waiting for.
StopTold == gui.at = "stopping" => /\ receiver # None /\ rx[receiver].stop
                                   /\ gui.why # "none"

ViewerInv == ViewerTypes /\ StopTold /\ \A r \in Receivers : SessionHeld(r)

LEMMA UnusedReceiver == /\ Unused \in ReceiverStates /\ Unused.thread = "none"
                        /\ Idle.at = "idle" /\ Idle.why = "none"
                        /\ Idle.seen = NoVideo
  BY DEF Unused, Idle, Adverts, ReceiverStates

LEMMA ViewerInitially == ViewerInit => ViewerInv
  BY DEF ViewerInit, Unused, Idle, Adverts, ReceiverStates,
         ViewerInv, ViewerTypes, StopTold, SessionHeld

\* Steps that leave the receivers alone.
LEMMA ReceiversAside ==
    ASSUME ViewerInv, UNCHANGED <<receiver, rx, open>>, video_source' \in Adverts,
           \/ gui' = gui
           \/ gui' = Idle
           \/ gui' = [Idle EXCEPT !.at = "leaving"]
    PROVE  ViewerInv'
<1>1. ViewerTypes'
  BY DEF ViewerInv, ViewerTypes, Idle, Adverts
<1>2. StopTold'
  BY DEF ViewerInv, StopTold, Idle
<1>3. \A r \in Receivers : SessionHeld(r)'
  BY DEF ViewerInv, SessionHeld
<1> QED BY <1>1, <1>2, <1>3 DEF ViewerInv

\* A step of one thread: what the others hold is theirs.
LEMMA OneReceiver ==
    ASSUME ViewerInv, NEW r \in Receivers, NEW s \in ReceiverStates,
           rx' = [rx EXCEPT ![r] = s], s.stop = rx[r].stop \/ s = Unused,
           r = receiver => s.stop = rx[r].stop,
           UNCHANGED <<video_source, gui, receiver>>,
           open' \subseteq Receivers, \A q \in Receivers \ {r} : q \in open' <=> q \in open,
           SessionHeld(r)'
    PROVE  ViewerInv'
<1>1. /\ rx' \in [Receivers -> ReceiverStates] /\ rx'[r] = s
      /\ \A q \in Receivers \ {r} : rx'[q] = rx[q]
  BY DEF ViewerInv, ViewerTypes
<1>2. ViewerTypes'
  BY <1>1 DEF ViewerInv, ViewerTypes
<1>3. StopTold'
  BY <1>1 DEF ViewerInv, StopTold, ViewerTypes
<1>4. \A q \in Receivers \ {r} : SessionHeld(q)'
  BY <1>1 DEF ViewerInv, SessionHeld
<1> QED BY <1>2, <1>3, <1>4 DEF ViewerInv

\* A thread that ends, as After has it.
LEMMA Ends ==
    ASSUME ViewerInv, NEW r \in Receivers, NEW state \in {"DISCONNECTED", "CONNECTING", "STREAMING",
                                                         "STALLED", "FAILED"}
    PROVE  /\ After(r, "done", state) \in ReceiverStates
           /\ r # receiver => After(r, "done", state) = Unused
           /\ r = receiver => /\ After(r, "done", state).thread = "done"
                              /\ After(r, "done", state).stop = rx[r].stop
  BY UnusedReceiver DEF ViewerInv, ViewerTypes, ReceiverStates, After

-----------------------------------------------------------------------------
(* The GUI thread.                                                         *)

\* A receiver that is started is one whose thread and transport are gone.
LEMMA StartKeeps ==
    ASSUME ViewerInv, NEW r \in Receivers, TickStart(r)
    PROVE  ViewerInv'
<1> DEFINE s == [thread |-> "connecting", at |-> video_source, stop |-> FALSE, state |-> "CONNECTING"]
<1>1. /\ rx[r] = Unused /\ receiver = None /\ receiver' = r /\ gui = Idle
      /\ rx' = [rx EXCEPT ![r] = s] /\ UNCHANGED <<video_source, gui, open>>
  BY DEF TickStart
<1>2. s \in ReceiverStates /\ s.thread = "connecting"
  BY DEF ViewerInv, ViewerTypes, ReceiverStates
<1> HIDE DEF s
<1>3. /\ rx' \in [Receivers -> ReceiverStates] /\ rx'[r] = s
      /\ \A q \in Receivers \ {r} : rx'[q] = rx[q]
  BY <1>1, <1>2 DEF ViewerInv, ViewerTypes
<1>4. ViewerTypes' /\ StopTold'
  BY <1>1, <1>3, UnusedReceiver DEF ViewerInv, ViewerTypes, StopTold
<1>5. r \notin open
  BY <1>1, UnusedReceiver DEF ViewerInv, SessionHeld
<1>6. ASSUME NEW q \in Receivers PROVE SessionHeld(q)'
  <2>1. CASE q = r
    BY <1>1, <1>5, <2>1 DEF SessionHeld
  <2>2. CASE q # r
    <3>1. SessionHeld(q) /\ q # receiver
      BY <1>1 DEF ViewerInv
    <3> QED BY <1>1, <1>3, <2>2, <3>1 DEF SessionHeld
  <2> QED BY <2>1, <2>2
<1> QED BY <1>4, <1>6 DEF ViewerInv

\* _stop is set before the GUI waits for the thread.
LEMMA StoppingKeeps ==
    ASSUME ViewerInv, receiver # None, NEW why \in {"withdrawn", "retry", "disconnect"},
           Stopping(why)
    PROVE  ViewerInv'
<1> DEFINE seen == IF why = "retry" THEN video_source ELSE NoVideo
<1>1. /\ gui' = [at |-> "stopping", why |-> why, seen |-> seen]
      /\ rx' = [rx EXCEPT ![receiver].stop = TRUE] /\ UNCHANGED <<video_source, receiver, open>>
  BY DEF Stopping
<1>2. /\ rx' \in [Receivers -> ReceiverStates] /\ rx'[receiver].stop
      /\ rx'[receiver].thread = rx[receiver].thread
      /\ \A q \in Receivers \ {receiver} : rx'[q] = rx[q]
  BY <1>1 DEF ViewerInv, ViewerTypes, ReceiverStates
<1>3. ViewerTypes' /\ StopTold'
  BY <1>1, <1>2 DEF ViewerInv, ViewerTypes, StopTold, Adverts
<1>4. ASSUME NEW q \in Receivers PROVE SessionHeld(q)'
  BY <1>1, <1>2 DEF ViewerInv, SessionHeld
<1> QED BY <1>3, <1>4 DEF ViewerInv

\* The transport is closed, or the thread is left with _stop to look at.
LEMMA StopEndsKeeps ==
    ASSUME ViewerInv, StopEnds
    PROVE  ViewerInv'
<1>1. receiver \in Receivers /\ rx[receiver].stop /\ gui.at = "stopping"
  BY DEF ViewerInv, ViewerTypes, StopTold, StopEnds
<1>2. receiver' = None /\ video_source' = NoVideo
  BY DEF StopEnds
<1>3. gui' \in [at : {"idle", "restoring", "leaving"},
                why : {"none", "withdrawn", "retry", "disconnect"}, seen : Adverts]
  <2>1. gui.why \in {"withdrawn", "retry", "disconnect"}
    BY <1>1 DEF ViewerInv, ViewerTypes, StopTold
  <2> QED BY <2>1 DEF StopEnds, ViewerInv, ViewerTypes, Idle, Adverts
<1>4. StopTold'
  BY <1>3 DEF StopTold
<1>5. CASE Ended(receiver) /\ Closed(receiver)
  <2>1. rx' = [rx EXCEPT ![receiver] = Unused] /\ open' = open \ {receiver}
    BY <1>5 DEF Closed
  <2>2. ViewerTypes'
    BY <1>2, <1>3, <2>1, UnusedReceiver DEF ViewerInv, ViewerTypes, Adverts
  <2>3. ASSUME NEW q \in Receivers PROVE SessionHeld(q)'
    BY <1>1, <1>2, <2>1, UnusedReceiver DEF ViewerInv, ViewerTypes, SessionHeld
  <2> QED BY <1>4, <2>2, <2>3 DEF ViewerInv
<1>6. CASE LeftBehind(receiver)
  <2>1. rx[receiver].thread = "connecting" /\ UNCHANGED <<rx, open>>
    BY <1>6 DEF LeftBehind
  <2>2. ViewerTypes'
    BY <1>2, <1>3, <2>1 DEF ViewerInv, ViewerTypes, Adverts
  <2>3. ASSUME NEW q \in Receivers PROVE SessionHeld(q)'
    BY <1>1, <1>2, <2>1 DEF ViewerInv, SessionHeld
  <2> QED BY <1>4, <2>2, <2>3 DEF ViewerInv
<1> QED BY <1>5, <1>6 DEF StopEnds

LEMMA GuiKeeps ==
    ASSUME ViewerInv, Gui \/ Disconnect \/ DisconnectIdle
    PROVE  ViewerInv'
<1>1. CASE TickWithdrawn \/ TickRetry \/ Disconnect
  BY <1>1, StoppingKeeps DEF TickWithdrawn, TickRetry, Disconnect
<1>2. CASE TickRestore \/ Leave \/ DisconnectIdle
  <2>1. gui.seen \in Adverts /\ NoVideo \in Adverts /\ video_source \in Adverts
    BY DEF ViewerInv, ViewerTypes, Adverts
  <2> QED BY <1>2, <2>1, ReceiversAside
          DEF TickRestore, Leave, DisconnectIdle, streamVars
<1> QED BY <1>1, <1>2, StartKeeps, StopEndsKeeps DEF Gui

-----------------------------------------------------------------------------
(* The receiver's threads.                                                 *)

\* A handshake that succeeds opens a session, also one nobody waits for any more.
LEMMA ConnectsKeeps ==
    ASSUME ViewerInv, NEW r \in Receivers, Connects(r)
    PROVE  ViewerInv'
<1> DEFINE s == [rx[r] EXCEPT !.thread = "connected"]
<1>1. /\ rx[r] \in ReceiverStates /\ rx[r].thread = "connecting" /\ SessionHeld(r)
      /\ rx' = [rx EXCEPT ![r] = s] /\ open' = open \cup {r} /\ open \subseteq Receivers
      /\ UNCHANGED <<video_source, gui, receiver>>
  BY DEF Connects, ViewerInv, ViewerTypes
<1>2. s \in ReceiverStates /\ s.thread = "connected" /\ s.stop = rx[r].stop
  BY <1>1 DEF ReceiverStates
<1> HIDE DEF s
<1>3. rx'[r] = s
  BY <1>1 DEF ViewerInv, ViewerTypes
<1>4. SessionHeld(r)'
  BY <1>1, <1>2, <1>3 DEF SessionHeld
<1> QED BY <1>1, <1>2, <1>4, OneReceiver

LEMMA AttemptKeeps ==
    ASSUME ViewerInv, NEW r \in Receivers, AttemptFails(r) \/ AttemptRaises(r)
    PROVE  ViewerInv'
<1>1. /\ rx[r] \in ReceiverStates /\ rx[r].thread = "connecting" /\ SessionHeld(r)
      /\ UNCHANGED <<video_source, gui, receiver, open>> /\ open \subseteq Receivers
  BY DEF AttemptFails, AttemptRaises, ViewerInv, ViewerTypes
<1>2. PICK s \in ReceiverStates :
        /\ rx' = [rx EXCEPT ![r] = s]
        /\ r # receiver => s = Unused
        /\ r = receiver => s.stop = rx[r].stop
  <2>1. CASE AttemptFails(r)
    <3>1. PICK state \in {"FAILED"} \cup (IF rx[r].stop THEN {rx[r].state} ELSE {}) :
            rx' = [rx EXCEPT ![r] = After(r, "done", state)]
      BY <2>1 DEF AttemptFails
    <3>2. state \in {"DISCONNECTED", "CONNECTING", "STREAMING", "STALLED", "FAILED"}
      BY <1>1 DEF ReceiverStates
    <3> QED BY <3>1, <3>2, Ends
  <2>2. CASE AttemptRaises(r)
    <3>1. [rx[r] EXCEPT !.thread = "dead"] \in ReceiverStates
          /\ [rx[r] EXCEPT !.thread = "dead"].stop = rx[r].stop
      BY <1>1 DEF ReceiverStates
    <3> QED BY <2>2, <3>1, UnusedReceiver DEF AttemptRaises
  <2> QED BY <2>1, <2>2
<1>3. rx'[r] = s
  BY <1>2 DEF ViewerInv, ViewerTypes
<1>4. SessionHeld(r)'
  BY <1>1, <1>2, <1>3, UnusedReceiver DEF SessionHeld
<1> QED BY <1>1, <1>2, <1>4, OneReceiver

\* _stop is looked at after the handshake: a thread that goes on is the current one.
LEMMA ConnectedKeeps ==
    ASSUME ViewerInv, NEW r \in Receivers, Connected(r)
    PROVE  ViewerInv'
<1>1. /\ rx[r] \in ReceiverStates /\ rx[r].thread = "connected" /\ SessionHeld(r)
      /\ UNCHANGED <<video_source, gui, receiver>> /\ open \subseteq Receivers
  BY DEF Connected, ViewerInv, ViewerTypes
<1>2. CASE rx[r].stop
  <2> DEFINE s == After(r, "done", "DISCONNECTED")
  <2>1. rx' = [rx EXCEPT ![r] = s] /\ open' = open \ {r}
    BY <1>2 DEF Connected, HonoursStop
  <2>2. /\ s \in ReceiverStates /\ (r # receiver => s = Unused)
        /\ r = receiver => s.stop = rx[r].stop
    BY Ends
  <2> HIDE DEF s
  <2>3. rx'[r] = s
    BY <2>1 DEF ViewerInv, ViewerTypes
  <2>4. SessionHeld(r)'
    BY <1>1, <2>1, <2>2, <2>3, UnusedReceiver DEF SessionHeld
  <2> QED BY <1>1, <2>1, <2>2, <2>4, OneReceiver
<1>3. CASE ~ rx[r].stop
  <2> DEFINE s == [rx[r] EXCEPT !.thread = "streaming", !.state = "STREAMING"]
  <2>1. rx' = [rx EXCEPT ![r] = s] /\ UNCHANGED open
    BY <1>3 DEF Connected, HonoursStop
  <2>2. s \in ReceiverStates /\ s.thread = "streaming" /\ s.stop = rx[r].stop
    BY <1>1 DEF ReceiverStates
  <2> HIDE DEF s
  <2>3. rx'[r] = s
    BY <2>1 DEF ViewerInv, ViewerTypes
  <2>4. SessionHeld(r)'
    BY <1>1, <1>3, <2>1, <2>2, <2>3 DEF SessionHeld
  <2> QED BY <1>1, <2>1, <2>2, <2>4, OneReceiver
<1> QED BY <1>2, <1>3

LEMMA StreamEndsKeeps ==
    ASSUME ViewerInv, NEW r \in Receivers, LoopStops(r) \/ GivesUp(r)
    PROVE  ViewerInv'
<1>1. /\ rx[r] \in ReceiverStates /\ rx[r].thread = "streaming" /\ SessionHeld(r)
      /\ UNCHANGED <<video_source, gui, receiver, open>> /\ open \subseteq Receivers
  BY DEF LoopStops, GivesUp, StreamEnds, ViewerInv, ViewerTypes
<1>2. PICK state \in {"DISCONNECTED", "CONNECTING", "STREAMING", "STALLED", "FAILED"} :
        rx' = [rx EXCEPT ![r] = After(r, "done", state)]
  BY <1>1 DEF LoopStops, GivesUp, StreamEnds, ReceiverStates
<1> DEFINE s == After(r, "done", state)
<1>3. /\ s \in ReceiverStates /\ (r # receiver => s = Unused)
      /\ r = receiver => s.stop = rx[r].stop /\ s.thread = "done"
  BY Ends
<1> HIDE DEF s
<1>4. rx' = [rx EXCEPT ![r] = s]
  BY <1>2 DEF s
<1>5. rx'[r] = s
  BY <1>4 DEF ViewerInv, ViewerTypes
<1>6. SessionHeld(r)'
  BY <1>1, <1>3, <1>5, UnusedReceiver DEF SessionHeld
<1> QED BY <1>1, <1>3, <1>4, <1>6, OneReceiver

\* A stream stalls or revives: the thread goes on.
LEMMA StreamGoesOn ==
    ASSUME ViewerInv, NEW r \in Receivers, NEW state \in {"STREAMING", "STALLED"},
           rx' = [rx EXCEPT ![r].state = state] \/ rx' = rx,
           UNCHANGED <<video_source, gui, receiver, open>>
    PROVE  ViewerInv'
<1> DEFINE s == [rx[r] EXCEPT !.state = state]
<1>1. rx[r] \in ReceiverStates /\ SessionHeld(r) /\ open \subseteq Receivers
  BY DEF ViewerInv, ViewerTypes
<1>2. s \in ReceiverStates /\ s.thread = rx[r].thread /\ s.stop = rx[r].stop
  BY <1>1 DEF ReceiverStates
<1>3. CASE rx' = rx
  BY <1>3, ReceiversAside DEF ViewerInv, ViewerTypes
<1>4. CASE rx' = [rx EXCEPT ![r] = s]
  <2> HIDE DEF s
  <2>1. rx'[r] = s
    BY <1>4 DEF ViewerInv, ViewerTypes
  <2>2. SessionHeld(r)'
    BY <1>1, <1>2, <2>1 DEF SessionHeld
  <2> QED BY <1>1, <1>2, <1>4, <2>2, OneReceiver
<1> QED BY <1>3, <1>4

LEMMA ReceiverKeeps ==
    ASSUME ViewerInv, NEW r \in Receivers,
           \/ Thread(r) \/ Connects(r) \/ AttemptRaises(r)
           \/ Stalls(r) \/ GivesUp(r) \/ SourceLeaves(r)
           \/ SwitchDecoder(r)
           \/ \E key \in BOOLEAN : \/ FrameArrives(r, key)
                                  \/ FrameLost(r, key) \/ FrameTorn(r, key)
    PROVE  ViewerInv'
<1>1. CASE Stalls(r)
  BY <1>1, StreamGoesOn DEF Stalls
<1>2. CASE SourceLeaves(r) \/ SwitchDecoder(r)
  BY <1>2, ReceiversAside DEF SourceLeaves, SwitchDecoder, ViewerInv, ViewerTypes
<1>3. CASE \E key \in BOOLEAN : \/ FrameArrives(r, key)
                               \/ FrameLost(r, key) \/ FrameTorn(r, key)
  <2>1. /\ rx' = [rx EXCEPT ![r].state = "STREAMING"] \/ rx' = rx
        /\ UNCHANGED <<video_source, gui, receiver, open>>
    BY <1>3 DEF FrameArrives, FrameLost, FrameTorn, Revived
  <2> QED BY <2>1, StreamGoesOn
<1> QED BY <1>1, <1>2, <1>3, ConnectsKeeps, AttemptKeeps, ConnectedKeeps, StreamEndsKeeps
        DEF Thread

LEMMA ViewerStep ==
    ASSUME ViewerInv, [ViewerNext]_(viewerVars)
    PROVE  ViewerInv'
<1>1. video_source \in Adverts
  BY DEF ViewerInv, ViewerTypes
<1>2. CASE \E o \in Adverts, lost \in BOOLEAN : Broadcast(o, lost)
  BY <1>1, <1>2, ReceiversAside DEF Broadcast, streamVars
<1>3. CASE \E lost \in BOOLEAN : TickQuery(lost)
  BY <1>1, <1>3, ReceiversAside DEF TickQuery, streamVars
<1>4. CASE \E a \in Adverts : Deliver(a)
  BY <1>4, ReceiversAside DEF Deliver, streamVars
<1>5. CASE ConnectToServer
  BY <1>1, <1>5, ReceiversAside DEF ConnectToServer, streamVars
<1>6. CASE RequestArrives \/ RequestLost \/ CoolDown
  BY <1>1, <1>6, ReceiversAside DEF RequestArrives, RequestLost, CoolDown
<1>7. CASE UNCHANGED viewerVars
  BY <1>1, <1>7, ReceiversAside DEF viewerVars
<1> QED BY <1>2, <1>3, <1>4, <1>5, <1>6, <1>7, GuiKeeps, ReceiverKeeps DEF ViewerNext

\* No session of the video is left that nobody will close, for any number of
\* receivers and however often the player leaves, retries or is too late: one that
\* is open is the current receiver's, or its thread is still to look at _stop.
THEOREM NoneLeftOpen == ViewerSpec => []OpenIsHeld
<1>1. ViewerInit => ViewerInv
  BY ViewerInitially
<1>2. ViewerInv /\ [ViewerNext]_(viewerVars) => ViewerInv'
  BY ViewerStep
<1>3. ViewerInv => OpenIsHeld
  BY DEF ViewerInv, ViewerTypes, SessionHeld, OpenIsHeld
<1> QED BY <1>1, <1>2, <1>3, PTL DEF ViewerSpec
=============================================================================
