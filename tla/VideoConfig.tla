----------------------------- MODULE VideoConfig -----------------------------
(***************************************************************************)
(* How the Bluetooth server keeps a video server configured: VideoRegistry *)
(* of server/video.py, the VideoLink of server/videolink.py that carries   *)
(* its configuration, ControlResponder of videoserver/control.py that      *)
(* applies it, and the viewing tickets of server/sessions.py.              *)
(*                                                                         *)
(* A configuration is numbered.  The link sends it as a control message    *)
(* that is retransmitted until acknowledged, in any order with the others; *)
(* the source applies whatever arrives and reports the number it applied   *)
(* last, in a status that may be lost or late; the registry pushes again   *)
(* until the number reported is its own.                                   *)
(*                                                                         *)
(* A retransmission is a new datagram, so a message that is still pending  *)
(* may be applied again: pending is a set of messages and holds every copy *)
(* of equal ones.  The preview, the players' password and the fields the   *)
(* source owns in external mode are not modelled: settings stands for the  *)
(* fields the Bluetooth server decides in every mode.                      *)
(***************************************************************************)
EXTENDS Integers, FiniteSets

CONSTANTS Clients,
          Modes,        \* the video modes to start in
          MaxSeq,       \* bound: configurations in one life of the server
          MaxTickets,   \* bound: tickets minted
          MaxLate,      \* bound: statuses late at a time
          MaxFaults     \* bound: restarts and links dropped

ASSUME VideoConfigAssumption ==
    /\ Modes \subseteq {"external", "embedded"}
    /\ MaxSeq \in Nat \ {0} /\ MaxTickets \in Nat /\ MaxLate \in Nat /\ MaxFaults \in Nat

Tickets == 1 .. MaxTickets
Numbers == 0 .. MaxSeq    \* 0: a source that has applied nothing
Settings == 0 .. 2        \* 0: the defaults
Withheld == -1            \* a message without its config block
Message == [seq : Numbers, tickets : SUBSET Tickets, config : Settings \cup {Withheld}]

VARIABLES
    mode,
    \* the registry
    tickets,     \* _tickets: 0 for a client that has none
    minted,      \* how many there have been
    settings,    \* _settings
    configured,  \* _configured: "no", "adopted" from the source, or "saved" by the operator
    cfgSeq,      \* _cfg_seq
    appliedSeq,  \* _applied_seq
    acked,       \* _acked_tickets
    reported,    \* _first_report_ns is set
    mirrored,    \* _mirrored
    owed,        \* _config_owed
    \* the link
    up,          \* connected
    pending,     \* _pending_control of the transport: its VIDEO_CONFIGs
    statuses,    \* statuses sent and not arrived: the number each reports
    \* the source
    session,     \* it knows the session of the link that is up
    source,      \* what it has applied
    held,        \* the tickets it has ever accepted in this life
    viewers,     \* the ticket of each live viewer session
    \* faults
    faults, reborn   \* reborn: the server has been restarted under this source

tokens == <<tickets, minted>>
choices == <<settings, configured>>
acknowledged == <<appliedSeq, acked>>
mirror == <<reported, mirrored, owed>>
registry == <<tokens, choices, cfgSeq, acknowledged, mirror>>
link == <<up, pending, statuses>>
sourceVars == <<session, source, held, viewers>>
vars == <<mode, registry, link, sourceVars, faults, reborn>>

Live == {tickets[c] : c \in Clients} \ {0}    \* valid_tickets

Init ==
    /\ mode \in Modes
    /\ tickets = [c \in Clients |-> 0] /\ minted = 0
    /\ \/ configured = "no" /\ settings = 0
       \/ configured = "saved" /\ settings = 1
    /\ cfgSeq = 1 /\ appliedSeq = 0 /\ acked = {}
    /\ reported = FALSE /\ mirrored = FALSE /\ owed = FALSE
    /\ up = FALSE /\ pending = {} /\ statuses = {}
    /\ session = FALSE
    /\ source = [seq |-> 0, tickets |-> {}, settings |-> 0]
    /\ held = {} /\ viewers = {}
    /\ faults = 0 /\ reborn = FALSE

-----------------------------------------------------------------------------
(* The registry *)

\* What every change of the configuration does.
Bump ==
    /\ cfgSeq < MaxSeq
    /\ cfgSeq' = cfgSeq + 1
    /\ appliedSeq' = 0

Unnumbered == UNCHANGED <<acked, mirror, mode, link, sourceVars, faults, reborn>>

\* Mutant: a ticket is minted without a new configuration.
TicketForUnnumbered(c) ==
    /\ tickets[c] = 0 /\ minted < MaxTickets
    /\ minted' = minted + 1
    /\ tickets' = [tickets EXCEPT ![c] = minted']
    /\ UNCHANGED <<choices, cfgSeq, appliedSeq>> /\ Unnumbered

\* ticket_for: the advert of an approved client mints its ticket.
TicketFor(c) ==
    /\ tickets[c] = 0 /\ minted < MaxTickets
    /\ minted' = minted + 1
    /\ tickets' = [tickets EXCEPT ![c] = minted']
    /\ Bump
    /\ UNCHANGED choices /\ Unnumbered

\* revoke_ticket: the client is denied, leaves or is lost.
RevokeTicket(c) ==
    /\ tickets[c] # 0
    /\ tickets' = [tickets EXCEPT ![c] = 0]
    /\ Bump
    /\ UNCHANGED <<minted, choices>> /\ Unnumbered

\* set_broker, when it changes.  The broker and the room travel as the tickets do.
SetBroker ==
    /\ Bump
    /\ UNCHANGED <<tokens, choices>> /\ Unnumbered

\* set_config: the operator applies settings, changed or not.
SetConfig(s) ==
    /\ settings' = s /\ configured' = "saved"
    /\ Bump
    /\ UNCHANGED tokens /\ Unnumbered

\* config_message: what is sent of the state now.  The block is withheld until
\* somebody has chosen settings and, in external mode, the source has reported its own.
Configuration(released) ==
    [seq |-> cfgSeq, tickets |-> Live,
     config |-> IF configured # "no" /\ released THEN settings ELSE Withheld]

-----------------------------------------------------------------------------
(* The link *)

\* _run: a connection is made, the source attached, and a first push forced:
\* it is built of a mirror just reset.
Connect ==
    /\ ~up
    /\ up' = TRUE /\ session' = TRUE
    /\ reported' = FALSE /\ mirrored' = FALSE /\ owed' = FALSE
    /\ appliedSeq' = 0 /\ acked' = {}
    /\ pending' = {Configuration(mode = "embedded")}
    /\ UNCHANGED <<mode, tokens, choices, cfgSeq, statuses, source, held, viewers, faults, reborn>>

\* A message joins the pending ones.
Queue(message) == pending' = pending \cup {message}

\* needs_config_push.  CONFIG_REPUSH_NS may have passed at any time.
NeedsConfigPush == appliedSeq # cfgSeq \/ owed

\* _push_config; a block that was sent is owed no more.  A message built later than
\* it was decided is one of request_config_push, which the web thread calls whatever
\* the link is doing.
PushConfig(forced) ==
    /\ up
    /\ forced \/ NeedsConfigPush
    /\ LET message == Configuration(mode = "embedded" \/ mirrored)
       IN  Queue(message) /\ owed' = (owed /\ message.config = Withheld)
    /\ UNCHANGED <<mode, tokens, choices, cfgSeq, acknowledged, reported, mirrored, up, statuses, sourceVars, faults, reborn>>

\* The same, after _settle_mirror_locked: MIRROR_GRACE_NS have passed since the first
\* report, and the source's settings are waited for no longer.
SettleAndPush ==
    /\ up /\ reported /\ ~mirrored /\ mode = "external"
    /\ mirrored' = TRUE
    /\ LET message == Configuration(TRUE)
       IN  Queue(message) /\ owed' = (message.config = Withheld)
    /\ UNCHANGED <<mode, tokens, choices, cfgSeq, acknowledged, reported, up, statuses, sourceVars, faults, reborn>>

\* A status on its way; the network holds MaxLate of them and loses the others.
Late(s) == IF Cardinality(statuses) < MaxLate THEN statuses \cup {s} ELSE statuses

\* The link goes: an error, a timeout, or reconnect of the operator.  What was
\* pending or on its way is gone with its transport, a message not built yet too.
LinkGone == up' = FALSE /\ pending' = {} /\ statuses' = {} /\ session' = FALSE

Drop ==
    /\ up
    /\ session => faults < MaxFaults
    /\ LinkGone
    /\ faults' = IF session THEN faults + 1 ELSE faults
    /\ UNCHANGED <<mode, registry, source, held, viewers, reborn>>

-----------------------------------------------------------------------------
(* The source *)

\* Mutant: a withdrawn ticket is refused to the next handshake only.
StillVouchedAll(m) == viewers

\* Every viewer whose ticket is not in the list is dropped: set_tickets.
StillVouched(m) == viewers \cap m.tickets

\* on_control: what arrives is applied, and a status sent at once.  A lost
\* acknowledgement leaves the message pending, to be applied again.  A status of the
\* other thread between two of these assignments reports the old number, as one sent
\* before them does.  That applying the settings may raise, after the tickets are in force
\* and before anything is reported, is left out: README, sections 6 and 7.
OnControl(m, ackArrives) ==
    /\ up /\ session /\ m \in pending
    /\ pending' = IF ackArrives THEN pending \ {m} ELSE pending
    /\ source' = [seq |-> m.seq, tickets |-> m.tickets,
                  settings |-> IF m.config = Withheld THEN source.settings ELSE m.config]
    /\ held' = held \cup m.tickets
    /\ viewers' = StillVouched(m)
    /\ statuses' = Late(m.seq)
    /\ UNCHANGED <<mode, registry, up, session, faults, reborn>>

\* handle_auth of a viewer: its ticket must be in the list.
Admit(t) ==
    /\ t \in source.tickets
    /\ viewers' = viewers \cup {t}
    /\ UNCHANGED <<mode, registry, link, session, source, held, faults, reborn>>

\* _send_status, by the responder's own thread.
SendStatus ==
    /\ session
    /\ statuses' = Late(source.seq)
    /\ UNCHANGED <<mode, registry, up, pending, sourceVars, faults, reborn>>

-----------------------------------------------------------------------------
(* What the source reports: update_status_from_link *)

\* An acknowledgement names every ticket of the configuration it is of.
Acknowledged(s) == IF s = cfgSeq THEN Live ELSE acked

Report(s) ==
    /\ appliedSeq' = s
    /\ acked' = Acknowledged(s)
    /\ reported' = (reported \/ mode = "external")
    /\ UNCHANGED <<mode, tokens, choices, cfgSeq, mirrored, owed, up, pending, sourceVars, faults, reborn>>

\* A status that is late, after others or after another configuration was applied.
ReceiveStatus(s) == up /\ s \in statuses /\ statuses' = statuses \ {s} /\ Report(s)

\* One that is not.
PromptStatus == up /\ session /\ Report(source.seq) /\ UNCHANGED statuses

\* Mutant: the block is released and nothing asks for it.
ReceiveSettingsUnowed ==
    /\ up /\ session
    /\ settings' = IF configured = "no" THEN source.settings ELSE settings
    /\ configured' = IF configured = "no" THEN "adopted" ELSE configured
    /\ mirrored' = (mirrored \/ mode = "external")
    /\ UNCHANGED <<mode, tokens, cfgSeq, acknowledged, reported, owed, link, sourceVars, faults, reborn>>

\* The settings come in a message of their own: adopted when nobody has chosen any
\* here, and the first of them releases the block withheld until now.
ReceiveSettings ==
    /\ up /\ session
    /\ settings' = IF configured = "no" THEN source.settings ELSE settings
    /\ configured' = IF configured = "no" THEN "adopted" ELSE configured
    /\ IF mode = "external" /\ ~mirrored
       THEN mirrored' = TRUE /\ owed' = TRUE
       ELSE UNCHANGED <<mirrored, owed>>
    /\ UNCHANGED <<mode, tokens, cfgSeq, acknowledged, reported, link, sourceVars, faults, reborn>>

-----------------------------------------------------------------------------
(* Restarts *)

\* The source: it knows no session, so the link will time out.
SourceRestarts ==
    /\ faults < MaxFaults /\ faults' = faults + 1
    /\ session' = FALSE
    /\ source' = [source EXCEPT !.seq = 0, !.tickets = {}]
    /\ held' = {} /\ viewers' = {}
    /\ reborn' = FALSE
    /\ UNCHANGED <<mode, registry, link>>

\* The Bluetooth server: the broker and the settings saved are read again, the
\* tickets are gone and the numbers start from 1; the source goes on.
ServerRestarts ==
    /\ faults < MaxFaults /\ faults' = faults + 1
    /\ tickets' = [c \in Clients |-> 0]
    /\ IF configured = "saved"
       THEN UNCHANGED <<settings, configured>>
       ELSE settings' = 0 /\ configured' = "no"
    /\ cfgSeq' = 1 /\ appliedSeq' = 0 /\ acked' = {}
    /\ reported' = FALSE /\ mirrored' = FALSE /\ owed' = FALSE
    /\ LinkGone
    /\ reborn' = TRUE
    /\ UNCHANGED <<mode, minted, source, held, viewers>>

Next ==
    \/ \E c \in Clients : TicketFor(c) \/ RevokeTicket(c)
    \/ SetBroker
    \/ \E s \in Settings \ {0} : SetConfig(s)
    \/ Connect \/ Drop
    \/ \E forced \in BOOLEAN : PushConfig(forced)
    \/ SettleAndPush
    \/ \E m \in pending, ackArrives \in BOOLEAN : OnControl(m, ackArrives)
    \/ \E t \in Tickets : Admit(t)
    \/ SendStatus \/ PromptStatus \/ ReceiveSettings
    \/ \E s \in Numbers : ReceiveStatus(s)
    \/ SourceRestarts \/ ServerRestarts

\* Every thread goes on, and a datagram sent again and again arrives: the link's
\* retransmission of each message, and the source's status every second.  Nothing is
\* asked of ReceiveSettings: a source may never report its settings.
Fairness ==
    /\ WF_vars(Connect) /\ WF_vars(~session /\ Drop)
    /\ WF_vars(PushConfig(FALSE)) /\ WF_vars(SettleAndPush)
    /\ \A n \in Numbers : WF_vars(\E m \in pending : m.seq = n /\ OnControl(m, TRUE))
    /\ WF_vars(PromptStatus)

Spec == Init /\ [][Next]_vars /\ Fairness

-----------------------------------------------------------------------------
(* Properties *)

TypeOK ==
    /\ mode \in Modes
    /\ tickets \in [Clients -> {0} \cup Tickets] /\ minted \in 0 .. MaxTickets
    /\ settings \in Settings /\ configured \in {"no", "adopted", "saved"}
    /\ cfgSeq \in Numbers /\ appliedSeq \in Numbers /\ acked \subseteq Tickets
    /\ reported \in BOOLEAN /\ mirrored \in BOOLEAN /\ owed \in BOOLEAN
    /\ up \in BOOLEAN
    /\ pending \subseteq Message /\ statuses \subseteq Numbers
    /\ session \in BOOLEAN
    /\ source \in [seq : Numbers, tickets : SUBSET Tickets, settings : Settings]
    /\ held \subseteq Tickets /\ viewers \subseteq Tickets
    /\ faults \in 0 .. MaxFaults /\ reborn \in BOOLEAN

\* A client is told of the video only once the source has accepted its ticket
\* (source_advert asks for the ticket in _acked_tickets), whatever statuses are late,
\* messages applied again and links replaced -- unless the server has been restarted
\* under a source that still reports a number of its former life.
AdvertsAreKnown == session /\ ~reborn => acked \subseteq held

\* Once the operator and the clients leave it alone, the source admits exactly the
\* tickets of the registry and shows them to no one else, through every restart, link
\* and older configuration applied again.
TicketsConverge ==
    <>[](source.tickets = Live /\ acked = Live /\ viewers \subseteq Live)

\* ... and works with the settings chosen here, though they were withheld until the
\* source reported its own, or for its first ten seconds.
SettingsArrive == <>[](configured = "no" \/ source.settings = settings)
=============================================================================
