------------------------------ MODULE SyncLatency ------------------------------
(***************************************************************************)
(* Sync latency around SyncGovernor: the datapath (server/datapath.py)     *)
(* measures its clients, makes a pass of the governor every second, sets   *)
(* the delay of every sink and tells the clients, whose transport          *)
(* (client/net/transport.py) keeps what it was told.                       *)
(*                                                                         *)
(* The datapath's thread makes the pass, and between its two halves the    *)
(* web thread may assign, unassign, deny and switch.  A switch brings the  *)
(* next pass forward; as a pass may come at any time here, that leaves no  *)
(* trace.  A session is one that may play: a controller's, and approved;   *)
(* a client that is denied has to connect again.                           *)
(* Probes and their median are a measurement that may change at any time.  *)
(***************************************************************************)
EXTENDS SyncGovernor

CONSTANTS Adapters,
          Ways,         \* the ways that are measured
          MaxFlight,    \* bound: announcements on their way
          MaxEvents     \* bound: what happens to the players and the operator does

ASSUME SyncLatencyAssumption ==
    /\ Ways \subseteq Nat
    /\ MaxFlight \in Nat /\ MaxEvents \in Nat
    /\ None \notin Clients

VARIABLES
    switch,     \* sync_latency_enabled
    session,    \* of each client: its measurement and verdict, None without one
    drivenBy,   \* assigned_client of each channel
    held,       \* the delay of each sink
    passing,    \* _run_sync_governor has the sinks left to do
    inFlight,   \* SYNC_LATENCY messages on their way
    told,       \* sync_added_ms and sync_capped of each client's transport
    spent       \* events so far

server == <<switch, session, drivenBy, held, passing>>
vars == <<governor, server, inFlight, told, spent>>

Connected == {c \in Clients : session[c] # None}
Nothing == [added |-> 0, capped |-> FALSE]
NewSession == [way |-> 0, ready |-> FALSE, verdict |-> Verdict(0, "off")]

\* A server in service: everybody plays (adapters are alike, so any assignment will do) and
\* has been measured, and no pass was made since.
Init ==
    /\ InitGovernor
    /\ switch \in BOOLEAN
    /\ session \in [Clients -> {[NewSession EXCEPT !.way = way, !.ready = TRUE] : way \in Ways}]
    /\ drivenBy = CHOOSE f \in [Adapters -> Clients] : \A c \in Clients : \E x \in Adapters : f[x] = c
    /\ held = [x \in Adapters |-> 0]
    /\ passing = FALSE
    /\ inFlight = {} /\ told = [c \in Clients |-> Nothing]
    /\ spent = 0

Event == spent < MaxEvents /\ spent' = spent + 1

-----------------------------------------------------------------------------
(* The players. *)

\* What a session and its transport take with them when they go.
Gone(c) ==
    /\ drivenBy' = [x \in Adapters |-> IF drivenBy[x] = c THEN None ELSE drivenBy[x]]
    /\ inFlight' = {m \in inFlight : m.client # c}
    /\ told' = [told EXCEPT ![c] = Nothing]

\* A client connects, or connects again and replaces its session; its adapters stay its own.
Join(c) ==
    /\ ~ passing /\ Event
    /\ session' = [session EXCEPT ![c] = NewSession]
    /\ inFlight' = {m \in inFlight : m.client # c}
    /\ told' = [told EXCEPT ![c] = Nothing]
    /\ UNCHANGED <<governor, switch, drivenBy, held, passing>>

\* It says DISCONNECT, or the operator denies it.
Leave(c) ==
    /\ c \in Connected /\ Event
    /\ session' = [session EXCEPT ![c] = None]
    /\ Gone(c)
    /\ UNCHANGED <<governor, switch, held, passing>>

\* It has been silent: _maybe_maintenance, which also forgets what was in force.
Reap(c) ==
    /\ c \in Connected /\ ~ passing /\ Event
    /\ session' = [session EXCEPT ![c] = None]
    /\ Gone(c)
    /\ applied' = [applied EXCEPT ![c] = None]
    /\ UNCHANGED <<cap, switch, held, passing>>

\* The median of the round trips, once there are MIN_SAMPLES, or another one.
Measure(c, way) ==
    /\ c \in Connected /\ ~ passing /\ Event
    /\ session' = [session EXCEPT ![c].way = way, ![c].ready = TRUE]
    /\ UNCHANGED <<governor, switch, drivenBy, held, passing, inFlight, told>>

-----------------------------------------------------------------------------
(* The operator. *)

Assign(x, c) ==
    /\ c \in Connected /\ drivenBy[x] # c /\ Event
    /\ drivenBy' = [drivenBy EXCEPT ![x] = c]
    /\ UNCHANGED <<governor, switch, session, held, passing, inFlight, told>>

Unassign(x) ==
    /\ drivenBy[x] # None /\ Event
    /\ drivenBy' = [drivenBy EXCEPT ![x] = None]
    /\ UNCHANGED <<governor, switch, session, held, passing, inFlight, told>>

\* set_sync_latency, one of its two writes at a time.
SetCap(new) ==
    /\ new # cap /\ Event
    /\ cap' = new
    /\ UNCHANGED <<applied, server, inFlight, told>>

SetSwitch ==
    /\ Event
    /\ switch' = ~ switch
    /\ UNCHANGED <<governor, session, drivenBy, held, passing, inFlight, told>>

-----------------------------------------------------------------------------
(* The pass. *)

Driving == {drivenBy[x] : x \in Adapters} \ {None}
Field == [c \in Connected \cap Driving |-> [way |-> session[c].way, ready |-> session[c].ready]]

\* A client that does not play has no verdict.
NewVerdicts ==
    LET field == Field
        verdicts == Verdicts(field, switch)
    IN  [c \in Connected |-> IF c \in DOMAIN field THEN verdicts[c] ELSE Verdict(0, "off")]

\* Mutant: a delay is announced when it changes, and never again.
ToTellOnce(verdicts) == {c \in Connected : session[c].verdict # verdicts[c]}

\* Told are those whose verdict changed, and every _SYNC_ANNOUNCE_INTERVAL_NS those that
\* are delayed.
ToTell(verdicts) ==
    {c \in Connected : session[c].verdict # verdicts[c] \/ verdicts[c].delay # 0}

\* _announce_sync.
Announcement(c, verdict) ==
    [client |-> c, added |-> verdict.delay, capped |-> verdict.state = "capped"]

\* The first half of the pass; the clients in heard are told and the datagram is not lost.
Govern(heard) ==
    LET verdicts == NewVerdicts
    IN  /\ ~ passing
        /\ heard \subseteq ToTell(verdicts)
        /\ applied' = Settled(Field, switch)
        /\ session' = [c \in Clients |-> IF c \in Connected
                                         THEN [session[c] EXCEPT !.verdict = verdicts[c]]
                                         ELSE None]
        /\ inFlight' = inFlight \cup {Announcement(c, verdicts[c]) : c \in heard}
        /\ Cardinality(inFlight') <= MaxFlight
        /\ passing' = TRUE
        /\ UNCHANGED <<cap, switch, drivenBy, held, told, spent>>

DelayFor(x) ==
    IF drivenBy[x] \in Connected THEN session[drivenBy[x]].verdict.delay ELSE 0

\* _apply_sync_delays.
Apply ==
    /\ passing
    /\ held' = [x \in Adapters |-> DelayFor(x)]
    /\ passing' = FALSE
    /\ UNCHANGED <<governor, switch, session, drivenBy, inFlight, told, spent>>

\* _handle_control of the client.
Deliver(m) ==
    /\ inFlight' = inFlight \ {m}
    /\ told' = [told EXCEPT ![m.client] = [added |-> m.added, capped |-> m.capped]]
    /\ UNCHANGED <<governor, server, spent>>

-----------------------------------------------------------------------------
Next ==
    \/ \E c \in Clients : \/ Join(c) \/ Leave(c) \/ Reap(c)
                          \/ \E way \in Ways : Measure(c, way)
                          \/ \E x \in Adapters : Assign(x, c)
    \/ \E x \in Adapters : Unassign(x)
    \/ \E new \in Caps : SetCap(new)
    \/ SetSwitch
    \/ \E heard \in SUBSET Connected : Govern(heard)
    \/ Apply
    \/ \E m \in inFlight : Deliver(m)

\* The datapath's loop goes round, what is on its way arrives, and of the announcements
\* repeated every five seconds not every one is lost.
Fairness ==
    /\ WF_vars(Govern({})) /\ WF_vars(Apply)
    /\ WF_vars(\E m \in inFlight : Deliver(m))
    /\ \A c \in Clients : SF_vars(Govern({c}))

Spec == Init /\ [][Next]_vars /\ Fairness

-----------------------------------------------------------------------------
TypeOK ==
    /\ cap \in Caps /\ applied \in [Clients -> Nat \cup {None}]
    /\ switch \in BOOLEAN /\ passing \in BOOLEAN
    /\ drivenBy \in [Adapters -> Clients \cup {None}]
    /\ held \in [Adapters -> Nat]
    /\ \A c \in Connected : session[c].way \in Nat /\ session[c].verdict.delay \in Nat
    /\ Cardinality(inFlight) <= MaxFlight /\ spent \in 0 .. MaxEvents

Players == Qualified(Field)

\* Once it is left alone, everybody plays as late as the slowest, to within the deadband
\* and as far as the ceiling lets it; the slowest is not held back at all, nor is anybody
\* with the switch off, alone, not measured yet, or an adapter nobody drives.
EndsLevel ==
    <>[](\A x \in Adapters :
            LET c == drivenBy[x]
            IN  IF switch /\ c \in Players /\ Cardinality(Players) >= 2 /\ session[c].way < Pace(Field)
                THEN Distance(held[x], Wanted(Field, c)) < Deadband
                ELSE held[x] = 0)

\* Once it is left alone, a player that is held back is told by how much.
EndsTold ==
    <>[](\A c \in Connected : session[c].verdict.delay # 0 =>
            told[c] = [added |-> session[c].verdict.delay,
                       capped |-> session[c].verdict.state = "capped"])
=============================================================================
