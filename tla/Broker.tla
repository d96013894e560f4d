------------------------------- MODULE Broker -------------------------------
(***************************************************************************)
(* The rendezvous broker (rendezvous/broker.py) with one room: the game    *)
(* server, which registers for ever (server/rendezvous.py), and clients    *)
(* that register, are introduced, fail to punch through and ask for a      *)
(* relay (client/net/holepunch.py).  The video leg of a room is the same   *)
(* code with other roles.                                                  *)
(*                                                                         *)
(* A client stands for one run on one socket: one that tries again is      *)
(* another client, at another address.  Datagrams arrive whenever their    *)
(* sender may have sent them, and every answer may be lost.                *)
(*                                                                         *)
(* The broker is one asyncio loop: a handler is one step, but _allocate    *)
(* gives way each time it has bound a port.  A tick is 60 s; what is not   *)
(* refreshed grows older with it, and whoever waits for an answer has      *)
(* given up before the second.                                             *)
(***************************************************************************)
EXTENDS Integers, FiniteSets, SequencesExt

CONSTANTS Server, Clients,
          Builds,      \* the sets of peers that may be new enough for allocated ports
          Ports,       \* RELAY_PORT_MIN .. RELAY_PORT_MAX
          PeerTTL,     \* PEER_TTL_S, in ticks
          RelayTTL,    \* RELAY_TTL_S, in ticks
          MaxTokens,   \* bound: tokens issued
          None

ASSUME BrokerAssumption ==
    /\ Server \notin Clients /\ None \notin Clients \cup {Server}
    /\ IsFiniteSet(Clients) /\ Builds \subseteq SUBSET (Clients \cup {Server})
    /\ IsFiniteSet(Ports)
    /\ PeerTTL \in Nat /\ RelayTTL \in Nat /\ MaxTokens \in Nat

Peers == Clients \cup {Server}
Tokens == 1 .. MaxTokens
NoToken == 0
Gone == -1           \* the age of what is not there

VARIABLES
    registered,   \* age of each peer's registration in the room, or Gone
    held,         \* Peer.token of each registration
    issued,       \* tokens issued so far
    tokens,       \* _tokens: the address behind each token, or None
    tokenRoutes,  \* _token_routes
    relayRoutes,  \* _relay_routes: where plain datagrams of a peer go, or None
    relaySeen,    \* age of each _relay_seen entry, or Gone
    allocations,  \* _allocations: the two ports of each pair and their age
    allocating,   \* the _allocate coroutines under way and the ports they bound
    bound,        \* ports bound by the process
    phase,        \* what each client is doing; "gone" is done with the broker
    modern,       \* the peers that understand an allocated port
    patient,      \* the client has been asking for less than a tick
    known,        \* the token each peer was told
    prefix        \* the token each peer frames its session traffic with

roomVars == <<registered, held, issued>>
relayVars == <<tokens, tokenRoutes, relayRoutes, relaySeen>>
portVars == <<allocations, allocating, bound>>
peerVars == <<modern, phase, patient, known, prefix>>
vars == <<roomVars, relayVars, portVars, peerVars>>

Init ==
    /\ registered = [p \in Peers |-> Gone] /\ held = [p \in Peers |-> NoToken]
    /\ issued = 0
    /\ tokens = [t \in Tokens |-> None] /\ tokenRoutes = [t \in Tokens |-> NoToken]
    /\ relayRoutes = [p \in Peers |-> None] /\ relaySeen = [p \in Peers |-> Gone]
    /\ allocations = {} /\ allocating = {} /\ bound = {}
    /\ modern \in Builds
    /\ phase = [c \in Clients |-> "new"] /\ patient = [c \in Clients |-> TRUE]
    /\ known = [p \in Peers |-> NoToken] /\ prefix = [p \in Peers |-> NoToken]

-----------------------------------------------------------------------------
(* Registration.                                                           *)

\* Room.prune: registrations not renewed in time are forgotten.
Fresh(age) == age # Gone /\ age <= PeerTTL
Pruned == [p \in Peers |-> IF Fresh(registered[p]) THEN registered[p] ELSE Gone]

\* A datagram on the signalling socket is a message only if its sender is not
\* being relayed.
Signals(p) == relayRoutes[p] = None

\* A client registers until it is introduced, the server for ever.
Registers(p) == p \in Clients => phase[p] = "new"

\* _try_introduce: each client of the room is told of the server, if it hears it.
Introduce(room) ==
    \E met \in IF room[Server] = Gone THEN {{}} ELSE SUBSET {c \in Clients : room[c] # Gone} :
        phase' = [c \in Clients |-> IF c \in met /\ phase[c] = "new" THEN "asking" ELSE phase[c]]

\* REGISTER.  The token survives as long as the registration does.
Register(p) ==
    /\ Signals(p) /\ Registers(p)
    /\ LET keeps == Fresh(registered[p]) /\ held[p] # NoToken
           t == IF keeps THEN held[p] ELSE issued + 1
       IN  /\ t \in Tokens
           /\ issued' = IF keeps THEN issued ELSE t
           /\ registered' = [Pruned EXCEPT ![p] = 0]
           /\ held' = [held EXCEPT ![p] = t]
           /\ tokens' = [tokens EXCEPT ![t] = p]
           /\ known' \in {known, [known EXCEPT ![p] = t]}
    /\ Introduce(registered')
    /\ UNCHANGED <<tokenRoutes, relayRoutes, relaySeen, portVars, modern, patient, prefix>>

\* Any other datagram of a relayed peer to this socket, a REGISTER, BYE or RELAY
\* too, is forwarded to the other end, where it means nothing.
Plain(p) == p \in Clients => phase[p] = "asking" \/ (phase[p] = "framing" /\ prefix[p] = NoToken)

Forward(p) ==
    /\ ~ Signals(p) /\ Plain(p)
    /\ relaySeen' = [relaySeen EXCEPT ![p] = 0]
    /\ UNCHANGED <<roomVars, tokens, tokenRoutes, relayRoutes, portVars, peerVars>>

-----------------------------------------------------------------------------
(* The relay by token, which shares the signalling socket.                 *)

\* _token_of: the token of the registration at this address.
TokenOf(p) == IF registered[p] # Gone THEN held[p] ELSE NoToken

\* "relaying" without a port reaches the client, the server, both or neither.
\* The server frames with the first token it was relayed under; the client with
\* the one it was told.
ToldToFrame(c, heard) ==
    /\ prefix' = [p \in Peers |->
                    IF p = Server /\ Server \in heard /\ prefix[p] = NoToken THEN known[p]
                    ELSE IF p = c /\ c \in heard /\ phase[c] = "asking" THEN known[p]
                    ELSE prefix[p]]
    /\ phase' = IF c \in heard /\ phase[c] = "asking" THEN [phase EXCEPT ![c] = "framing"] ELSE phase
    /\ UNCHANGED <<modern, patient, known>>

\* _wire_token_relay.
WireTokenRelay(c) ==
    LET mine == TokenOf(c)
        theirs == TokenOf(Server)
    IN  /\ relayRoutes' = [relayRoutes EXCEPT ![c] = Server, ![Server] = c]
        /\ relaySeen' = [relaySeen EXCEPT ![c] = 0, ![Server] = 0]
        /\ IF mine # NoToken /\ theirs # NoToken
           THEN /\ tokenRoutes' = [tokenRoutes EXCEPT ![mine] = theirs, ![theirs] = mine]
                /\ tokens' = [tokens EXCEPT ![mine] = c, ![theirs] = Server]
           ELSE UNCHANGED <<tokenRoutes, tokens>>
        /\ \E heard \in SUBSET {c, Server} : ToldToFrame(c, heard)

\* A framed datagram goes to whoever the sender's token is paired with.  The
\* server frames what it sends while it has a session through the broker.
Framing(p) == IF p = Server THEN \E c \in Clients : phase[c] = "framing" ELSE phase[p] = "framing"

Frame(p) ==
    LET t == prefix[p]
        other == tokens'[tokenRoutes[t]]
    IN  /\ Framing(p) /\ t # NoToken /\ tokenRoutes[t] # NoToken
        /\ tokens' = [tokens EXCEPT ![t] = p]
        /\ relaySeen' = [q \in Peers |->
                           IF other # None /\ q \in {p, other} THEN 0 ELSE relaySeen[q]]
        /\ UNCHANGED <<roomVars, tokenRoutes, relayRoutes, portVars, peerVars>>

\* Mutant: the route back is left.
DropOneWay(st, p) ==
    LET other == st.routes[p]
        lost == {t \in Tokens : st.tokens[t] = p}
    IN  [routes |-> [st.routes EXCEPT ![p] = None],
         seen |-> [q \in Peers |-> IF q \in {p, other} THEN Gone ELSE st.seen[q]],
         tokens |-> [t \in Tokens |-> IF t \in lost THEN None ELSE st.tokens[t]],
         tokenRoutes |-> [t \in Tokens |-> IF t \in lost THEN NoToken ELSE st.tokenRoutes[t]]]

\* _drop_relay_state, on a record of the four tables.
DropRelayState(st, p) ==
    LET other == st.routes[p]
        lost == {t \in Tokens : st.tokens[t] = p}
        paired == {st.tokenRoutes[t] : t \in lost}
    IN  [routes |-> [q \in Peers |-> IF q \in {p, other} THEN None ELSE st.routes[q]],
         seen |-> [q \in Peers |-> IF q \in {p, other} THEN Gone ELSE st.seen[q]],
         tokens |-> [t \in Tokens |-> IF t \in lost THEN None ELSE st.tokens[t]],
         tokenRoutes |-> [t \in Tokens |->
                            IF t \in lost \cup paired THEN NoToken ELSE st.tokenRoutes[t]]]

RelayState == [routes |-> relayRoutes, seen |-> relaySeen,
               tokens |-> tokens, tokenRoutes |-> tokenRoutes]

BecomeRelayState(st) ==
    /\ relayRoutes' = st.routes /\ relaySeen' = st.seen
    /\ tokens' = st.tokens /\ tokenRoutes' = st.tokenRoutes

-----------------------------------------------------------------------------
(* The relay by allocated ports: two sockets of the broker per pair.       *)

PortsOf(pairs) == UNION {a.ports : a \in pairs}

\* _announce_allocation, which may not reach the client.
TellPorts(c) ==
    /\ phase' \in {phase, [phase EXCEPT ![c] = IF @ = "asking" THEN "port" ELSE @]}
    /\ UNCHANGED <<modern, patient, known, prefix>>

Together(c) == registered[c] # Gone /\ registered[Server] # Gone

\* RELAY of peers that do not both understand ports.
RequestFramed(c) ==
    /\ Signals(c) /\ phase[c] = "asking" /\ Together(c)
    /\ ~ {c, Server} \subseteq modern
    /\ WireTokenRelay(c)
    /\ UNCHANGED <<roomVars, portVars>>

\* RELAY once the pair has its ports: the answer is sent again.
RequestAgain(c) ==
    /\ Signals(c) /\ phase[c] = "asking" /\ Together(c) /\ {c, Server} \subseteq modern
    /\ \E a \in allocations : a.client = c
    /\ TellPorts(c)
    /\ UNCHANGED <<roomVars, relayVars, portVars>>

\* Mutant: every RELAY of a pair without ports starts a coroutine.
RequestPortsAnyway(c) ==
    /\ Signals(c) /\ phase[c] = "asking" /\ Together(c) /\ {c, Server} \subseteq modern
    /\ \A a \in allocations : a.client # c
    /\ allocating' = allocating \cup {[client |-> c, ports |-> {}]}
    /\ UNCHANGED <<roomVars, relayVars, allocations, bound, peerVars>>

\* RELAY of a pair without ports, unless they are being bound already.
RequestPorts(c) ==
    /\ Signals(c) /\ phase[c] = "asking" /\ Together(c) /\ {c, Server} \subseteq modern
    /\ \A a \in allocations : a.client # c
    /\ \A b \in allocating : b.client # c
    /\ allocating' = allocating \cup {[client |-> c, ports |-> {}]}
    /\ UNCHANGED <<roomVars, relayVars, allocations, bound, peerVars>>

\* A peer that is no longer in the room is refused.
RequestRefused(c) ==
    /\ Signals(c) /\ phase[c] = "asking" /\ ~ Together(c)
    /\ phase' = [phase EXCEPT ![c] = "gone"]
    /\ UNCHANGED <<roomVars, relayVars, portVars, modern, patient, known, prefix>>

\* _bind_allocation: a port of the range that neither the broker nor, since the
\* first that binds is taken, anything else on the host has bound.
BindPort(b) ==
    /\ b \in allocating /\ Cardinality(b.ports) < 2
    /\ \E port \in Ports \ bound :
          /\ bound' = bound \cup {port}
          /\ allocating' = (allocating \ {b}) \cup
                              {[client |-> b.client, ports |-> b.ports \cup {port}]}
    /\ UNCHANGED <<roomVars, relayVars, allocations, peerVars>>

\* No port of the range can be bound: those made are closed, and tokens have to
\* do.
NoPortLeft(b) ==
    /\ b \in allocating /\ Cardinality(b.ports) < 2
    /\ bound' = bound \ b.ports
    /\ allocating' = allocating \ {b}
    /\ WireTokenRelay(b.client)
    /\ UNCHANGED <<roomVars, allocations>>

Allocated(b) ==
    /\ b \in allocating /\ Cardinality(b.ports) = 2
    /\ allocations' = {a \in allocations : a.client # b.client} \cup
                         {[client |-> b.client, ports |-> b.ports, age |-> 0]}
    /\ allocating' = allocating \ {b}
    /\ TellPorts(b.client)
    /\ UNCHANGED <<roomVars, relayVars, bound>>

WithAge(a, age) == [client |-> a.client, ports |-> a.ports, age |-> age]

\* Traffic on an allocated port keeps both ends of it.
Traffic(c) ==
    /\ phase[c] = "port"
    /\ \E a \in allocations : a.client = c
    /\ allocations' = {WithAge(a, IF a.client = c THEN 0 ELSE a.age) : a \in allocations}
    /\ UNCHANGED <<roomVars, relayVars, allocating, bound, peerVars>>

-----------------------------------------------------------------------------
(* Leaving and forgetting.                                                 *)

\* _handle_bye, of the server.
HandleBye ==
    /\ registered' = [registered EXCEPT ![Server] = Gone]
    /\ held' = [held EXCEPT ![Server] = NoToken]
    /\ BecomeRelayState(DropRelayState(RelayState, Server))
    /\ allocations' = {} /\ bound' = bound \ PortsOf(allocations)
    /\ UNCHANGED <<issued, allocating>>

\* The server stops and starts again.  Its BYE may be lost, and while it is
\* relayed BYE is a datagram like any other.
Restart ==
    /\ \/ Signals(Server) /\ HandleBye
       \/ UNCHANGED <<roomVars, relayVars, portVars>>
    /\ known' = [known EXCEPT ![Server] = NoToken]
    /\ prefix' = [prefix EXCEPT ![Server] = NoToken]
    /\ UNCHANGED <<modern, phase, patient>>

\* The tables after the first n of these peers have been forgotten, for each n.
Forgetting(order) ==
    LET st[n \in 0 .. Len(order)] ==
          IF n = 0 THEN RelayState ELSE DropRelayState(st[n - 1], order[n])
    IN  st

\* The relays by token that have been silent too long, forgotten one by one.
ForgetIdleRelays ==
    \E order \in SetToSeqs({p \in Peers : relaySeen[p] > RelayTTL}) :
        BecomeRelayState(Forgetting(order)[Len(order)])

IdlePorts == {a \in allocations : a.age > RelayTTL}

\* _prune_all, from housekeeping and LIST.
PruneAll ==
    /\ registered' = Pruned
    /\ ForgetIdleRelays
    /\ allocations' = allocations \ IdlePorts
    /\ bound' = bound \ PortsOf(IdlePorts)
    /\ UNCHANGED <<held, issued, allocating, peerVars>>

\* A client gives up, needs no relay, or its session ends.  Clients send no BYE.
Leave(c) ==
    /\ phase[c] # "gone"
    /\ phase' = [phase EXCEPT ![c] = "gone"]
    /\ UNCHANGED <<roomVars, relayVars, portVars, modern, patient, known, prefix>>

Older(age, ttl) == IF age = Gone \/ age > ttl THEN age ELSE age + 1

\* A client that registers or asks does so for less than a tick.
Waiting(c) == phase[c] = "asking" \/ (phase[c] = "new" /\ registered[c] # Gone)

Tick ==
    /\ \A c \in Clients : Waiting(c) => patient[c]
    /\ allocating = {}
    /\ registered' = [p \in Peers |-> Older(registered[p], PeerTTL)]
    /\ relaySeen' = [p \in Peers |-> Older(relaySeen[p], RelayTTL)]
    /\ allocations' = {WithAge(a, Older(a.age, RelayTTL)) : a \in allocations}
    /\ patient' = [c \in Clients |-> patient[c] /\ ~ Waiting(c)]
    /\ UNCHANGED <<held, issued, tokens, tokenRoutes, relayRoutes, allocating, bound,
                   modern, phase, known, prefix>>

Allocate == \E b \in allocating : BindPort(b) \/ NoPortLeft(b) \/ Allocated(b)

Request(c) == RequestFramed(c) \/ RequestAgain(c) \/ RequestPorts(c) \/ RequestRefused(c)

Next == \/ \E p \in Peers : Register(p) \/ Forward(p) \/ Frame(p)
        \/ \E c \in Clients : Request(c) \/ Traffic(c) \/ Leave(c)
        \/ Allocate
        \/ Restart \/ PruneAll \/ Tick

Spec == Init /\ [][Next]_vars

-----------------------------------------------------------------------------
(* Properties.                                                             *)

PortsTypeOK ==
    /\ allocations \subseteq [client : Clients, ports : SUBSET Ports, age : 0 .. RelayTTL + 1]
    /\ allocating \subseteq [client : Clients, ports : SUBSET Ports]
    /\ bound \subseteq Ports

\* Every table holds what its annotation in BrokerProtocol.__init__ says.
TypeOK ==
    /\ registered \in [Peers -> Gone .. PeerTTL + 1]
    /\ held \in [Peers -> Tokens \cup {NoToken}] /\ issued \in 0 .. MaxTokens
    /\ tokens \in [Tokens -> Peers \cup {None}]
    /\ tokenRoutes \in [Tokens -> Tokens \cup {NoToken}]
    /\ relayRoutes \in [Peers -> Peers \cup {None}]
    /\ relaySeen \in [Peers -> Gone .. RelayTTL + 1]
    /\ PortsTypeOK
    /\ phase \in [Clients -> {"new", "asking", "framing", "port", "gone"}]
    /\ modern \subseteq Peers /\ patient \in [Clients -> BOOLEAN]
    /\ known \in [Peers -> Tokens \cup {NoToken}]
    /\ prefix \in [Peers -> Tokens \cup {NoToken}]

\* Every port the process has bound belongs to one pair, or to the one coroutine
\* that is binding for a pair: retries, exhaustion, BYE and expiry between two
\* binds leak no socket, and no two pairs share a port, so the server can tell
\* relayed clients apart (_alloc_pending, _allocate).
PortsAccounted ==
    /\ bound = PortsOf(allocations) \cup PortsOf(allocating)
    /\ \A a, b \in allocations : a.client = b.client \/ a.ports \cap b.ports # {} => a = b
    /\ \A a, b \in allocating : a.client = b.client \/ a.ports \cap b.ports # {} => a = b
    /\ \A a \in allocations, b \in allocating : a.client # b.client /\ a.ports \cap b.ports = {}

\* A peer whose datagrams are forwarded has an entry by which the route expires,
\* and the server's route leads to a client that leads back to it, so that a
\* client's silence ends both: the server, which keeps its own entry fresh with
\* REGISTERs that are swallowed, is never cut off from the broker for good
\* (_relay_routes and _relay_seen, which four handlers write separately).
RoutesEndTogether ==
    \A p \in Peers : relayRoutes[p] # None =>
        /\ relaySeen[p] # Gone
        /\ p = Server => relayRoutes[relayRoutes[p]] = p

=============================================================================
