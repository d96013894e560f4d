---------------------------- MODULE Sessions ----------------------------
(***************************************************************************)
(* The handshake: the client side of client/net/transport.py and the       *)
(* SessionManager of server/sessions.py, joined by a network that may      *)
(* lose, duplicate, delay and reorder datagrams.  On the server, handlers  *)
(* run on the datapath's thread; set_password and drop run on the web      *)
(* interface's.                                                            *)
(*                                                                         *)
(* Cryptography is symbolic: a key is the pair of the password and the     *)
(* salt it is derived from, and a proof names the key and the two randoms  *)
(* of the exchange.  client_random and the client's source address are     *)
(* both drawn afresh by every attempt and stand for one number, `attempt'. *)
(* A datagram to the server stays in `net' for ever: delivered again it is *)
(* a duplicate or the client's retransmission, which sends the same bytes; *)
(* never delivered it is lost.  An answer stays in the inbox of the        *)
(* client's socket until the client no longer waits for its kind, and is   *)
(* gone when the socket is closed.                                         *)
(***************************************************************************)
EXTENDS Integers, FiniteSets

CONSTANTS
    Clients,        \* client ids
    Controllers,    \* the clients that declare the role "controller"
    Hosts,          \* source IP addresses
    HostOf,         \* the host each client connects from
    Passwords,
    MaxClients,     \* max_clients
    MaxAuxiliary,   \* MAX_AUXILIARY_SESSIONS
    MaxPending,     \* MAX_PENDING_HELLO
    MaxFailures,    \* MAX_ATTEMPTS_PER_WINDOW
    MaxAttempts,    \* bound: connections the clients make
    MaxRandoms,     \* bound: HELLOs the server answers
    MaxChanges      \* bound: calls of set_password

ASSUME SessionsAssumption ==
    /\ Controllers \subseteq Clients
    /\ HostOf \in [Clients -> Hosts]
    /\ Passwords # {}
    /\ MaxClients \in Nat /\ MaxAuxiliary \in Nat
    /\ MaxPending \in Nat \ {0} /\ MaxFailures \in Nat \ {0}
    /\ MaxAttempts \in Nat /\ MaxRandoms \in Nat /\ MaxChanges \in Nat

VARIABLES
    phase,       \* where each client is in its connection
    attempt,     \* each client's current attempt, 0 before the first
    offer,       \* the proof each client last sent: its key and the randoms
    typed,       \* the password each client was given for its attempt
    attempts,    \* attempts made so far, by all the clients
    net,         \* every datagram sent to the server
    inbox,       \* the answers sent to each client's socket
    sessions,    \* _sessions
    pending,     \* _pending_hello: entries with their place in the dict's order
    srv,         \* the handler the datapath's thread is in, and its locals
    password,    \* _password
    salt,        \* _salt
    key,         \* _master_key
    changing,    \* set_password holds _lock
    randoms,     \* server randoms drawn so far
    opened,      \* history: the server randoms that have opened a session
    failures,    \* _RateLimiter._attempts, counted
    locked       \* _RateLimiter._locked_until is in the future

clientVars == <<phase, attempt, offer, typed, attempts>>
secretVars == <<password, salt, key, changing>>
limitVars  == <<failures, locked>>
tableVars  == <<sessions, pending, randoms, opened>>
vars == <<clientVars, net, inbox, srv, secretVars, limitVars, tableVars>>

Attempts == 1 .. MaxAttempts
Randoms  == 1 .. MaxRandoms
Keys     == [password : Passwords, salt : 0 .. MaxChanges]
Proofs   == [key : Keys, attempt : Attempts, random : Randoms]
Reasons  == {"BAD_PASSWORD", "SERVER_FULL", "MALFORMED", "RATE_LIMITED"}

Hello(c, n)        == [type |-> "HELLO", client |-> c, attempt |-> n]
Challenge(s, r)    == [type |-> "CHALLENGE", salt |-> s, random |-> r]
Auth(c, n, p)      == [type |-> "AUTH", client |-> c, attempt |-> n, proof |-> p]
Accepted           == [type |-> "ACCEPT"]
Rejected(why)      == [type |-> "REJECT", reason |-> why]

Hellos     == [type : {"HELLO"}, client : Clients, attempt : Attempts]
Challenges == [type : {"CHALLENGE"}, salt : 0 .. MaxChanges, random : Randoms]
Auths      == [type : {"AUTH"}, client : Clients, attempt : Attempts, proof : Proofs]
Answers    == {Accepted} \cup [type : {"REJECT"}, reason : Reasons]

Entries  == [client : Clients, attempt : Attempts, random : Randoms, place : Randoms]
SessionRecords == [client : Clients, attempt : Attempts, random : Randoms, key : Keys]

Idle == [at |-> "idle"]
NoOffer == [at |-> "none"]

Init ==
    /\ phase = [c \in Clients |-> "closed"]
    /\ attempt = [c \in Clients |-> 0]
    /\ offer = [c \in Clients |-> NoOffer]
    /\ password \in Passwords
    /\ typed = [c \in Clients |-> password]
    /\ attempts = 0
    /\ net = {}
    /\ inbox = [c \in Clients |-> {}]
    /\ sessions = {}
    /\ pending = {}
    /\ srv = Idle
    /\ salt = 0
    /\ key = [password |-> password, salt |-> 0]
    /\ changing = FALSE
    /\ randoms = 0
    /\ opened = {}
    /\ failures = [h \in Hosts |-> 0]
    /\ locked = [h \in Hosts |-> FALSE]

-----------------------------------------------------------------------------
(* The client.  connect closes what was open, binds a fresh socket, draws  *)
(* a fresh random and sends HELLO; closed is every state without a socket. *)

Connect(c, p) ==
    /\ phase[c] \in {"closed", "connected"} \cup Reasons
    /\ attempts < MaxAttempts
    /\ attempts' = attempts + 1
    /\ attempt' = [attempt EXCEPT ![c] = attempts + 1]
    /\ typed' = [typed EXCEPT ![c] = p]
    /\ phase' = [phase EXCEPT ![c] = "hello"]
    /\ offer' = [offer EXCEPT ![c] = NoOffer]
    /\ net' = net \cup {Hello(c, attempts + 1)}
    /\ inbox' = [inbox EXCEPT ![c] = {}]
    /\ UNCHANGED <<srv, secretVars, limitVars, tableVars>>

\* The first CHALLENGE that arrives is the one that is answered; a REJECT that
\* arrives before it is read past.
ReceiveChallenge(c, m) ==
    /\ phase[c] = "hello"
    /\ m.type = "CHALLENGE"
    /\ inbox' = [inbox EXCEPT ![c] = @ \cap Answers]
    /\ LET p == [key |-> [password |-> typed[c], salt |-> m.salt],
                 attempt |-> attempt[c], random |-> m.random]
       IN /\ offer' = [offer EXCEPT ![c] = p]
          /\ net' = net \cup {Auth(c, attempt[c], p)}
    /\ phase' = [phase EXCEPT ![c] = "auth"]
    /\ UNCHANGED <<attempt, typed, attempts, srv, secretVars, limitVars, tableVars>>

\* ACCEPT connects; the first REJECT ends the attempt.
ReceiveAnswer(c, m) ==
    /\ phase[c] = "auth" /\ m \in Answers
    /\ inbox' = [inbox EXCEPT ![c] = {}]
    /\ phase' = [phase EXCEPT ![c] = IF m.type = "ACCEPT" THEN "connected" ELSE m.reason]
    /\ UNCHANGED <<attempt, offer, typed, attempts, net, srv, secretVars, limitVars, tableVars>>

\* The handshake's deadline, the silence timeout of a connection, or the user.
Close(c) ==
    /\ phase[c] \in {"hello", "auth", "connected"}
    /\ phase' = [phase EXCEPT ![c] = "closed"]
    /\ inbox' = [inbox EXCEPT ![c] = {}]
    /\ UNCHANGED <<attempt, offer, typed, attempts, net, srv, secretVars, limitVars, tableVars>>

-----------------------------------------------------------------------------
(* The server's datapath thread.                                           *)

\* An answer reaches the socket it is sent to if that is still open.
Answer(n, m) ==
    inbox' = [c \in Clients |->
                IF /\ attempt[c] = n
                   /\ phase[c] = "hello" \/ (phase[c] = "auth" /\ m \in Answers)
                THEN inbox[c] \cup {m} ELSE inbox[c]]

\* Mutant: the limiter is not asked.
AllowedAlways(c) == TRUE

\* _RateLimiter.check.
Allowed(c) == ~locked[HostOf[c]]

Refuse(n, why) == Answer(n, Rejected(why)) /\ srv' = Idle

\* What is left of the pending handshakes when there must be room for one
\* more, whoever's it is: the first in the dict's order goes.
Evicted ==
    IF Cardinality(pending) < MaxPending THEN {pending}
    ELSE {pending \ {e} : e \in {e \in pending : \A f \in pending : e.place <= f.place}}

\* A client that is pending already keeps its place in the order.
Place(q, c) ==
    IF \E e \in q : e.client = c THEN (CHOOSE e \in q : e.client = c).place ELSE randoms + 1

Remembered(q, c, n) ==
    {e \in q : e.client # c} \cup
        {[client |-> c, attempt |-> n, random |-> randoms + 1, place |-> Place(q, c)]}

HandleHello(m) ==
    /\ srv = Idle /\ m.type = "HELLO"
    /\ \/ /\ ~Allowed(m.client)
          /\ Refuse(m.attempt, "RATE_LIMITED")
          /\ UNCHANGED <<pending, randoms>>
       \/ /\ Allowed(m.client)
          /\ ~changing
          /\ randoms < MaxRandoms
          /\ randoms' = randoms + 1
          /\ \E q \in Evicted : pending' = Remembered(q, m.client, m.attempt)
          /\ srv' = [at |-> "challenge", attempt |-> m.attempt, random |-> randoms + 1]
          /\ UNCHANGED inbox
    /\ UNCHANGED <<clientVars, net, secretVars, limitVars, sessions, opened>>

\* The salt is read after the lock is released.
SendChallenge ==
    /\ srv.at = "challenge"
    /\ Answer(srv.attempt, Challenge(salt, srv.random))
    /\ srv' = Idle
    /\ UNCHANGED <<clientVars, net, secretVars, limitVars, tableVars>>

HandleAuth(m) ==
    /\ srv = Idle /\ m.type = "AUTH"
    /\ \/ /\ ~Allowed(m.client)
          /\ Refuse(m.attempt, "RATE_LIMITED")
       \/ /\ Allowed(m.client)
          /\ ~changing
          /\ \A e \in pending : e.client # m.client
          /\ Refuse(m.attempt, "MALFORMED")
       \/ /\ Allowed(m.client)
          /\ ~changing
          /\ \E e \in pending :
                /\ e.client = m.client
                /\ srv' = [at |-> "verify", auth |-> m, entry |-> e]
          /\ UNCHANGED inbox
    /\ UNCHANGED <<clientVars, net, secretVars, limitVars, tableVars>>

\* Mutant: the randoms are left out of the proof's key.
ProofOfPassword == [srv.auth.proof EXCEPT !.key = key]

\* The proof the server computes from _master_key and the pending randoms.
ExpectedProof == [key |-> key, attempt |-> srv.entry.attempt, random |-> srv.entry.random]

\* record_failure locks the host out with its last allowed failure.
LocksOut(h) == failures[h] + 1 >= MaxFailures

\* _verify_against_keys reads _master_key without the lock.
Verify ==
    /\ srv.at = "verify"
    /\ \/ /\ srv.auth.proof = ExpectedProof
          /\ srv' = [at |-> "create", auth |-> srv.auth, entry |-> srv.entry, key |-> key]
          /\ UNCHANGED <<inbox, limitVars>>
       \/ /\ srv.auth.proof # ExpectedProof
          /\ LET h == HostOf[srv.auth.client]
             IN /\ failures' = [failures EXCEPT ![h] = @ + 1]
                /\ locked' = [locked EXCEPT ![h] = @ \/ LocksOut(h)]
          /\ Refuse(srv.auth.attempt, "BAD_PASSWORD")
    /\ UNCHANGED <<clientVars, net, secretVars, tableVars>>

\* The sessions left once the client's previous one is dropped.
Others(c) == {s \in sessions : s.client # c}

\* Mutant: one player more.
FullPast(c) == Cardinality({s \in Others(c) : s.client \in Controllers}) > MaxClients

Full(c) ==
    IF c \in Controllers
    THEN Cardinality({s \in Others(c) : s.client \in Controllers}) >= MaxClients
    ELSE Cardinality(Others(c)) >= MaxClients + MaxAuxiliary

\* Mutant: the session is keyed with _master_key, read again.
NewSessionRekeyed == [client |-> srv.auth.client, attempt |-> srv.auth.attempt,
                      random |-> srv.entry.random, key |-> key]

\* The session is keyed with what the proof was verified against.
NewSession == [client |-> srv.auth.client, attempt |-> srv.auth.attempt,
               random |-> srv.entry.random, key |-> srv.key]

\* Mutant: the pending entry stays when the session is opened.
Unsettled(c) == pending

Settled(c) == {e \in pending : e.client # c}

\* The second half of handle_auth, under the lock again, and record_success.
\* A client that is refused here has lost its previous session all the same,
\* and its pending entry stays.
Create ==
    /\ srv.at = "create"
    /\ ~changing
    /\ LET c == srv.auth.client
       IN \/ /\ Full(c)
             /\ sessions' = Others(c)
             /\ Refuse(srv.auth.attempt, "SERVER_FULL")
             /\ UNCHANGED <<pending, opened, limitVars>>
          \/ /\ ~Full(c)
             /\ sessions' = Others(c) \cup {NewSession}
             /\ pending' = Settled(c)
             /\ opened' = opened \cup {srv.entry.random}
             /\ failures' = [failures EXCEPT ![HostOf[c]] = 0]
             /\ locked' = [locked EXCEPT ![HostOf[c]] = FALSE]
             /\ Answer(srv.auth.attempt, Accepted)
             /\ srv' = Idle
    /\ UNCHANGED <<clientVars, net, secretVars, randoms>>

\* A DISCONNECT, the reaper or the operator removes the client's session.
Drop(c) ==
    /\ ~changing
    /\ \E s \in sessions : s.client = c
    /\ sessions' = Others(c)
    /\ UNCHANGED <<clientVars, net, inbox, srv, secretVars, limitVars, pending, randoms, opened>>

-----------------------------------------------------------------------------
(* The web interface's thread.  set_password derives the key, slowly, with *)
(* the lock held and the new salt already in place.                        *)

ChangePassword(p) ==
    /\ ~changing
    /\ salt < MaxChanges
    /\ password' = p
    /\ salt' = salt + 1
    /\ changing' = TRUE
    /\ UNCHANGED <<clientVars, net, inbox, srv, key, limitVars, tableVars>>

\* Mutant: only the pending handshakes are discarded.
PasswordChangedKeeping ==
    /\ changing
    /\ key' = [password |-> password, salt |-> salt]
    /\ pending' = {}
    /\ changing' = FALSE
    /\ UNCHANGED <<clientVars, net, inbox, srv, password, salt, limitVars, sessions, randoms, opened>>

PasswordChanged ==
    /\ changing
    /\ key' = [password |-> password, salt |-> salt]
    /\ pending' = {}
    /\ sessions' = {}
    /\ changing' = FALSE
    /\ UNCHANGED <<clientVars, net, inbox, srv, password, salt, limitVars, randoms, opened>>

-----------------------------------------------------------------------------
(* Time: the oldest failure leaves the window; a lockout ends.             *)

FailureAges(h) ==
    /\ failures[h] > 0 /\ ~locked[h]
    /\ failures' = [failures EXCEPT ![h] = @ - 1]
    /\ UNCHANGED <<clientVars, net, inbox, srv, secretVars, locked, tableVars>>

LockoutEnds(h) ==
    /\ locked[h]
    /\ locked' = [locked EXCEPT ![h] = FALSE]
    /\ failures' = [failures EXCEPT ![h] = 0]
    /\ UNCHANGED <<clientVars, net, inbox, srv, secretVars, tableVars>>

Next ==
    \/ \E c \in Clients, p \in Passwords : Connect(c, p)
    \/ \E c \in Clients : \E m \in inbox[c] : ReceiveChallenge(c, m)
    \/ \E c \in Clients : \E m \in inbox[c] : ReceiveAnswer(c, m)
    \/ \E c \in Clients : Close(c)
    \/ \E m \in net : HandleHello(m)
    \/ SendChallenge
    \/ \E m \in net : HandleAuth(m)
    \/ Verify
    \/ Create
    \/ \E c \in Clients : Drop(c)
    \/ \E p \in Passwords : ChangePassword(p)
    \/ PasswordChanged
    \/ \E h \in Hosts : FailureAges(h)
    \/ \E h \in Hosts : LockoutEnds(h)

Spec == Init /\ [][Next]_vars

-----------------------------------------------------------------------------
(* Properties.                                                             *)

\* Every variable keeps its type: at most MaxPending handshakes are pending
\* and at most MaxFailures failures are counted.
TypeOK ==
    /\ phase \in [Clients -> {"closed", "hello", "auth", "connected"} \cup Reasons]
    /\ attempt \in [Clients -> Attempts \cup {0}]
    /\ offer \in [Clients -> Proofs \cup {NoOffer}]
    /\ typed \in [Clients -> Passwords]
    /\ attempts \in 0 .. MaxAttempts
    /\ net \subseteq Hellos \cup Auths
    /\ inbox \in [Clients -> SUBSET (Challenges \cup Answers)]
    /\ sessions \subseteq SessionRecords
    /\ pending \subseteq Entries /\ Cardinality(pending) <= MaxPending
    /\ srv \in {Idle}
          \cup [at : {"challenge"}, attempt : Attempts, random : Randoms]
          \cup [at : {"verify"}, auth : Auths, entry : Entries]
          \cup [at : {"create"}, auth : Auths, entry : Entries, key : Keys]
    /\ password \in Passwords /\ salt \in 0 .. MaxChanges
    /\ key \in Keys /\ changing \in BOOLEAN
    /\ randoms \in 0 .. MaxRandoms /\ opened \subseteq Randoms
    /\ failures \in [Hosts -> 0 .. MaxFailures]
    /\ locked \in [Hosts -> BOOLEAN]

\* The ceilings handle_auth keeps whatever is dropped, replaced or refused
\* between its checks: the players' places are never overdrawn, and what does
\* not play finds room for at most max_clients + MAX_AUXILIARY_SESSIONS.
Ceilings ==
    /\ Cardinality({s \in sessions : s.client \in Controllers}) <= MaxClients
    /\ Cardinality({s \in sessions : s.client \notin Controllers}) <= MaxClients + MaxAuxiliary

\* One exchange of randoms opens one session: an AUTH that the network
\* duplicates or delays never opens a second one, which would drop the live
\* session of the same client and restart its replay window.
NoReplayedSession ==
    [][\A s \in sessions' \ sessions : s.random \notin opened]_vars

\* A client's session is replaced only by a later attempt of that client: no
\* late datagram of an abandoned attempt takes over from the current one.
NewerReplaces ==
    [][\A s \in sessions, t \in sessions' \ sessions :
          s.client = t.client => s.attempt < t.attempt]_vars

\* A client that holds an ACCEPT was given a session in that very exchange,
\* and while the session of that attempt is live both ends hold the same key.
SameExchange ==
    \A c \in Clients : phase[c] = "connected" =>
        /\ offer[c].random \in opened
        /\ \A s \in sessions : s.client = c /\ s.attempt = attempt[c] =>
              s.random = offer[c].random /\ s.key = offer[c].key

\* Each change of password closes every session, up to the one handle_auth may
\* be in the middle of creating: sessions of older passwords never accumulate.
AtMostOneStale ==
    ~changing => Cardinality({s \in sessions : s.key # key}) <= 1

\* A host that is locked out is given no session until its lockout ends.
NoSessionWhileLocked ==
    [][\A s \in sessions' \ sessions : ~locked[HostOf[s.client]]]_vars

=============================================================================
