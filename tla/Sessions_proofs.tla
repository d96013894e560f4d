-------------------------- MODULE Sessions_proofs --------------------------
(***************************************************************************)
(* Proofs about Sessions: its types; that one exchange opens one session;  *)
(* that a locked-out host is given none; that only a later attempt         *)
(* replaces a client's session; that the ceilings hold; that a change of   *)
(* password leaves one stale session at most; that both ends of a session  *)
(* come from one exchange.                                                 *)
(***************************************************************************)
EXTENDS Sessions, FiniteSetTheorems, TLAPS

\* The entry a handler of AUTH holds, as a set.
InHand == IF srv.at \in {"verify", "create"} THEN {srv.entry} ELSE {}

EntriesSeen == pending \cup InHand

AuthsSent == {m \in net : m.type = "AUTH"}

\* The limiter: an address that is not locked out has failures to spare, and
\* the one whose AUTH is in hand is not locked out.
LimitInv ==
    /\ \A h \in Hosts : ~locked[h] => failures[h] < MaxFailures
    /\ srv.at \in {"verify", "create"} => ~locked[HostOf[srv.auth.client]]

\* Randoms are drawn once, belong to one client's entry and leave with the
\* session they open.
RandomInv ==
    /\ opened \subseteq 1 .. randoms
    /\ \A e \in EntriesSeen : e.random \in (1 .. randoms) \ opened
    /\ \A e, f \in EntriesSeen : e.random = f.random => e.client = f.client
    /\ srv.at \in {"verify", "create"} => srv.entry.client = srv.auth.client

\* A client's entry carries the newest random issued to it, so no AUTH or
\* CHALLENGE of that client names a newer one.
NewestInv ==
    /\ \A e \in EntriesSeen :
          /\ \A m \in AuthsSent : m.client = e.client => m.proof.random <= e.random
          /\ \A m \in inbox[e.client] : m.type = "CHALLENGE" => m.random <= e.random
          /\ srv.at = "challenge" /\ attempt[e.client] = srv.attempt => srv.random <= e.random
          /\ \A s \in sessions : s.client = e.client => s.random < e.random

\* Every random in use was drawn.
IssuedInv ==
    /\ \A m \in AuthsSent : m.proof.random <= randoms
    /\ \A c \in Clients : \A m \in inbox[c] : m.type = "CHALLENGE" => m.random <= randoms
    /\ srv.at = "challenge" => srv.random <= randoms
    /\ \A s \in sessions : s.random <= randoms

\* Attempts are numbered across the clients, and what is sent carries the
\* number of the attempt that sent it.
AttemptInv ==
    /\ \A c \in Clients : attempt[c] <= attempts
    /\ \A m \in net : m.attempt <= attempts
    /\ \A m \in net, c \in Clients : m.attempt = attempt[c] => m.client = c
    /\ \A c, d \in Clients : attempt[c] = attempt[d] /\ attempt[c] # 0 => c = d
    /\ \A m \in AuthsSent : /\ m.attempt <= attempt[m.client]
                            /\ phase[m.client] = "hello" => m.attempt < attempt[m.client]
    /\ srv.at = "challenge" => srv.attempt <= attempts
    /\ srv.at \in {"verify", "create"} => srv.auth \in net
    /\ \A s \in sessions : \E m \in AuthsSent : m.client = s.client /\ m.attempt = s.attempt

\* A client's later randoms were answered by its later attempts.
OrderInv ==
    /\ srv.at = "create" => srv.auth.proof.random = srv.entry.random
    /\ \A s \in sessions : \A m \in AuthsSent :
          s.client = m.client /\ s.random < m.proof.random => s.attempt < m.attempt

\* Entries are finitely many, and a client that is not closed made an attempt.
BasicInv ==
    /\ IsFiniteSet(pending)
    /\ \A c \in Clients : phase[c] # "closed" => attempt[c] # 0

IInv == TypeOK /\ BasicInv /\ LimitInv /\ RandomInv /\ IssuedInv /\ NewestInv /\ AttemptInv /\ OrderInv

-----------------------------------------------------------------------------
(* Types.                                                                   *)

\* An answer adds itself to inboxes and leaves the rest of them.
LEMMA AnswerAdds ==
    ASSUME NEW n, NEW m \in Challenges \cup Answers, TypeOK, Answer(n, m)
    PROVE  /\ inbox' \in [Clients -> SUBSET (Challenges \cup Answers)]
           /\ \A c \in Clients : \A x \in inbox'[c] : x \in inbox[c] \/ (x = m /\ attempt[c] = n)
  BY DEF TypeOK, Answer

\* A refusal is an answer.
LEMMA RefusalIsAnswer ==
    ASSUME NEW n, NEW why \in Reasons, TypeOK, Refuse(n, why)
    PROVE  /\ srv' = Idle
           /\ inbox' \in [Clients -> SUBSET (Challenges \cup Answers)]
           /\ \A c \in Clients : \A x \in inbox'[c] : x.type = "CHALLENGE" => x \in inbox[c]
  <1>1. Rejected(why) \in Challenges \cup Answers /\ Rejected(why).type = "REJECT"
    BY DEF Rejected, Answers
  <1> QED BY <1>1, AnswerAdds DEF Refuse

LEMMA OneMore ==
    ASSUME NEW S, IsFiniteSet(S), NEW x
    PROVE  /\ IsFiniteSet(S \cup {x})
           /\ Cardinality(S) \in Nat
           /\ Cardinality(S \cup {x}) \in Nat
           /\ Cardinality(S \cup {x}) <= Cardinality(S) + 1
  <1>1. Cardinality(S) \in Nat
    BY FS_CardinalityType
  <1>2. /\ IsFiniteSet(S \cup {x})
        /\ Cardinality(S \cup {x}) = Cardinality(S) \/ Cardinality(S \cup {x}) = Cardinality(S) + 1
    BY FS_AddElement
  <1> QED BY <1>1, <1>2

\* A new entry fits in the room eviction makes.
LEMMA RoomForEntry ==
    ASSUME TypeOK, BasicInv, randoms < MaxRandoms,
           NEW q \in Evicted, NEW c \in Clients, NEW n \in Attempts
    PROVE  /\ Remembered(q, c, n) \subseteq Entries
           /\ IsFiniteSet(Remembered(q, c, n))
           /\ Cardinality(Remembered(q, c, n)) <= MaxPending
  <1>1. q \subseteq pending /\ IsFiniteSet(q) /\ Cardinality(q) < MaxPending
    <2>1. CASE Cardinality(pending) < MaxPending
      BY <2>1 DEF Evicted, BasicInv
    <2>2. CASE ~(Cardinality(pending) < MaxPending)
      <3>1. PICK e \in pending : q = pending \ {e}
        BY <2>2 DEF Evicted
      <3>2. Cardinality(pending) \in Nat /\ Cardinality(q) = Cardinality(pending) - 1
        BY <3>1, FS_RemoveElement, FS_CardinalityType DEF BasicInv
      <3>3. IsFiniteSet(q)
        BY <3>1, FS_Subset DEF BasicInv
      <3> QED BY <3>1, <3>2, <3>3, SessionsAssumption DEF TypeOK, SessionsAssumption
    <2> QED BY <2>1, <2>2
  <1> DEFINE rest == {e \in q : e.client # c}
             entry == [client |-> c, attempt |-> n, random |-> randoms + 1, place |-> Place(q, c)]
  <1>2. rest \subseteq q /\ IsFiniteSet(rest) /\ Cardinality(rest) <= Cardinality(q)
    BY <1>1, FS_Subset
  <1>3. Cardinality(rest) \in Nat /\ Cardinality(q) \in Nat
    BY <1>1, <1>2, FS_CardinalityType
  <1> HIDE DEF rest, entry
  <1>4. /\ IsFiniteSet(rest \cup {entry})
        /\ Cardinality(rest \cup {entry}) \in Nat
        /\ Cardinality(rest \cup {entry}) <= Cardinality(rest) + 1
    BY <1>2, OneMore
  <1>5. Place(q, c) \in Randoms
    <2>1. randoms + 1 \in Randoms
      BY SessionsAssumption DEF TypeOK, Randoms, SessionsAssumption
    <2>2. CASE \E e \in q : e.client = c
      <3>1. (CHOOSE e \in q : e.client = c) \in q
        BY <2>2
      <3> QED BY <3>1, <2>2, <1>1 DEF Place, TypeOK, Entries
    <2> QED BY <2>1, <2>2 DEF Place
  <1>6. entry \in Entries
    BY <1>5, SessionsAssumption DEF TypeOK, Entries, Randoms, SessionsAssumption, entry
  <1>7. Remembered(q, c, n) = rest \cup {entry}
    BY DEF Remembered, rest, entry
  <1>8. Cardinality(rest \cup {entry}) <= MaxPending
    BY <1>1, <1>2, <1>3, <1>4, SessionsAssumption DEF SessionsAssumption
  <1>9. pending \subseteq Entries
    BY DEF TypeOK
  <1> QED BY <1>1, <1>2, <1>4, <1>6, <1>7, <1>8, <1>9

LEMMA InitInv == Init => IInv
  <1> SUFFICES ASSUME Init PROVE IInv
    OBVIOUS
  <1>1. IsFiniteSet(pending) /\ Cardinality(pending) = 0
    BY FS_EmptySet DEF Init
  <1>2. TypeOK
    <2>1. /\ phase \in [Clients -> {"closed", "hello", "auth", "connected"} \cup Reasons]
          /\ attempt \in [Clients -> Attempts \cup {0}]
          /\ offer \in [Clients -> Proofs \cup {NoOffer}]
          /\ typed \in [Clients -> Passwords]
          /\ inbox \in [Clients -> SUBSET (Challenges \cup Answers)]
      BY DEF Init
    <2>2. /\ attempts \in 0 .. MaxAttempts /\ salt \in 0 .. MaxChanges /\ randoms \in 0 .. MaxRandoms
          /\ Cardinality(pending) <= MaxPending
          /\ failures \in [Hosts -> 0 .. MaxFailures] /\ locked \in [Hosts -> BOOLEAN]
      BY <1>1, SessionsAssumption DEF Init, SessionsAssumption
    <2>3. password \in Passwords /\ key \in Keys /\ changing \in BOOLEAN /\ srv = Idle
      BY <2>2 DEF Init, Keys
    <2>4. net = {} /\ sessions = {} /\ pending = {} /\ opened = {}
      BY DEF Init
    <2> QED BY <2>1, <2>2, <2>3, <2>4 DEF TypeOK
  <1>3. EntriesSeen = {} /\ AuthsSent = {}
    BY DEF Init, EntriesSeen, InHand, AuthsSent, Idle
  <1>4. LimitInv /\ RandomInv /\ IssuedInv /\ NewestInv /\ AttemptInv /\ OrderInv
    BY <1>3, SessionsAssumption
    DEF Init, LimitInv, RandomInv, IssuedInv, NewestInv, AttemptInv, OrderInv, SessionsAssumption, Idle
  <1>5. BasicInv
    BY <1>1 DEF Init, BasicInv
  <1> QED BY <1>2, <1>4, <1>5 DEF IInv

-----------------------------------------------------------------------------
(* Steps.                                                                   *)

\* The locals of the handler the datapath's thread is in.
LEMMA Locals ==
    ASSUME TypeOK
    PROVE  /\ srv.at = "challenge" => srv.attempt \in Attempts /\ srv.random \in Randoms
           /\ srv.at \in {"verify", "create"} => srv.auth \in Auths /\ srv.entry \in Entries
           /\ srv.at = "create" => srv.key \in Keys
           /\ srv.at \in {"idle", "challenge", "verify", "create"}
  BY DEF TypeOK, Idle

LEMMA TypeStep ==
    ASSUME TypeOK, BasicInv, LimitInv, [Next]_vars
    PROVE  TypeOK' /\ BasicInv' /\ LimitInv'
  <1> USE SessionsAssumption DEF SessionsAssumption
  <1>1. ASSUME NEW c \in Clients, NEW p \in Passwords, Connect(c, p)
        PROVE  TypeOK' /\ BasicInv' /\ LimitInv'
    <2>1. attempts + 1 \in Attempts /\ attempts' \in 0 .. MaxAttempts
      BY <1>1 DEF Connect, TypeOK, Attempts
    <2>2. Hello(c, attempts + 1) \in Hellos
      BY <2>1 DEF Hello, Hellos
    <2>3. TypeOK'
      BY <1>1, <2>1, <2>2 DEF Connect, TypeOK, secretVars, limitVars, tableVars
    <2> QED BY <1>1, <2>3 DEF Connect, BasicInv, LimitInv, TypeOK, limitVars, tableVars
  <1>2. ASSUME NEW c \in Clients, NEW m \in inbox[c], ReceiveChallenge(c, m)
        PROVE  TypeOK' /\ BasicInv' /\ LimitInv'
    <2> DEFINE p == [key |-> [password |-> typed[c], salt |-> m.salt],
                     attempt |-> attempt[c], random |-> m.random]
    <2>1. m \in Challenges
      BY <1>2 DEF ReceiveChallenge, TypeOK, Challenges, Answers, Accepted
    <2>2. attempt[c] \in Attempts
      BY <1>2 DEF TypeOK, ReceiveChallenge, BasicInv
    <2>3. p \in Proofs
      BY <2>1, <2>2 DEF TypeOK, Proofs, Keys, Challenges
    <2>4. Auth(c, attempt[c], p) \in Auths
      BY <2>2, <2>3 DEF Auth, Auths
    <2>5. offer' = [offer EXCEPT ![c] = p] /\ net' = net \cup {Auth(c, attempt[c], p)}
      BY <1>2 DEF ReceiveChallenge
    <2> HIDE DEF p
    <2>6. TypeOK'
      BY <1>2, <2>3, <2>4, <2>5 DEF ReceiveChallenge, TypeOK, secretVars, limitVars, tableVars
    <2> QED BY <1>2, <2>6 DEF ReceiveChallenge, BasicInv, LimitInv, TypeOK, limitVars, tableVars
  <1>3. ASSUME NEW c \in Clients, NEW m \in inbox[c], ReceiveAnswer(c, m)
        PROVE  TypeOK' /\ BasicInv' /\ LimitInv'
    <2>1. m.type # "ACCEPT" => m.reason \in Reasons
      BY <1>3 DEF ReceiveAnswer, TypeOK, Challenges, Answers, Accepted
    <2>2. TypeOK'
      BY <1>3, <2>1 DEF ReceiveAnswer, TypeOK, secretVars, limitVars, tableVars
    <2> QED BY <1>3, <2>2 DEF ReceiveAnswer, BasicInv, LimitInv, TypeOK, limitVars, tableVars
  <1>4. ASSUME NEW c \in Clients, Close(c)
        PROVE  TypeOK' /\ BasicInv' /\ LimitInv'
    BY <1>4 DEF Close, TypeOK, BasicInv, LimitInv, clientVars, secretVars, limitVars, tableVars
  <1>5. ASSUME NEW m \in net, HandleHello(m)
        PROVE  TypeOK' /\ BasicInv' /\ LimitInv'
    <2>1. m \in Hellos
      BY <1>5 DEF HandleHello, TypeOK, Hellos, Auths
    <2>2. CASE Refuse(m.attempt, "RATE_LIMITED") /\ UNCHANGED <<pending, randoms>>
      <3>1. srv' = Idle /\ inbox' \in [Clients -> SUBSET (Challenges \cup Answers)]
        BY <2>2, RefusalIsAnswer DEF Reasons
      <3>2. TypeOK'
        BY <1>5, <2>2, <3>1 DEF HandleHello, TypeOK, clientVars, secretVars, limitVars
      <3> QED BY <1>5, <2>2, <3>1, <3>2 DEF HandleHello, BasicInv, LimitInv, clientVars, limitVars, Idle
    <2>3. CASE ~Refuse(m.attempt, "RATE_LIMITED") \/ ~(UNCHANGED <<pending, randoms>>)
      <3>1. /\ randoms < MaxRandoms /\ randoms' = randoms + 1
            /\ srv' = [at |-> "challenge", attempt |-> m.attempt, random |-> randoms + 1]
            /\ inbox' = inbox
            /\ \E q \in Evicted : pending' = Remembered(q, m.client, m.attempt)
        BY <1>5, <2>3 DEF HandleHello
      <3>2. /\ pending' \subseteq Entries /\ IsFiniteSet(pending')
            /\ Cardinality(pending') <= MaxPending
        BY <2>1, <3>1, RoomForEntry DEF Hellos
      <3>3. randoms' \in Randoms /\ randoms' \in 0 .. MaxRandoms
        BY <3>1 DEF TypeOK, Randoms
      <3>4. srv' \in [at : {"challenge"}, attempt : Attempts, random : Randoms]
        BY <2>1, <3>1, <3>3 DEF Hellos
      <3>5. TypeOK'
        BY <1>5, <3>1, <3>2, <3>3, <3>4 DEF HandleHello, TypeOK, clientVars, secretVars, limitVars
      <3> QED BY <1>5, <3>1, <3>2, <3>5 DEF HandleHello, BasicInv, LimitInv, clientVars, limitVars
    <2> QED BY <2>2, <2>3
  <1>6. ASSUME SendChallenge
        PROVE  TypeOK' /\ BasicInv' /\ LimitInv'
    <2>1. Challenge(salt, srv.random) \in Challenges
      BY <1>6, Locals DEF SendChallenge, Challenge, Challenges, TypeOK
    <2>2. inbox' \in [Clients -> SUBSET (Challenges \cup Answers)]
      BY <1>6, <2>1, AnswerAdds DEF SendChallenge
    <2>3. TypeOK'
      BY <1>6, <2>2 DEF SendChallenge, TypeOK, clientVars, secretVars, limitVars, tableVars
    <2> QED BY <1>6, <2>3 DEF SendChallenge, BasicInv, LimitInv, clientVars, limitVars, tableVars, Idle
  <1>7. ASSUME NEW m \in net, HandleAuth(m)
        PROVE  TypeOK' /\ BasicInv' /\ LimitInv'
    <2>1. m \in Auths
      BY <1>7 DEF HandleAuth, TypeOK, Hellos, Auths
    <2>2. ASSUME NEW why \in Reasons, Refuse(m.attempt, why)
          PROVE  TypeOK' /\ BasicInv' /\ LimitInv'
      <3>1. srv' = Idle /\ inbox' \in [Clients -> SUBSET (Challenges \cup Answers)]
        BY <2>2, RefusalIsAnswer
      <3>2. TypeOK'
        BY <1>7, <3>1 DEF HandleAuth, TypeOK, clientVars, secretVars, limitVars, tableVars
      <3> QED BY <1>7, <3>1, <3>2 DEF HandleAuth, BasicInv, LimitInv, clientVars, limitVars, tableVars, Idle
    <2>3. ASSUME Allowed(m.client), NEW e \in pending, UNCHANGED inbox,
                 srv' = [at |-> "verify", auth |-> m, entry |-> e]
          PROVE  TypeOK' /\ BasicInv' /\ LimitInv'
      <3>1. srv' \in [at : {"verify"}, auth : Auths, entry : Entries]
        BY <2>1, <2>3 DEF TypeOK
      <3>2. TypeOK'
        BY <1>7, <2>3, <3>1 DEF HandleAuth, TypeOK, clientVars, secretVars, limitVars, tableVars
      <3> QED BY <1>7, <2>3, <3>2 DEF HandleAuth, BasicInv, LimitInv, clientVars, limitVars, tableVars, Allowed
    <2> QED BY <1>7, <2>2, <2>3 DEF HandleAuth, Reasons
  <1>8. ASSUME Verify
        PROVE  TypeOK' /\ BasicInv' /\ LimitInv'
    <2> DEFINE h == HostOf[srv.auth.client]
    <2>1. srv.at = "verify" /\ srv.auth \in Auths /\ srv.entry \in Entries /\ h \in Hosts
      BY <1>8, Locals DEF Verify, Auths
    <2>2. ~locked[h] /\ failures[h] < MaxFailures
      BY <2>1 DEF LimitInv
    <2>3. CASE srv.auth.proof = ExpectedProof
      <3>1. /\ srv' = [at |-> "create", auth |-> srv.auth, entry |-> srv.entry, key |-> key]
            /\ UNCHANGED <<inbox, limitVars>>
        BY <1>8, <2>3 DEF Verify
      <3>2. srv' \in [at : {"create"}, auth : Auths, entry : Entries, key : Keys]
        BY <2>1, <3>1 DEF TypeOK
      <3>3. TypeOK'
        BY <1>8, <3>1, <3>2 DEF Verify, TypeOK, clientVars, secretVars, limitVars, tableVars
      <3> QED BY <1>8, <2>2, <3>1, <3>3 DEF Verify, BasicInv, LimitInv, clientVars, limitVars, tableVars
    <2>4. CASE srv.auth.proof # ExpectedProof
      <3>1. /\ failures' = [failures EXCEPT ![h] = @ + 1]
            /\ locked' = [locked EXCEPT ![h] = @ \/ LocksOut(h)]
            /\ Refuse(srv.auth.attempt, "BAD_PASSWORD")
        BY <1>8, <2>4 DEF Verify
      <3>2. srv' = Idle /\ inbox' \in [Clients -> SUBSET (Challenges \cup Answers)]
        BY <3>1, RefusalIsAnswer DEF Reasons
      <3>3. failures' \in [Hosts -> 0 .. MaxFailures]
        BY <2>1, <2>2, <3>1 DEF TypeOK
      <3>4. locked' \in [Hosts -> BOOLEAN]
        <4> DEFINE l == locked[h] \/ LocksOut(h)
        <4>1. l \in BOOLEAN /\ locked' = [locked EXCEPT ![h] = l]
          BY <3>1
        <4> HIDE DEF l
        <4> QED BY <4>1, <2>1 DEF TypeOK
      <3>5. TypeOK'
        BY <1>8, <3>2, <3>3, <3>4 DEF Verify, TypeOK, clientVars, secretVars, tableVars
      <3>6. \A g \in Hosts : g # h => locked'[g] = locked[g] /\ failures'[g] = failures[g]
        BY <3>1 DEF TypeOK
      <3>7. failures'[h] = failures[h] + 1 /\ (LocksOut(h) => locked'[h])
        BY <2>1, <3>1 DEF TypeOK
      <3>8. ~locked'[h] => failures'[h] < MaxFailures
        BY <2>1, <2>2, <3>7 DEF TypeOK, LocksOut
      <3>9. LimitInv'
        <4>1. \A g \in Hosts : ~locked'[g] => failures'[g] < MaxFailures
          BY <3>6, <3>8 DEF LimitInv
        <4> QED BY <4>1, <3>2 DEF LimitInv, Idle
      <3> QED BY <1>8, <3>5, <3>9 DEF Verify, BasicInv, clientVars, tableVars
    <2> QED BY <2>3, <2>4
  <1>9. ASSUME Create
        PROVE  TypeOK' /\ BasicInv' /\ LimitInv'
    <2> DEFINE c == srv.auth.client
    <2>1. /\ srv.at = "create" /\ srv.auth \in Auths /\ srv.entry \in Entries /\ srv.key \in Keys
          /\ c \in Clients /\ HostOf[c] \in Hosts
      BY <1>9, Locals DEF Create, Auths
    <2>2. CASE Full(c)
      <3>1. /\ sessions' = Others(c)
            /\ Refuse(srv.auth.attempt, "SERVER_FULL")
            /\ UNCHANGED <<pending, opened, limitVars>>
        BY <1>9, <2>2 DEF Create
      <3>2. srv' = Idle /\ inbox' \in [Clients -> SUBSET (Challenges \cup Answers)]
        BY <3>1, RefusalIsAnswer DEF Reasons
      <3>3. sessions' \subseteq SessionRecords
        BY <3>1 DEF TypeOK, Others
      <3>4. TypeOK'
        BY <1>9, <3>1, <3>2, <3>3 DEF Create, TypeOK, clientVars, secretVars, limitVars
      <3>5. LimitInv'
        BY <3>1, <3>2 DEF LimitInv, limitVars, Idle
      <3>6. BasicInv'
        BY <1>9, <3>1 DEF Create, BasicInv, clientVars
      <3> QED BY <3>4, <3>5, <3>6
    <2>3. CASE ~Full(c)
      <3>1. /\ sessions' = Others(c) \cup {NewSession}
            /\ pending' = Settled(c)
            /\ opened' = opened \cup {srv.entry.random}
            /\ failures' = [failures EXCEPT ![HostOf[c]] = 0]
            /\ locked' = [locked EXCEPT ![HostOf[c]] = FALSE]
            /\ Answer(srv.auth.attempt, Accepted)
            /\ srv' = Idle
        BY <1>9, <2>3 DEF Create
      <3>2. inbox' \in [Clients -> SUBSET (Challenges \cup Answers)]
        BY <3>1, AnswerAdds DEF Answers
      <3>3. NewSession \in SessionRecords
        BY <2>1 DEF NewSession, SessionRecords, Auths, Entries
      <3>4. sessions' \subseteq SessionRecords
        BY <3>1, <3>3 DEF TypeOK, Others
      <3>5. /\ pending' \subseteq pending /\ IsFiniteSet(pending')
            /\ Cardinality(pending') <= Cardinality(pending)
        BY <3>1, FS_Subset DEF Settled, BasicInv
      <3>6. Cardinality(pending') <= MaxPending
        BY <3>5, FS_CardinalityType DEF TypeOK, BasicInv
      <3>7. /\ failures' \in [Hosts -> 0 .. MaxFailures] /\ locked' \in [Hosts -> BOOLEAN]
            /\ opened' \subseteq Randoms
        BY <2>1, <3>1 DEF TypeOK, Entries
      <3>8. TypeOK'
        BY <1>9, <3>1, <3>2, <3>4, <3>5, <3>6, <3>7
        DEF Create, TypeOK, clientVars, secretVars
      <3>9. LimitInv'
        BY <2>1, <3>1 DEF LimitInv, TypeOK, Idle
      <3>10. BasicInv'
        BY <1>9, <3>5 DEF Create, BasicInv, clientVars
      <3> QED BY <3>8, <3>9, <3>10
    <2> QED BY <2>2, <2>3
  <1>10. ASSUME NEW c \in Clients, Drop(c)
         PROVE  TypeOK' /\ BasicInv' /\ LimitInv'
    BY <1>10 DEF Drop, Others, TypeOK, BasicInv, LimitInv, clientVars, secretVars, limitVars
  <1>11. ASSUME NEW p \in Passwords, ChangePassword(p)
         PROVE  TypeOK' /\ BasicInv' /\ LimitInv'
    <2>1. password' \in Passwords /\ salt' \in 0 .. MaxChanges /\ changing' \in BOOLEAN
      BY <1>11 DEF ChangePassword, TypeOK
    <2>2. TypeOK'
      BY <1>11, <2>1 DEF ChangePassword, TypeOK, clientVars, limitVars, tableVars
    <2> QED BY <1>11, <2>2 DEF ChangePassword, BasicInv, LimitInv, clientVars, limitVars, tableVars
  <1>12. ASSUME PasswordChanged
         PROVE  TypeOK' /\ BasicInv' /\ LimitInv'
    <2>1. IsFiniteSet(pending') /\ Cardinality(pending') = 0 /\ pending' = {} /\ sessions' = {}
      BY <1>12, FS_EmptySet DEF PasswordChanged
    <2>2. Cardinality(pending') <= MaxPending /\ key' \in Keys /\ changing' \in BOOLEAN
      <3>1. Cardinality(pending') <= MaxPending
        BY <2>1
      <3> QED BY <1>12, <3>1 DEF PasswordChanged, TypeOK, Keys
    <2>3. TypeOK'
      BY <1>12, <2>1, <2>2 DEF PasswordChanged, TypeOK, clientVars, limitVars
    <2> QED BY <1>12, <2>1, <2>3 DEF PasswordChanged, BasicInv, LimitInv, clientVars, limitVars
  <1>13. ASSUME NEW h \in Hosts, FailureAges(h)
         PROVE  TypeOK' /\ BasicInv' /\ LimitInv'
    <2>1. failures' \in [Hosts -> 0 .. MaxFailures] /\ failures'[h] < failures[h]
      BY <1>13 DEF FailureAges, TypeOK
    <2>2. TypeOK'
      BY <1>13, <2>1 DEF FailureAges, TypeOK, clientVars, secretVars, tableVars
    <2> QED BY <1>13, <2>1, <2>2 DEF FailureAges, BasicInv, LimitInv, clientVars, TypeOK, tableVars
  <1>14. ASSUME NEW h \in Hosts, LockoutEnds(h)
         PROVE  TypeOK' /\ BasicInv' /\ LimitInv'
    BY <1>14 DEF LockoutEnds, TypeOK, BasicInv, LimitInv, clientVars, secretVars, tableVars
  <1>15. ASSUME UNCHANGED vars
         PROVE  TypeOK' /\ BasicInv' /\ LimitInv'
    BY <1>15 DEF vars, TypeOK, BasicInv, LimitInv, clientVars, secretVars, limitVars, tableVars
  <1> QED
    BY <1>1, <1>2, <1>3, <1>4, <1>5, <1>6, <1>7, <1>8, <1>9, <1>10, <1>11, <1>12, <1>13, <1>14, <1>15
    DEF Next

-----------------------------------------------------------------------------
(* What a step may do to the tables: nothing new, one entry for a HELLO, or *)
(* one session for the AUTH in hand.                                        *)

Quiet ==
    /\ EntriesSeen' \subseteq EntriesSeen
    /\ sessions' \subseteq sessions
    /\ UNCHANGED <<randoms, opened>>

Issues(m) ==
    /\ m \in net /\ m.type = "HELLO" /\ srv = Idle
    /\ randoms' = randoms + 1
    /\ srv' = [at |-> "challenge", attempt |-> m.attempt, random |-> randoms + 1]
    /\ \A e \in EntriesSeen' : \/ e \in EntriesSeen /\ e.client # m.client
                               \/ e.client = m.client /\ e.random = randoms + 1
    /\ UNCHANGED <<clientVars, net, inbox, sessions, opened>>

Opens ==
    /\ srv.at = "create" /\ srv' = Idle
    /\ EntriesSeen' = Settled(srv.auth.client)
    /\ sessions' = Others(srv.auth.client) \cup {NewSession}
    /\ opened' = opened \cup {srv.entry.random}
    /\ UNCHANGED <<clientVars, net, randoms>>

LEMMA IssuesIfAnswered ==
    ASSUME NEW m \in net, HandleHello(m), ~Refuse(m.attempt, "RATE_LIMITED")
    PROVE  Issues(m)
  <1>1. srv = Idle /\ InHand = {}
    BY DEF HandleHello, InHand, Idle
  <1>2. /\ randoms' = randoms + 1
        /\ srv' = [at |-> "challenge", attempt |-> m.attempt, random |-> randoms + 1]
        /\ inbox' = inbox
        /\ \E q \in Evicted : pending' = Remembered(q, m.client, m.attempt)
    BY DEF HandleHello
  <1>3. InHand' = {}
    BY <1>2 DEF InHand
  <1>4. PICK q \in Evicted : pending' = Remembered(q, m.client, m.attempt)
    BY <1>2
  <1>5. q \subseteq pending
    BY DEF Evicted
  <1>6. \A e \in pending' : \/ e \in pending /\ e.client # m.client
                            \/ e.client = m.client /\ e.random = randoms + 1
    BY <1>4, <1>5 DEF Remembered
  <1> QED BY <1>1, <1>2, <1>3, <1>6 DEF HandleHello, Issues, EntriesSeen

LEMMA StepKind ==
    ASSUME TypeOK, [Next]_vars
    PROVE  Quiet \/ (\E m \in net : Issues(m)) \/ (Create /\ Opens)
  <1>1. CASE UNCHANGED <<srv, tableVars>>
    BY <1>1 DEF Quiet, EntriesSeen, InHand, tableVars
  <1>2. ASSUME NEW m \in net, HandleHello(m)
        PROVE  Quiet \/ (\E n \in net : Issues(n)) \/ (Create /\ Opens)
    <2>1. InHand = {}
      BY <1>2 DEF HandleHello, InHand, Idle
    <2>2. CASE Refuse(m.attempt, "RATE_LIMITED") /\ UNCHANGED <<pending, randoms>>
      <3>1. InHand' = {}
        BY <2>2 DEF Refuse, InHand, Idle
      <3> QED BY <1>2, <2>1, <2>2, <3>1 DEF HandleHello, Quiet, EntriesSeen
    <2>3. CASE ~(Refuse(m.attempt, "RATE_LIMITED") /\ UNCHANGED <<pending, randoms>>)
      <3>1. ~Refuse(m.attempt, "RATE_LIMITED")
        BY <1>2, <2>3 DEF HandleHello, Refuse, Idle
      <3> QED BY <1>2, <3>1, IssuesIfAnswered
    <2> QED BY <2>2, <2>3
  <1>3. CASE SendChallenge
    BY <1>3 DEF SendChallenge, Quiet, EntriesSeen, InHand, Idle, tableVars
  <1>4. ASSUME NEW m \in net, HandleAuth(m)
        PROVE  Quiet
    <2>1. InHand' \subseteq pending
      BY <1>4 DEF HandleAuth, Refuse, InHand, Idle
    <2> QED BY <1>4, <2>1 DEF HandleAuth, Quiet, EntriesSeen, tableVars
  <1>5. CASE Verify
    <2>1. InHand' \subseteq InHand
      BY <1>5 DEF Verify, Refuse, InHand, Idle
    <2> QED BY <1>5, <2>1 DEF Verify, Quiet, EntriesSeen, tableVars
  <1>6. CASE Create
    <2>1. srv.at = "create" /\ srv' = Idle /\ InHand' = {}
      BY <1>6 DEF Create, Refuse, InHand, Idle
    <2>2. CASE Full(srv.auth.client)
      BY <1>6, <2>1, <2>2 DEF Create, Quiet, EntriesSeen, Others
    <2>3. CASE ~Full(srv.auth.client)
      BY <1>6, <2>1, <2>3 DEF Create, Opens, EntriesSeen
    <2> QED BY <2>2, <2>3
  <1>7. ASSUME NEW c \in Clients, Drop(c)
        PROVE  Quiet
    BY <1>7 DEF Drop, Quiet, EntriesSeen, InHand, Others
  <1>8. CASE PasswordChanged
    BY <1>8 DEF PasswordChanged, Quiet, EntriesSeen, InHand
  <1>9. CASE UNCHANGED vars
    BY <1>9, <1>1 DEF vars, tableVars
  <1> QED
    BY <1>1, <1>2, <1>3, <1>4, <1>5, <1>6, <1>7, <1>8, <1>9
    DEF Next, Connect, ReceiveChallenge, ReceiveAnswer, Close, ChangePassword, FailureAges,
        LockoutEnds

\* What a step may do to the handler.
LEMMA HandlerKind ==
    ASSUME [Next]_vars
    PROVE  \/ srv' = srv
           \/ srv' = Idle
           \/ \E m \in net : Issues(m) /\ HandleHello(m)
           \/ /\ \E m \in net, e \in pending :
                    /\ m.type = "AUTH" /\ e.client = m.client
                    /\ srv' = [at |-> "verify", auth |-> m, entry |-> e]
              /\ UNCHANGED <<clientVars, net>>
           \/ /\ srv.at = "verify" /\ srv.auth.proof = ExpectedProof
              /\ srv' = [at |-> "create", auth |-> srv.auth, entry |-> srv.entry, key |-> key]
              /\ UNCHANGED <<clientVars, net>>
  <1> DEFINE Goal ==
           \/ srv' = srv
           \/ srv' = Idle
           \/ \E m \in net : Issues(m) /\ HandleHello(m)
           \/ /\ \E m \in net, e \in pending :
                    /\ m.type = "AUTH" /\ e.client = m.client
                    /\ srv' = [at |-> "verify", auth |-> m, entry |-> e]
              /\ UNCHANGED <<clientVars, net>>
           \/ /\ srv.at = "verify" /\ srv.auth.proof = ExpectedProof
              /\ srv' = [at |-> "create", auth |-> srv.auth, entry |-> srv.entry, key |-> key]
              /\ UNCHANGED <<clientVars, net>>
  <1>1. ASSUME NEW m \in net, HandleHello(m) PROVE Goal
    <2>1. CASE Refuse(m.attempt, "RATE_LIMITED")
      BY <2>1 DEF Refuse
    <2>2. CASE ~Refuse(m.attempt, "RATE_LIMITED")
      <3>1. Issues(m)
        BY <1>1, <2>2, IssuesIfAnswered
      <3> QED BY <1>1, <3>1
    <2> QED BY <2>1, <2>2
  <1>2. ASSUME NEW m \in net, HandleAuth(m) PROVE Goal
    BY <1>2 DEF HandleAuth, Refuse
  <1>3. ASSUME Verify PROVE Goal
    BY <1>3 DEF Verify, Refuse
  <1>4. ASSUME SendChallenge \/ Create PROVE Goal
    BY <1>4 DEF SendChallenge, Create, Refuse
  <1>5. ASSUME srv' = srv PROVE Goal
    BY <1>5
  <1> HIDE DEF Goal
  <1>6. \/ \E m \in net : HandleHello(m)
        \/ \E m \in net : HandleAuth(m)
        \/ Verify \/ SendChallenge \/ Create
        \/ srv' = srv
    BY DEF Next, vars, Connect, ReceiveChallenge, ReceiveAnswer, Close, Drop, ChangePassword,
        PasswordChanged, FailureAges, LockoutEnds
  <1>7. Goal
    BY <1>1, <1>2, <1>3, <1>4, <1>5, <1>6
  <1> QED BY <1>7 DEF Goal

LEMMA RandomStep ==
    ASSUME TypeOK, RandomInv, [Next]_vars
    PROVE  RandomInv'
  <1>1. CASE Quiet
    <2>1. srv'.at \in {"verify", "create"} => srv'.entry.client = srv'.auth.client
      BY HandlerKind DEF Issues, RandomInv, Idle
    <2> QED BY <1>1, <2>1 DEF Quiet, RandomInv
  <1>2. ASSUME NEW m \in net, Issues(m)
        PROVE  RandomInv'
    BY <1>2 DEF Issues, RandomInv, TypeOK
  <1>3. CASE Create /\ Opens
    <2>1. srv.entry \in EntriesSeen /\ srv.entry.client = srv.auth.client /\ srv.entry.random \in 1 .. randoms
      BY <1>3 DEF Opens, EntriesSeen, InHand, RandomInv
    <2>2. \A e \in EntriesSeen' : e \in EntriesSeen /\ e.random # srv.entry.random
      BY <1>3, <2>1 DEF Opens, Settled, EntriesSeen, RandomInv
    <2>3. \A e \in EntriesSeen' : e.random \in (1 .. randoms') \ opened'
      BY <1>3, <2>2 DEF Opens, RandomInv
    <2> QED BY <1>3, <2>1, <2>2, <2>3 DEF Opens, RandomInv, Idle
  <1> QED BY <1>1, <1>2, <1>3, StepKind

\* What a step may do to the datagrams under way.
LEMMA NetKind ==
    ASSUME TypeOK, [Next]_vars
    PROVE  \/ UNCHANGED <<clientVars, net>>
           \/ \E c \in Clients :
                 /\ attempts' = attempts + 1
                 /\ attempt' = [attempt EXCEPT ![c] = attempts + 1]
                 /\ phase' = [phase EXCEPT ![c] = "hello"]
                 /\ net' = net \cup {Hello(c, attempts + 1)}
                 /\ inbox' = [inbox EXCEPT ![c] = {}]
                 /\ UNCHANGED <<srv, tableVars>>
           \/ \E c \in Clients : \E m \in inbox[c] :
                 /\ ReceiveChallenge(c, m) /\ m.type = "CHALLENGE"
                 /\ AuthsSent' \subseteq AuthsSent \cup
                       {Auth(c, attempt[c], [key |-> [password |-> typed[c], salt |-> m.salt],
                                             attempt |-> attempt[c], random |-> m.random])}
                 /\ UNCHANGED <<srv, tableVars, attempt, attempts>>
           \/ /\ \A c \in Clients : phase'[c] # "hello" \/ phase'[c] = phase[c]
              /\ UNCHANGED <<attempt, attempts, net, srv, tableVars>>
  <1>1. ASSUME NEW c \in Clients, NEW p \in Passwords, Connect(c, p)
        PROVE  /\ attempts' = attempts + 1
               /\ attempt' = [attempt EXCEPT ![c] = attempts + 1]
               /\ phase' = [phase EXCEPT ![c] = "hello"]
               /\ net' = net \cup {Hello(c, attempts + 1)}
               /\ inbox' = [inbox EXCEPT ![c] = {}]
               /\ UNCHANGED <<srv, tableVars>>
    BY <1>1 DEF Connect
  <1>2. ASSUME NEW c \in Clients, NEW m \in inbox[c], ReceiveChallenge(c, m)
        PROVE  /\ m.type = "CHALLENGE"
               /\ AuthsSent' \subseteq AuthsSent \cup
                     {Auth(c, attempt[c], [key |-> [password |-> typed[c], salt |-> m.salt],
                                           attempt |-> attempt[c], random |-> m.random])}
               /\ UNCHANGED <<srv, tableVars, attempt, attempts>>
    BY <1>2 DEF ReceiveChallenge, AuthsSent
  <1>3. ASSUME NEW c \in Clients, \/ Close(c) \/ \E m \in inbox[c] : ReceiveAnswer(c, m)
        PROVE  /\ \A d \in Clients : phase'[d] # "hello" \/ phase'[d] = phase[d]
               /\ UNCHANGED <<attempt, attempts, net, srv, tableVars>>
    <2>1. CASE Close(c)
      BY <2>1 DEF Close, TypeOK
    <2>2. ASSUME NEW m \in inbox[c], ReceiveAnswer(c, m)
          PROVE  /\ \A d \in Clients : phase'[d] # "hello" \/ phase'[d] = phase[d]
                 /\ UNCHANGED <<attempt, attempts, net, srv, tableVars>>
      <3>1. m = Accepted \/ m.reason \in Reasons
        BY <2>2 DEF ReceiveAnswer, Answers
      <3>2. phase'[c] # "hello"
        BY <2>2, <3>1 DEF ReceiveAnswer, TypeOK, Accepted, Reasons, Answers
      <3> QED BY <2>2, <3>2 DEF ReceiveAnswer, TypeOK
    <2> QED BY <1>3, <2>1, <2>2
  <1>4. \/ \E c \in Clients, p \in Passwords : Connect(c, p)
        \/ \E c \in Clients : \E m \in inbox[c] : ReceiveChallenge(c, m)
        \/ \E c \in Clients : \E m \in inbox[c] : ReceiveAnswer(c, m)
        \/ \E c \in Clients : Close(c)
        \/ UNCHANGED <<clientVars, net>>
    BY DEF Next, vars, HandleHello, SendChallenge, HandleAuth, Verify, Create, Drop,
        ChangePassword, PasswordChanged, FailureAges, LockoutEnds
  <1> QED BY <1>1, <1>2, <1>3, <1>4

\* What a step may do to the inboxes.
LEMMA InboxKind ==
    ASSUME TypeOK, [Next]_vars, NEW c \in Clients, NEW x \in inbox'[c], x.type = "CHALLENGE"
    PROVE  \/ x \in inbox[c]
           \/ SendChallenge /\ attempt[c] = srv.attempt /\ x.random = srv.random
  <1>1. CASE SendChallenge
    <2>1. Challenge(salt, srv.random) \in Challenges
      BY <1>1, Locals DEF SendChallenge, Challenge, Challenges, TypeOK
    <2> QED BY <1>1, <2>1, AnswerAdds DEF SendChallenge, Challenge
  <1>2. CASE Create
    <2>1. CASE Refuse(srv.auth.attempt, "SERVER_FULL")
      BY <2>1, RefusalIsAnswer DEF Reasons
    <2>2. CASE Answer(srv.auth.attempt, Accepted)
      BY <2>2, AnswerAdds DEF Answers, Accepted
    <2> QED BY <1>2, <2>1, <2>2 DEF Create
  <1>3. ASSUME NEW m \in net, HandleHello(m) \/ HandleAuth(m)
        PROVE  x \in inbox[c]
    <2>1. UNCHANGED inbox \/ \E why \in Reasons : Refuse(m.attempt, why)
      BY <1>3 DEF HandleHello, HandleAuth, Reasons
    <2> QED BY <2>1, RefusalIsAnswer
  <1>4. CASE Verify
    <2>1. UNCHANGED inbox \/ \E why \in Reasons : Refuse(srv.auth.attempt, why)
      BY <1>4 DEF Verify, Reasons
    <2> QED BY <2>1, RefusalIsAnswer
  <1>5. ASSUME NEW d \in Clients, \/ Close(d) \/ \E p \in Passwords : Connect(d, p)
                                  \/ \E m \in inbox[d] : ReceiveAnswer(d, m)
        PROVE  x \in inbox[c]
    BY <1>5 DEF Close, Connect, ReceiveAnswer, TypeOK
  <1>6. ASSUME NEW d \in Clients, \E m \in inbox[d] : ReceiveChallenge(d, m)
        PROVE  x \in inbox[c]
    BY <1>6 DEF ReceiveChallenge, TypeOK
  <1>7. \/ SendChallenge \/ Create \/ Verify
        \/ \E m \in net : HandleHello(m) \/ HandleAuth(m)
        \/ \E d \in Clients : \/ Close(d) \/ \E p \in Passwords : Connect(d, p)
                              \/ \E m \in inbox[d] : ReceiveAnswer(d, m)
        \/ \E d \in Clients : \E m \in inbox[d] : ReceiveChallenge(d, m)
        \/ UNCHANGED inbox
    BY DEF Next, vars, Drop, ChangePassword, PasswordChanged, FailureAges, LockoutEnds
  <1> QED BY <1>1, <1>2, <1>3, <1>4, <1>5, <1>6, <1>7

LEMMA IssuedStep ==
    ASSUME TypeOK, RandomInv, IssuedInv, [Next]_vars
    PROVE  IssuedInv'
  <1>1. randoms \in Nat /\ randoms' \in Nat /\ randoms <= randoms'
    BY StepKind DEF TypeOK, Quiet, Issues, Opens
  <1>2. \A m \in AuthsSent : m.proof.random \in Nat
    BY DEF TypeOK, AuthsSent, Hellos, Auths, Proofs, Randoms
  <1>3. ASSUME NEW c \in Clients, NEW m \in inbox[c], m.type = "CHALLENGE"
        PROVE  m.random \in Nat
    BY <1>3 DEF TypeOK, Challenges, Answers, Accepted, Randoms
  <1>4. ASSUME NEW m \in AuthsSent'
        PROVE  m.proof.random <= randoms'
    <2>1. CASE m \in AuthsSent
      BY <1>1, <1>2, <2>1 DEF IssuedInv
    <2>2. CASE m \notin AuthsSent
      <3> DEFINE Now(c, n) ==
                /\ n.type = "CHALLENGE"
                /\ m = Auth(c, attempt[c], [key |-> [password |-> typed[c], salt |-> n.salt],
                                            attempt |-> attempt[c], random |-> n.random])
      <3>1. UNCHANGED <<clientVars, net>> => FALSE
        BY <2>2 DEF AuthsSent
      <3>2. net' = net => FALSE
        BY <2>2 DEF AuthsSent
      <3>3. \A c \in Clients : net' = net \cup {Hello(c, attempts + 1)} => FALSE
        BY <2>2 DEF AuthsSent, Hello
      <3>4. \E c \in Clients : \E n \in inbox[c] :
               /\ n.type = "CHALLENGE"
               /\ AuthsSent' \subseteq AuthsSent \cup
                    {Auth(c, attempt[c], [key |-> [password |-> typed[c], salt |-> n.salt],
                                          attempt |-> attempt[c], random |-> n.random])}
        BY <3>1, <3>2, <3>3, NetKind
      <3>5. PICK c \in Clients : \E n \in inbox[c] : Now(c, n)
        BY <2>2, <3>4
      <3>6. PICK n \in inbox[c] : Now(c, n)
        BY <3>5
      <3>7. m.proof.random = n.random
        BY <3>6 DEF Auth
      <3> QED BY <1>1, <1>3, <3>6, <3>7 DEF IssuedInv
    <2> QED BY <2>1, <2>2
  <1>5. ASSUME NEW c \in Clients, NEW m \in inbox'[c], m.type = "CHALLENGE"
        PROVE  m.random <= randoms'
    <2>1. CASE m \in inbox[c]
      BY <1>1, <1>3, <1>5, <2>1 DEF IssuedInv
    <2>2. CASE SendChallenge /\ m.random = srv.random
      BY <1>1, <2>2, Locals DEF IssuedInv, SendChallenge, Randoms
    <2> QED BY <1>5, <2>1, <2>2, InboxKind
  <1>6. srv'.at = "challenge" => srv'.random <= randoms'
    <2>1. CASE srv' = srv
      BY <1>1, <2>1, Locals DEF IssuedInv, Randoms
    <2>2. CASE \E m \in net : Issues(m)
      BY <1>1, <2>2 DEF Issues
    <2> QED BY <2>1, <2>2, HandlerKind DEF Idle
  <1>7. ASSUME NEW s \in sessions'
        PROVE  s.random <= randoms'
    <2>1. CASE s \in sessions
      <3>1. s.random \in Nat
        BY <2>1 DEF TypeOK, SessionRecords, Randoms
      <3> QED BY <1>1, <2>1, <3>1 DEF IssuedInv
    <2>2. CASE Opens /\ s = NewSession
      <3>1. srv.entry \in EntriesSeen /\ s.random = srv.entry.random
        BY <2>2 DEF Opens, EntriesSeen, InHand, NewSession
      <3> QED BY <2>2, <3>1 DEF Opens, RandomInv
    <2>3. s \in sessions \/ (Opens /\ s = NewSession)
      BY StepKind DEF Quiet, Issues, Opens, Others
    <2> QED BY <2>1, <2>2, <2>3
  <1> QED BY <1>4, <1>5, <1>6, <1>7 DEF IssuedInv

LEMMA AttemptStep ==
    ASSUME TypeOK, BasicInv, RandomInv, AttemptInv, [Next]_vars
    PROVE  AttemptInv'
  <1> DEFINE Sent ==
           /\ \A c \in Clients : attempt[c] <= attempts
           /\ \A m \in net : m.attempt <= attempts
           /\ \A m \in net, c \in Clients : m.attempt = attempt[c] => m.client = c
           /\ \A c, d \in Clients : attempt[c] = attempt[d] /\ attempt[c] # 0 => c = d
           /\ \A m \in AuthsSent : /\ m.attempt <= attempt[m.client]
                                   /\ phase[m.client] = "hello" => m.attempt < attempt[m.client]
  <1>1. net \subseteq net' /\ AuthsSent \subseteq AuthsSent' /\ attempts \in Nat
        /\ attempts' \in Nat /\ attempts <= attempts'
    <2>1. net \subseteq net'
      BY NetKind DEF ReceiveChallenge
    <2>2. attempts' = attempts \/ attempts' = attempts + 1
      BY NetKind DEF clientVars
    <2>3. attempts \in Nat
      BY DEF TypeOK
    <2> QED BY <2>1, <2>2, <2>3 DEF AuthsSent
  <1>2. \A c \in Clients : attempt[c] \in Nat
    BY DEF TypeOK, Attempts
  <1>3. \A m \in net : m.attempt \in Nat /\ m.attempt # 0 /\ m.client \in Clients
    BY DEF TypeOK, Hellos, Auths, Attempts
  <1>4. Sent
    BY DEF AttemptInv
  <1>5. Sent'
    <2>1. CASE UNCHANGED <<clientVars, net>>
      BY <1>4, <2>1 DEF clientVars, AuthsSent
    <2>2. ASSUME NEW c \in Clients,
                 attempts' = attempts + 1,
                 attempt' = [attempt EXCEPT ![c] = attempts + 1],
                 phase' = [phase EXCEPT ![c] = "hello"],
                 net' = net \cup {Hello(c, attempts + 1)}
          PROVE  Sent'
      <3>1. /\ attempt'[c] = attempts + 1 /\ phase'[c] = "hello"
            /\ \A d \in Clients : d # c => attempt'[d] = attempt[d] /\ phase'[d] = phase[d]
        BY <2>2 DEF TypeOK
      <3>2. AuthsSent' = AuthsSent
        BY <2>2 DEF AuthsSent, Hello
      <3>3. \A m \in net' : m \in net \/ (m.client = c /\ m.attempt = attempts + 1)
        BY <2>2 DEF Hello
      <3>4. \A d \in Clients : attempt'[d] <= attempts'
        BY <1>1, <1>2, <1>4, <2>2, <3>1
      <3>5. \A m \in net' : m.attempt <= attempts'
        BY <1>1, <1>3, <1>4, <2>2, <3>3
      <3>6. \A m \in net', d \in Clients : m.attempt = attempt'[d] => m.client = d
        BY <1>1, <1>2, <1>3, <1>4, <3>1, <3>3
      <3>7. \A d, e \in Clients : attempt'[d] = attempt'[e] /\ attempt'[d] # 0 => d = e
        BY <1>1, <1>2, <1>4, <3>1
      <3>8. \A m \in AuthsSent : m \in net
        BY DEF AuthsSent
      <3>9. \A m \in AuthsSent' : /\ m.attempt <= attempt'[m.client]
                                  /\ phase'[m.client] = "hello" => m.attempt < attempt'[m.client]
        BY <1>1, <1>2, <1>3, <1>4, <3>1, <3>2, <3>8
      <3> QED BY <3>4, <3>5, <3>6, <3>7, <3>9
    <2>3. ASSUME NEW c \in Clients, NEW n \in inbox[c], ReceiveChallenge(c, n),
                 UNCHANGED <<attempt, attempts>>
          PROVE  Sent'
      <3> DEFINE a == Auth(c, attempt[c], [key |-> [password |-> typed[c], salt |-> n.salt],
                                           attempt |-> attempt[c], random |-> n.random])
      <3>1. net' = net \cup {a} /\ a.attempt = attempt[c] /\ a.client = c
        BY <2>3 DEF ReceiveChallenge, Auth
      <3>2. phase' = [phase EXCEPT ![c] = "auth"] /\ phase[c] = "hello"
        BY <2>3 DEF ReceiveChallenge
      <3> HIDE DEF a
      <3>3. \A m \in AuthsSent' : m \in AuthsSent \/ m = a
        BY <3>1 DEF AuthsSent
      <3>4. phase'[c] = "auth" /\ \A d \in Clients : d # c => phase'[d] = phase[d]
        BY <3>2 DEF TypeOK
      <3>5. attempt[c] # 0 => \A d \in Clients : attempt[d] = attempt[c] => d = c
        BY <1>4
      <3>6. attempt[c] # 0
        BY <3>2 DEF BasicInv
      <3>7. \A m \in AuthsSent : m \in net
        BY DEF AuthsSent
      <3>8. \A m \in net', d \in Clients : m.attempt = attempt'[d] => m.client = d
        BY <1>4, <2>3, <3>1, <3>5, <3>6
      <3>9. \A m \in AuthsSent' : /\ m.attempt <= attempt'[m.client]
                                  /\ phase'[m.client] = "hello" => m.attempt < attempt'[m.client]
        BY <1>2, <1>3, <1>4, <2>3, <3>1, <3>3, <3>4, <3>7
      <3> QED BY <1>1, <1>2, <1>3, <1>4, <2>3, <3>1, <3>8, <3>9
    <2>4. ASSUME \A c \in Clients : phase'[c] # "hello" \/ phase'[c] = phase[c],
                 UNCHANGED <<attempt, attempts, net>>
          PROVE  Sent'
      <3>1. \A m \in AuthsSent : m.client \in Clients
        BY <1>3 DEF AuthsSent
      <3> QED BY <1>4, <2>4, <3>1 DEF AuthsSent
    <2> HIDE DEF Sent
    <2> QED BY <2>1, <2>2, <2>3, <2>4, NetKind
  <1>6. srv'.at = "challenge" => srv'.attempt <= attempts'
    <2>1. CASE srv' = srv
      BY <1>1, <2>1, Locals DEF AttemptInv, Attempts
    <2>2. ASSUME NEW m \in net, Issues(m)
          PROVE  srv'.attempt <= attempts'
      BY <1>1, <2>2 DEF Issues, AttemptInv, clientVars
    <2> QED BY <2>1, <2>2, HandlerKind DEF Idle
  <1>7. srv'.at \in {"verify", "create"} => srv'.auth \in net'
    BY <1>1, HandlerKind DEF AttemptInv, Issues, Idle
  <1>8. ASSUME NEW s \in sessions'
        PROVE  \E m \in AuthsSent' : m.client = s.client /\ m.attempt = s.attempt
    <2>1. CASE s \in sessions
      BY <1>1, <2>1 DEF AttemptInv
    <2>2. CASE Opens /\ s = NewSession
      <3>1. srv.auth \in AuthsSent
        BY <2>2, Locals DEF Opens, AttemptInv, AuthsSent, Auths
      <3> QED BY <1>1, <2>2, <3>1 DEF NewSession
    <2>3. s \in sessions \/ (Opens /\ s = NewSession)
      BY StepKind DEF Quiet, Issues, Opens, Others
    <2> QED BY <2>1, <2>2, <2>3
  <1> QED BY <1>5, <1>6, <1>7, <1>8 DEF AttemptInv

LEMMA EntryTypes ==
    ASSUME TypeOK
    PROVE  \A e \in EntriesSeen : e.client \in Clients /\ e.random \in Nat
  BY Locals DEF TypeOK, EntriesSeen, InHand, Entries, Randoms

LEMMA NewestStep ==
    ASSUME TypeOK, RandomInv, IssuedInv, NewestInv, AttemptInv, [Next]_vars
    PROVE  NewestInv'
  <1> DEFINE Newest(e) ==
           /\ \A m \in AuthsSent : m.client = e.client => m.proof.random <= e.random
           /\ \A m \in inbox[e.client] : m.type = "CHALLENGE" => m.random <= e.random
           /\ srv.at = "challenge" /\ attempt[e.client] = srv.attempt => srv.random <= e.random
           /\ \A s \in sessions : s.client = e.client => s.random < e.random
  <1>1. randoms \in Nat
    BY DEF TypeOK
  <1>2. \A e \in EntriesSeen : e.client \in Clients /\ e.random \in Nat /\ Newest(e)
    BY EntryTypes DEF NewestInv
  <1>3. ASSUME NEW e \in EntriesSeen, e \in EntriesSeen', UNCHANGED <<clientVars, net>>,
               sessions' \subseteq sessions, ~(\E m \in net : Issues(m))
        PROVE  Newest(e)'
    <2>1. AuthsSent' = AuthsSent /\ attempt' = attempt
      BY <1>3 DEF AuthsSent, clientVars
    <2>2. ASSUME NEW x \in inbox'[e.client], x.type = "CHALLENGE"
          PROVE  x.random <= e.random
      <3>1. \/ x \in inbox[e.client]
            \/ SendChallenge /\ attempt[e.client] = srv.attempt /\ x.random = srv.random
        BY <1>2, <2>2, InboxKind
      <3> QED BY <1>2, <2>2, <3>1 DEF SendChallenge
    <2>3. srv'.at = "challenge" => srv' = srv
      BY <1>3, HandlerKind DEF Idle
    <2> QED BY <1>2, <1>3, <2>1, <2>2, <2>3
  <1>4. ASSUME NEW m \in net, Issues(m), NEW e \in EntriesSeen'
        PROVE  Newest(e)'
    <2>1. AuthsSent' = AuthsSent /\ attempt' = attempt /\ inbox' = inbox /\ sessions' = sessions
      BY <1>4 DEF Issues, AuthsSent, clientVars
    <2>2. srv'.random = randoms + 1 /\ srv'.attempt = m.attempt
      BY <1>4 DEF Issues
    <2>3. CASE e \in EntriesSeen /\ e.client # m.client
      <3>1. attempt[e.client] # m.attempt
        BY <1>2, <2>3 DEF AttemptInv
      <3> QED BY <1>2, <2>1, <2>2, <2>3, <3>1
    <2>4. CASE e.client = m.client /\ e.random = randoms + 1
      <3>1. m.client \in Clients
        BY DEF TypeOK, Hellos, Auths
      <3>2. \A x \in AuthsSent : x.proof.random \in Nat
        BY DEF TypeOK, AuthsSent, Hellos, Auths, Proofs, Randoms
      <3>3. \A x \in inbox[m.client] : x.type = "CHALLENGE" => x.random \in Nat
        BY <3>1 DEF TypeOK, Challenges, Answers, Accepted, Randoms
      <3>4. \A s \in sessions : s.random \in Nat
        BY DEF TypeOK, SessionRecords, Randoms
      <3>5. \A x \in AuthsSent : x.proof.random <= e.random
        BY <1>1, <2>4, <3>2 DEF IssuedInv
      <3>6. \A x \in inbox[m.client] : x.type = "CHALLENGE" => x.random <= e.random
        BY <1>1, <2>4, <3>1, <3>3 DEF IssuedInv
      <3>7. \A s \in sessions : s.random < e.random
        BY <1>1, <2>4, <3>4 DEF IssuedInv
      <3> QED BY <1>1, <2>1, <2>2, <2>4, <3>5, <3>6, <3>7
    <2> QED BY <1>4, <2>3, <2>4 DEF Issues
  <1>5. ASSUME Create, Opens, NEW e \in EntriesSeen'
        PROVE  Newest(e)'
    <2>1. e \in EntriesSeen /\ e.client # srv.auth.client
      BY <1>5 DEF Opens, Settled, EntriesSeen
    <2>2. AuthsSent' = AuthsSent /\ attempt' = attempt /\ srv' = Idle
      BY <1>5 DEF Opens, AuthsSent, clientVars
    <2>3. \A s \in sessions' : s.client = e.client => s \in sessions
      BY <1>5, <2>1 DEF Opens, Others, NewSession
    <2>4. \A x \in inbox'[e.client] : x.type = "CHALLENGE" => x \in inbox[e.client]
      BY <1>2, <1>5, <2>1, InboxKind DEF Opens, SendChallenge
    <2> QED BY <1>2, <2>1, <2>2, <2>3, <2>4 DEF Idle
  <1>6. ASSUME NEW c \in Clients,
               attempt' = [attempt EXCEPT ![c] = attempts + 1],
               net' = net \cup {Hello(c, attempts + 1)},
               inbox' = [inbox EXCEPT ![c] = {}],
               UNCHANGED <<srv, tableVars>>,
               NEW e \in EntriesSeen'
        PROVE  Newest(e)'
    <2>1. e \in EntriesSeen /\ sessions' = sessions
      BY <1>6 DEF EntriesSeen, InHand, tableVars
    <2>2. AuthsSent' = AuthsSent
      BY <1>6 DEF AuthsSent, Hello
    <2>3. \A x \in inbox'[e.client] : x \in inbox[e.client]
      BY <1>2, <1>6, <2>1 DEF TypeOK
    <2>4. srv.at = "challenge" /\ attempt'[e.client] = srv.attempt => attempt[e.client] = srv.attempt
      <3>1. srv.at = "challenge" => srv.attempt # attempts + 1
        BY Locals DEF AttemptInv, TypeOK, Attempts
      <3> QED BY <1>2, <1>6, <2>1, <3>1 DEF TypeOK
    <2> QED BY <1>2, <1>6, <2>1, <2>2, <2>3, <2>4
  <1>7. ASSUME NEW c \in Clients, NEW m \in inbox[c],
               ReceiveChallenge(c, m), m.type = "CHALLENGE",
               AuthsSent' \subseteq AuthsSent \cup
                  {Auth(c, attempt[c], [key |-> [password |-> typed[c], salt |-> m.salt],
                                        attempt |-> attempt[c], random |-> m.random])},
               UNCHANGED <<srv, tableVars, attempt>>,
               NEW e \in EntriesSeen'
        PROVE  Newest(e)'
    <2>1. e \in EntriesSeen /\ sessions' = sessions
      BY <1>7 DEF EntriesSeen, InHand, tableVars
    <2>2. \A x \in inbox'[e.client] : x \in inbox[e.client]
      BY <1>2, <1>7, <2>1 DEF TypeOK, ReceiveChallenge
    <2>3. \A x \in AuthsSent' : x \in AuthsSent \/ (x.client = c /\ x.proof.random = m.random)
      BY <1>7 DEF Auth
    <2>4. \A x \in AuthsSent' : x.client = e.client => x.proof.random <= e.random
      BY <1>2, <1>7, <2>1, <2>3
    <2> QED BY <1>2, <1>7, <2>1, <2>2, <2>4
  <1>8. ASSUME UNCHANGED <<attempt, net, srv, tableVars>>, ~UNCHANGED <<clientVars, net>>,
               NEW e \in EntriesSeen'
        PROVE  Newest(e)'
    <2>1. e \in EntriesSeen /\ sessions' = sessions /\ AuthsSent' = AuthsSent
      BY <1>8 DEF EntriesSeen, InHand, tableVars, AuthsSent
    <2>2. ~SendChallenge
      BY <1>8 DEF SendChallenge
    <2>3. \A x \in inbox'[e.client] : x.type = "CHALLENGE" => x \in inbox[e.client]
      BY <1>2, <2>1, <2>2, InboxKind
    <2> QED BY <1>2, <1>8, <2>1, <2>3
  <1>9. ASSUME NEW e \in EntriesSeen'
        PROVE  Newest(e)'
    <2>1. CASE UNCHANGED <<clientVars, net>>
      <3>1. CASE Quiet /\ ~(\E m \in net : Issues(m))
        BY <1>3, <2>1, <3>1 DEF Quiet
      <3>2. CASE \E m \in net : Issues(m)
        BY <1>4, <3>2
      <3>3. CASE Create /\ Opens
        BY <1>5, <3>3
      <3> QED BY <3>1, <3>2, <3>3, StepKind
    <2>2. CASE ~UNCHANGED <<clientVars, net>>
      <3> HIDE DEF Newest
      <3> QED BY <1>6, <1>7, <1>8, <2>2, NetKind
    <2> QED BY <2>1, <2>2
  <1> QED BY <1>9 DEF NewestInv

LEMMA OrderStep ==
    ASSUME TypeOK, RandomInv, NewestInv, AttemptInv, OrderInv, [Next]_vars
    PROVE  OrderInv'
  <1>1. srv'.at = "create" => srv'.auth.proof.random = srv'.entry.random
    <2>1. srv.auth.proof = ExpectedProof => srv.auth.proof.random = srv.entry.random
      BY DEF ExpectedProof
    <2> QED BY <2>1, HandlerKind DEF OrderInv, Issues, Idle
  <1>2. ASSUME NEW s \in sessions', NEW m \in AuthsSent',
               s.client = m.client, s.random < m.proof.random
        PROVE  s.attempt < m.attempt
    <2>1. CASE s \in sessions /\ m \in AuthsSent
      BY <1>2, <2>1 DEF OrderInv
    <2>2. CASE s \in sessions /\ m \notin AuthsSent
      <3> DEFINE Now(c, n) ==
             /\ ReceiveChallenge(c, n)
             /\ m = Auth(c, attempt[c], [key |-> [password |-> typed[c], salt |-> n.salt],
                                         attempt |-> attempt[c], random |-> n.random])
      <3>1. net' = net => FALSE
        BY <2>2 DEF AuthsSent
      <3>2. \A c \in Clients : net' = net \cup {Hello(c, attempts + 1)} => FALSE
        BY <2>2 DEF AuthsSent, Hello
      <3>3. \E c \in Clients : \E n \in inbox[c] :
               /\ ReceiveChallenge(c, n)
               /\ AuthsSent' \subseteq AuthsSent \cup
                    {Auth(c, attempt[c], [key |-> [password |-> typed[c], salt |-> n.salt],
                                          attempt |-> attempt[c], random |-> n.random])}
        BY <3>1, <3>2, NetKind
      <3>4. PICK c \in Clients : \E n \in inbox[c] : Now(c, n)
        BY <2>2, <3>3
      <3>5. PICK n \in inbox[c] : Now(c, n)
        BY <3>4
      <3>6. m.client = c /\ m.attempt = attempt[c] /\ phase[c] = "hello"
        BY <3>5 DEF Auth, ReceiveChallenge
      <3>7. PICK x \in AuthsSent : x.client = s.client /\ x.attempt = s.attempt
        BY <2>2 DEF AttemptInv
      <3>8. x.attempt < attempt[c]
        BY <1>2, <3>6, <3>7 DEF AttemptInv
      <3> QED BY <3>6, <3>7, <3>8
    <2>3. CASE Opens /\ s = NewSession
      <3>1. srv.entry \in EntriesSeen /\ srv.entry.client = srv.auth.client
        BY <2>3 DEF Opens, EntriesSeen, InHand, RandomInv
      <3>2. s.client = srv.auth.client /\ s.random = srv.entry.random
        BY <2>3 DEF NewSession
      <3>3. m \in AuthsSent
        BY <2>3 DEF Opens, AuthsSent
      <3>4. m.proof.random <= srv.entry.random
        BY <1>2, <3>1, <3>2, <3>3 DEF NewestInv
      <3>5. m.proof.random \in Nat /\ srv.entry.random \in Nat
        BY <3>1, <3>3, EntryTypes DEF TypeOK, AuthsSent, Hellos, Auths, Proofs, Randoms
      <3> QED BY <1>2, <3>2, <3>4, <3>5
    <2>4. s \in sessions \/ (Opens /\ s = NewSession)
      BY StepKind DEF Quiet, Issues, Opens, Others
    <2> QED BY <2>1, <2>2, <2>3, <2>4
  <1> QED BY <1>1, <1>2 DEF OrderInv

LEMMA StepInv == IInv /\ [Next]_vars => IInv'
  BY TypeStep, RandomStep, IssuedStep, NewestStep, AttemptStep, OrderStep DEF IInv

LEMMA Invariance == Spec => []IInv
  BY InitInv, StepInv, PTL DEF Spec

-----------------------------------------------------------------------------
(* How many sessions there are, under which keys, and whose.                *)

\* Each ceiling is kept by the one step that adds a session.
CountInv ==
    /\ IsFiniteSet(sessions)
    /\ Ceilings

Stale == {s \in sessions : s.key # key}

\* A proof verified before the password changed is the only way to an old key,
\* and while it is in hand no session has one yet: the change closed them all.
StaleInv ==
    ~changing =>
        /\ IsFiniteSet(Stale) /\ Cardinality(Stale) <= 1
        /\ srv.at = "create" /\ srv.key # key => Stale = {}

\* What the client of a session's attempt last sent is what the session was
\* made from, and its ACCEPT comes after that.
ExchangeInv ==
    /\ srv.at = "create" => srv.auth.proof.key = srv.key
    /\ \A m \in AuthsSent : m.attempt = attempt[m.client] => m.proof = offer[m.client]
    /\ \A c \in Clients : Accepted \in inbox[c] => phase[c] = "auth" /\ offer[c].random \in opened
    /\ \A c \in Clients : phase[c] = "connected" => offer[c].random \in opened
    /\ \A s \in sessions : s.attempt = attempt[s.client] =>
          s.random = offer[s.client].random /\ s.key = offer[s.client].key

LEMMA CreateAdds ==
    ASSUME Create, Opens
    PROVE  ~Full(srv.auth.client) /\ ~changing
  <1>1. NewSession \in sessions' /\ NewSession \notin Others(srv.auth.client)
    BY DEF Opens, Others, NewSession
  <1> QED BY <1>1 DEF Create

LEMMA CountStep ==
    ASSUME TypeOK, CountInv, [Next]_vars
    PROVE  CountInv'
  <1> DEFINE Playing(S) == {s \in S : s.client \in Controllers}
             Watching(S) == {s \in S : s.client \notin Controllers}
  <1> USE SessionsAssumption DEF SessionsAssumption
  <1>1. ASSUME NEW S \in SUBSET sessions
        PROVE  /\ IsFiniteSet(S) /\ IsFiniteSet(Playing(S)) /\ IsFiniteSet(Watching(S))
               /\ Cardinality(S) \in Nat
               /\ Cardinality(Playing(S)) \in Nat /\ Cardinality(Watching(S)) \in Nat
               /\ Cardinality(Playing(S)) <= MaxClients
               /\ Cardinality(Watching(S)) <= MaxClients + MaxAuxiliary
               /\ Cardinality(Watching(S)) <= Cardinality(S)
    <2>1. /\ IsFiniteSet(Playing(sessions)) /\ IsFiniteSet(Watching(sessions))
          /\ IsFiniteSet(S) /\ Cardinality(S) \in Nat
      BY FS_Subset, FS_CardinalityType DEF CountInv
    <2>2. /\ Playing(S) \subseteq Playing(sessions) /\ Watching(S) \subseteq Watching(sessions)
          /\ Watching(S) \subseteq S
      OBVIOUS
    <2> HIDE DEF Playing, Watching
    <2>3. /\ IsFiniteSet(Playing(S)) /\ IsFiniteSet(Watching(S))
          /\ Cardinality(Playing(S)) <= Cardinality(Playing(sessions))
          /\ Cardinality(Watching(S)) <= Cardinality(Watching(sessions))
          /\ Cardinality(Watching(S)) <= Cardinality(S)
      BY <2>1, <2>2, FS_Subset
    <2>4. /\ Cardinality(Playing(S)) \in Nat /\ Cardinality(Watching(S)) \in Nat
          /\ Cardinality(Playing(sessions)) \in Nat /\ Cardinality(Watching(sessions)) \in Nat
      BY <2>1, <2>3, FS_CardinalityType
    <2>5. /\ Cardinality(Playing(sessions)) <= MaxClients
          /\ Cardinality(Watching(sessions)) <= MaxClients + MaxAuxiliary
      BY DEF CountInv, Ceilings, Playing, Watching
    <2> QED BY <2>1, <2>3, <2>4, <2>5
  <1>2. CASE sessions' \subseteq sessions
    BY <1>1, <1>2 DEF CountInv, Ceilings
  <1>3. CASE Create /\ Opens
    <2> DEFINE c == srv.auth.client
               rest == Others(c)
    <2>1. sessions' = rest \cup {NewSession} /\ NewSession.client = c /\ rest \subseteq sessions
      BY <1>3 DEF Opens, NewSession, Others
    <2>2. ~Full(c)
      BY <1>3, CreateAdds
    <2>3. /\ Cardinality(rest) \in Nat /\ Cardinality(Playing(rest)) \in Nat
          /\ Cardinality(Watching(rest)) \in Nat /\ Cardinality(Watching(rest)) <= Cardinality(rest)
      <3> HIDE DEF rest, Playing, Watching
      <3> QED BY <1>1, <2>1
    <2>4. CASE c \in Controllers
      <3>1. Cardinality(Playing(rest)) < MaxClients
        <4>1. ~ (Cardinality(Playing(rest)) >= MaxClients)
          BY <2>2, <2>4 DEF Full
        <4> HIDE DEF rest, Playing
        <4> QED BY <2>3, <4>1
      <3>2. Playing(sessions') = Playing(rest) \cup {NewSession} /\ Watching(sessions') = Watching(rest)
        BY <2>1, <2>4
      <3> HIDE DEF Playing, Watching, c, rest
      <3>3. /\ Cardinality(Playing(rest) \cup {NewSession}) \in Nat
            /\ Cardinality(Playing(rest) \cup {NewSession}) <= Cardinality(Playing(rest)) + 1
        BY <1>1, <2>1, OneMore
      <3>4. Cardinality(Playing(sessions')) <= MaxClients
        BY <1>1, <2>1, <3>1, <3>2, <3>3
      <3>5. Cardinality(Watching(sessions')) <= MaxClients + MaxAuxiliary
        BY <1>1, <2>1, <3>2
      <3>6. IsFiniteSet(sessions')
        BY <1>1, <2>1, OneMore
      <3> QED BY <3>4, <3>5, <3>6 DEF CountInv, Ceilings, Playing, Watching
    <2>5. CASE c \notin Controllers
      <3>1. Cardinality(rest) < MaxClients + MaxAuxiliary
        <4>1. ~ (Cardinality(rest) >= MaxClients + MaxAuxiliary)
          BY <2>2, <2>5 DEF Full
        <4> HIDE DEF rest
        <4> QED BY <2>3, <4>1
      <3>2. Watching(sessions') = Watching(rest) \cup {NewSession} /\ Playing(sessions') = Playing(rest)
        BY <2>1, <2>5
      <3> HIDE DEF Playing, Watching, c, rest
      <3>3. /\ Cardinality(Watching(rest) \cup {NewSession}) \in Nat
            /\ Cardinality(Watching(rest) \cup {NewSession}) <= Cardinality(Watching(rest)) + 1
        BY <1>1, <2>1, OneMore
      <3>4. Cardinality(Watching(sessions')) <= MaxClients + MaxAuxiliary
        BY <2>3, <3>1, <3>2, <3>3
      <3>5. Cardinality(Playing(sessions')) <= MaxClients
        BY <1>1, <2>1, <3>2
      <3>6. IsFiniteSet(sessions')
        BY <1>1, <2>1, OneMore
      <3> QED BY <3>4, <3>5, <3>6 DEF CountInv, Ceilings, Playing, Watching
    <2> QED BY <2>4, <2>5
  <1> QED BY <1>2, <1>3, StepKind DEF Quiet, Issues

LEMMA StaleStep ==
    ASSUME TypeOK, StaleInv, [Next]_vars
    PROVE  StaleInv'
  <1>1. \/ PasswordChanged
        \/ changing'
        \/ key' = key /\ ~changing
    BY DEF Next, vars, Connect, ReceiveChallenge, ReceiveAnswer, Close, HandleHello, SendChallenge,
        HandleAuth, Verify, Create, Drop, ChangePassword, FailureAges, LockoutEnds, secretVars
  <1>2. CASE PasswordChanged
    <2>1. Stale' = {}
      BY <1>2 DEF PasswordChanged, Stale
    <2> QED BY <2>1, FS_EmptySet DEF StaleInv
  <1>3. CASE changing'
    BY <1>3 DEF StaleInv
  <1>4. CASE key' = key /\ ~changing
    <2>1. /\ IsFiniteSet(Stale) /\ Cardinality(Stale) <= 1 /\ Cardinality(Stale) \in Nat
          /\ srv.at = "create" /\ srv.key # key => Stale = {}
      BY <1>4, FS_CardinalityType DEF StaleInv
    <2>2. srv'.at = "create" => srv' = srv \/ srv'.key = key
      BY HandlerKind DEF Issues, Idle
    <2>3. ASSUME Stale' \subseteq Stale
          PROVE  StaleInv'
      <3>1. IsFiniteSet(Stale') /\ Cardinality(Stale') \in Nat /\ Cardinality(Stale') <= 1
        BY <2>1, <2>3, FS_Subset, FS_CardinalityType
      <3>2. srv'.at = "create" /\ srv'.key # key' => Stale' = {}
        BY <1>4, <2>1, <2>2, <2>3
      <3> QED BY <3>1, <3>2 DEF StaleInv
    <2>4. CASE sessions' \subseteq sessions
      BY <1>4, <2>3, <2>4 DEF Stale
    <2>5. CASE Create /\ Opens
      <3>1. Stale' \subseteq Stale \cup {NewSession} /\ NewSession.key = srv.key
            /\ srv.at = "create" /\ srv' = Idle
        BY <1>4, <2>5 DEF Stale, Opens, Others, NewSession
      <3>2. CASE srv.key = key
        <4>1. Stale' \subseteq Stale
          BY <1>4, <3>1, <3>2 DEF Stale
        <4> QED BY <2>3, <4>1
      <3>3. CASE srv.key # key
        <4>1. Stale' \subseteq {NewSession}
          BY <2>1, <3>1, <3>3
        <4>2. IsFiniteSet({NewSession}) /\ Cardinality({NewSession}) = 1
          BY FS_Singleton
        <4>3. IsFiniteSet(Stale') /\ Cardinality(Stale') <= 1
          BY <4>1, <4>2, FS_Subset
        <4> QED BY <3>1, <4>3 DEF StaleInv, Idle
      <3> QED BY <3>2, <3>3
    <2> QED BY <2>4, <2>5, StepKind DEF Quiet, Issues
  <1> QED BY <1>1, <1>2, <1>3, <1>4

\* The one session a step adds is the one of the AUTH in hand.
LEMMA OnlyCreateAdds ==
    ASSUME TypeOK, [Next]_vars, NEW t \in sessions' \ sessions
    PROVE  Create /\ Opens /\ t = NewSession
  BY StepKind DEF Quiet, Issues, Opens, Others

\* What a step may do to what a client last sent.
LEMMA ClientKind ==
    ASSUME TypeOK, [Next]_vars, NEW c \in Clients
    PROVE  \/ attempt'[c] = attempt[c] /\ offer'[c] = offer[c]
           \/ attempt'[c] = attempts + 1 /\ phase'[c] = "hello"
           \/ attempt'[c] = attempt[c] /\ phase[c] = "hello" /\ phase'[c] = "auth"
  <1>1. ASSUME NEW d \in Clients, NEW p \in Passwords, Connect(d, p)
        PROVE  \/ attempt'[c] = attempt[c] /\ offer'[c] = offer[c]
               \/ attempt'[c] = attempts + 1 /\ phase'[c] = "hello"
    BY <1>1 DEF Connect, TypeOK
  <1>2. ASSUME NEW d \in Clients, NEW m \in inbox[d], ReceiveChallenge(d, m)
        PROVE  \/ attempt'[c] = attempt[c] /\ offer'[c] = offer[c]
               \/ attempt'[c] = attempt[c] /\ phase[c] = "hello" /\ phase'[c] = "auth"
    BY <1>2 DEF ReceiveChallenge, TypeOK
  <1>3. \/ \E d \in Clients, p \in Passwords : Connect(d, p)
        \/ \E d \in Clients : \E m \in inbox[d] : ReceiveChallenge(d, m)
        \/ attempt' = attempt /\ offer' = offer
    BY DEF Next, vars, clientVars, ReceiveAnswer, Close, HandleHello, SendChallenge, HandleAuth,
        Verify, Create, Drop, ChangePassword, PasswordChanged, FailureAges, LockoutEnds
  <1> QED BY <1>1, <1>2, <1>3

\* Where an ACCEPT comes from, and a connection.
LEMMA AcceptKind ==
    ASSUME TypeOK, [Next]_vars, NEW c \in Clients, Accepted \in inbox'[c]
    PROVE  \/ Accepted \in inbox[c] /\ (phase[c] = "hello" \/ (phase'[c] = phase[c] /\ offer'[c] = offer[c]))
           \/ /\ Create /\ Opens /\ attempt[c] = srv.auth.attempt
              /\ phase[c] \in {"hello", "auth"}
  <1> DEFINE Goal ==
           \/ Accepted \in inbox[c] /\ (phase[c] = "hello" \/ (phase'[c] = phase[c] /\ offer'[c] = offer[c]))
           \/ /\ Create /\ Opens /\ attempt[c] = srv.auth.attempt
              /\ phase[c] \in {"hello", "auth"}
  <1>1. ASSUME NEW n, NEW why \in Reasons, Refuse(n, why), UNCHANGED clientVars PROVE Goal
    <2>1. Rejected(why) # Accepted
      BY DEF Rejected, Accepted
    <2>2. Accepted \in inbox[c]
      BY <1>1, <2>1 DEF Refuse, Answer
    <2> QED BY <1>1, <2>2 DEF clientVars
  <1>2. ASSUME UNCHANGED <<clientVars, inbox>> PROVE Goal
    BY <1>2 DEF clientVars
  <1>3. ASSUME SendChallenge PROVE Goal
    <2>1. Challenge(salt, srv.random) # Accepted
      BY DEF Challenge, Accepted
    <2> QED BY <1>3, <2>1 DEF SendChallenge, Answer, clientVars
  <1>4. ASSUME Create PROVE Goal
    <2>1. CASE Refuse(srv.auth.attempt, "SERVER_FULL")
      BY <1>1, <1>4, <2>1 DEF Create, Reasons
    <2>2. CASE ~ Refuse(srv.auth.attempt, "SERVER_FULL")
      <3>1. Answer(srv.auth.attempt, Accepted) /\ ~ Full(srv.auth.client)
            /\ UNCHANGED clientVars
        BY <1>4, <2>2 DEF Create
      <3>2. Opens
        BY <1>4, <2>2 DEF Create, Opens, EntriesSeen, InHand, Idle
      <3>3. \/ Accepted \in inbox[c]
            \/ attempt[c] = srv.auth.attempt /\ phase[c] \in {"hello", "auth"}
        BY <3>1 DEF Answer
      <3> QED BY <1>4, <3>1, <3>2, <3>3 DEF clientVars
    <2> QED BY <2>1, <2>2
  <1>5. ASSUME NEW m \in net, HandleHello(m) \/ HandleAuth(m) PROVE Goal
    <2>1. UNCHANGED clientVars /\ (UNCHANGED inbox \/ \E why \in Reasons : Refuse(m.attempt, why))
      BY <1>5 DEF HandleHello, HandleAuth, Reasons
    <2> QED BY <1>1, <1>2, <2>1
  <1>6. ASSUME Verify PROVE Goal
    <2>1. UNCHANGED clientVars /\ (UNCHANGED inbox \/ \E why \in Reasons : Refuse(srv.auth.attempt, why))
      BY <1>6 DEF Verify, Reasons
    <2> QED BY <1>1, <1>2, <2>1
  <1>7. ASSUME NEW d \in Clients, \/ Close(d) \/ \E p \in Passwords : Connect(d, p)
                                  \/ \E m \in inbox[d] : ReceiveAnswer(d, m)
        PROVE  Goal
    <2>1. c # d /\ Accepted \in inbox[c] /\ phase'[c] = phase[c] /\ offer'[c] = offer[c]
      BY <1>7 DEF Close, Connect, ReceiveAnswer, TypeOK
    <2> QED BY <2>1
  <1>8. ASSUME NEW d \in Clients, \E m \in inbox[d] : ReceiveChallenge(d, m)
        PROVE  Goal
    <2>1. Accepted \in inbox[c] /\ (c = d => phase[c] = "hello")
          /\ (c # d => phase'[c] = phase[c] /\ offer'[c] = offer[c])
      BY <1>8 DEF ReceiveChallenge, TypeOK
    <2>2. CASE c = d
      BY <2>1, <2>2
    <2>3. CASE c # d
      BY <2>1, <2>3
    <2> QED BY <2>2, <2>3
  <1>9. \/ SendChallenge \/ Create \/ Verify
        \/ \E m \in net : HandleHello(m) \/ HandleAuth(m)
        \/ \E d \in Clients : \/ Close(d) \/ \E p \in Passwords : Connect(d, p)
                              \/ \E m \in inbox[d] : ReceiveAnswer(d, m)
        \/ \E d \in Clients : \E m \in inbox[d] : ReceiveChallenge(d, m)
        \/ UNCHANGED <<clientVars, inbox>>
    BY DEF Next, vars, Drop, ChangePassword, PasswordChanged, FailureAges, LockoutEnds
  <1> HIDE DEF Goal
  <1>10. Goal
    BY <1>2, <1>3, <1>4, <1>5, <1>6, <1>7, <1>8, <1>9
  <1> QED BY <1>10 DEF Goal

LEMMA ConnectKind ==
    ASSUME TypeOK, [Next]_vars, NEW c \in Clients, phase'[c] = "connected"
    PROVE  /\ offer'[c] = offer[c]
           /\ phase[c] = "connected" \/ Accepted \in inbox[c]
  <1>1. ASSUME NEW d \in Clients, NEW m \in inbox[d], ReceiveAnswer(d, m)
        PROVE  /\ offer'[c] = offer[c]
               /\ phase[c] = "connected" \/ Accepted \in inbox[c]
    <2>1. CASE c = d
      <3>1. m = Accepted
        BY <1>1, <2>1 DEF ReceiveAnswer, TypeOK, Answers, Reasons
      <3> QED BY <1>1, <2>1, <3>1 DEF ReceiveAnswer
    <2>2. CASE c # d
      BY <1>1, <2>2 DEF ReceiveAnswer, TypeOK
    <2> QED BY <2>1, <2>2
  <1>2. ASSUME NEW d \in Clients, \/ Close(d) \/ \E p \in Passwords : Connect(d, p)
                                  \/ \E m \in inbox[d] : ReceiveChallenge(d, m)
        PROVE  offer'[c] = offer[c] /\ phase[c] = "connected"
    BY <1>2 DEF Close, Connect, ReceiveChallenge, TypeOK
  <1>3. \/ \E d \in Clients : \E m \in inbox[d] : ReceiveAnswer(d, m)
        \/ \E d \in Clients : \/ Close(d) \/ \E p \in Passwords : Connect(d, p)
                              \/ \E m \in inbox[d] : ReceiveChallenge(d, m)
        \/ UNCHANGED clientVars
    BY DEF Next, vars, HandleHello, SendChallenge, HandleAuth, Verify, Create, Drop,
        ChangePassword, PasswordChanged, FailureAges, LockoutEnds
  <1> QED BY <1>1, <1>2, <1>3 DEF clientVars

LEMMA ExchangeStep ==
    ASSUME IInv, ExchangeInv, [Next]_vars
    PROVE  ExchangeInv'
  <1> USE DEF IInv
  <1>1. srv'.at = "create" => srv'.auth.proof.key = srv'.key
    <2>1. srv.auth.proof = ExpectedProof => srv.auth.proof.key = key
      BY DEF ExpectedProof
    <2> QED BY <2>1, HandlerKind DEF ExchangeInv, Issues, Idle
  <1>2. opened \subseteq opened'
    BY StepKind DEF Quiet, Issues, Opens
  <1>3. attempts \in Nat /\ \A c \in Clients : attempt[c] \in Nat
    BY SessionsAssumption DEF TypeOK, Attempts
  \* What was sent before this step is of an attempt the step leaves alone.
  <1>4. ASSUME NEW m \in AuthsSent, m.attempt = attempt'[m.client]
        PROVE  m.attempt = attempt[m.client] /\ offer'[m.client] = offer[m.client]
    <2>1. m.client \in Clients /\ m.attempt \in Nat /\ m \in net
      BY DEF AuthsSent, TypeOK, Hellos, Auths, Attempts
    <2>2. m.attempt <= attempts
      BY <2>1 DEF AttemptInv
    <2>3. phase[m.client] = "hello" => m.attempt < attempt[m.client]
      BY DEF AttemptInv
    <2> QED BY <1>3, <1>4, <2>1, <2>2, <2>3, ClientKind
  <1>5. ASSUME NEW m \in AuthsSent', m.attempt = attempt'[m.client]
        PROVE  m.proof = offer'[m.client]
    <2>1. CASE m \in AuthsSent
      BY <1>4, <1>5, <2>1 DEF ExchangeInv
    <2>2. CASE m \notin AuthsSent
      <3>1. net' # net /\ \A c \in Clients : net' # net \cup {Hello(c, attempts + 1)}
        BY <2>2 DEF AuthsSent, Hello
      <3>2. PICK c \in Clients : \E n \in inbox[c] :
               /\ ReceiveChallenge(c, n)
               /\ AuthsSent' \subseteq AuthsSent \cup
                    {Auth(c, attempt[c], [key |-> [password |-> typed[c], salt |-> n.salt],
                                          attempt |-> attempt[c], random |-> n.random])}
        BY <3>1, NetKind
      <3>3. PICK n \in inbox[c] :
               /\ ReceiveChallenge(c, n)
               /\ m = Auth(c, attempt[c], [key |-> [password |-> typed[c], salt |-> n.salt],
                                           attempt |-> attempt[c], random |-> n.random])
        BY <2>2, <3>2
      <3>4. offer'[c] = [key |-> [password |-> typed[c], salt |-> n.salt],
                         attempt |-> attempt[c], random |-> n.random]
        BY <3>3 DEF ReceiveChallenge, TypeOK
      <3> QED BY <3>3, <3>4 DEF Auth
    <2> QED BY <2>1, <2>2
  \* The AUTH in hand, when a session is opened for it.
  <1>6. ASSUME Create, Opens
        PROVE  /\ srv.auth \in AuthsSent /\ srv.auth.client \in Clients
               /\ srv.auth.attempt = attempt[srv.auth.client] =>
                     /\ phase[srv.auth.client] # "hello"
                     /\ offer[srv.auth.client].random = srv.entry.random
                     /\ offer[srv.auth.client].key = srv.key
    <2>1. srv.auth \in AuthsSent /\ srv.auth.client \in Clients /\ srv.auth.attempt \in Nat
      BY <1>6, Locals DEF Opens, AttemptInv, AuthsSent, Auths, Attempts
    <2>2. srv.auth.proof.random = srv.entry.random /\ srv.auth.proof.key = srv.key
      BY <1>6 DEF Opens, OrderInv, ExchangeInv
    <2>3. phase[srv.auth.client] = "hello" => srv.auth.attempt < attempt[srv.auth.client]
      BY <2>1 DEF AttemptInv
    <2>4. srv.auth.attempt = attempt[srv.auth.client] => srv.auth.proof = offer[srv.auth.client]
      BY <2>1 DEF ExchangeInv
    <2> QED BY <1>3, <2>1, <2>2, <2>3, <2>4
  <1>7. ASSUME NEW c \in Clients, Accepted \in inbox'[c]
        PROVE  phase'[c] = "auth" /\ offer'[c].random \in opened'
    <2>1. CASE Accepted \in inbox[c]
      <3>1. phase[c] = "auth" /\ offer[c].random \in opened
        BY <2>1 DEF ExchangeInv
      <3>2. CASE phase'[c] = phase[c] /\ offer'[c] = offer[c]
        BY <1>2, <3>1, <3>2
      <3>3. CASE Create /\ Opens
        BY <1>2, <3>1, <3>3 DEF Opens, clientVars
      <3> QED BY <1>7, <3>1, <3>2, <3>3, AcceptKind
    <2>2. CASE /\ Create /\ Opens /\ attempt[c] = srv.auth.attempt
               /\ phase[c] \in {"hello", "auth"}
      <3>1. srv.auth.client = c
        BY <1>6, <2>2 DEF AttemptInv, AuthsSent
      <3>2. phase[c] = "auth" /\ offer[c].random = srv.entry.random
        BY <1>6, <2>2, <3>1
      <3> QED BY <2>2, <3>2 DEF Opens, clientVars
    <2> QED BY <1>7, <2>1, <2>2, AcceptKind
  <1>8. ASSUME NEW c \in Clients, phase'[c] = "connected"
        PROVE  offer'[c].random \in opened'
    BY <1>2, <1>8, ConnectKind DEF ExchangeInv
  <1>9. ASSUME NEW s \in sessions', s.attempt = attempt'[s.client]
        PROVE  s.random = offer'[s.client].random /\ s.key = offer'[s.client].key
    <2>1. CASE s \in sessions
      <3>1. PICK m \in AuthsSent : m.client = s.client /\ m.attempt = s.attempt
        BY <2>1 DEF AttemptInv
      <3> QED BY <1>4, <1>9, <2>1, <3>1 DEF ExchangeInv
    <2>2. CASE Create /\ Opens /\ s = NewSession
      <3>1. s.client = srv.auth.client /\ s.attempt = srv.auth.attempt
            /\ s.random = srv.entry.random /\ s.key = srv.key
        BY <2>2 DEF NewSession
      <3>2. attempt' = attempt /\ offer' = offer
        BY <2>2 DEF Opens, clientVars
      <3> QED BY <1>6, <1>9, <2>2, <3>1, <3>2
    <2> QED BY <2>1, <2>2, OnlyCreateAdds
  <1> QED BY <1>1, <1>5, <1>7, <1>8, <1>9 DEF ExchangeInv

LEMMA MoreInvariance == Spec => [](CountInv /\ StaleInv /\ ExchangeInv)
  <1>1. Init => CountInv /\ StaleInv /\ ExchangeInv
    <2> SUFFICES ASSUME Init PROVE CountInv /\ StaleInv /\ ExchangeInv
      OBVIOUS
    <2>1. /\ sessions = {} /\ {s \in sessions : s.client \in Controllers} = {}
          /\ {s \in sessions : s.client \notin Controllers} = {}
          /\ Stale = {} /\ AuthsSent = {} /\ srv = Idle
      BY DEF Init, Stale, AuthsSent
    <2>2. CountInv /\ StaleInv
      BY <2>1, FS_EmptySet, SessionsAssumption
      DEF CountInv, StaleInv, Ceilings, SessionsAssumption, Idle
    <2>3. ExchangeInv
      BY <2>1 DEF Init, ExchangeInv, Idle
    <2> QED BY <2>2, <2>3
  <1>2. IInv /\ CountInv /\ StaleInv /\ ExchangeInv /\ [Next]_vars
          => CountInv' /\ StaleInv' /\ ExchangeInv'
    BY CountStep, StaleStep, ExchangeStep DEF IInv
  <1> QED BY <1>1, <1>2, Invariance, PTL DEF Spec

-----------------------------------------------------------------------------
(* Theorems.                                                                *)

\* Every state is well typed: pending handshakes and counted failures stay
\* within their bounds whatever the network and the operator do.
THEOREM TypeCorrect == Spec => []TypeOK
  <1>1. IInv => TypeOK
    BY DEF IInv
  <1> QED BY <1>1, Invariance, PTL

\* One exchange of randoms opens one session: handle_auth forgets the randoms
\* it used, and HELLO never draws the same ones again.
THEOREM NeverReplayed == Spec => NoReplayedSession
  <1>1. IInv /\ [Next]_vars => [\A s \in sessions' \ sessions : s.random \notin opened]_vars
    <2> SUFFICES ASSUME IInv, [Next]_vars, NEW s \in sessions' \ sessions
                 PROVE  s.random \notin opened
      OBVIOUS
    <2>1. Opens /\ s = NewSession
      BY OnlyCreateAdds DEF IInv
    <2>2. srv.entry \in EntriesSeen /\ s.random = srv.entry.random
      BY <2>1 DEF Opens, EntriesSeen, InHand, NewSession
    <2> QED BY <2>2 DEF IInv, RandomInv
  <1> QED BY <1>1, Invariance, PTL DEF Spec, NoReplayedSession

\* A session is replaced only by a later attempt of its client.
THEOREM ReplacedByNewer == Spec => NewerReplaces
  <1>1. IInv /\ [Next]_vars => [\A s \in sessions, t \in sessions' \ sessions :
                                   s.client = t.client => s.attempt < t.attempt]_vars
    <2> SUFFICES ASSUME IInv, [Next]_vars, NEW s \in sessions, NEW t \in sessions' \ sessions,
                        s.client = t.client
                 PROVE  s.attempt < t.attempt
      OBVIOUS
    <2>1. Opens /\ t = NewSession
      BY OnlyCreateAdds DEF IInv
    <2>2. /\ srv.entry \in EntriesSeen /\ srv.entry.client = srv.auth.client
          /\ t.client = srv.auth.client /\ t.attempt = srv.auth.attempt
      BY <2>1 DEF Opens, EntriesSeen, InHand, NewSession, IInv, RandomInv
    <2>3. s.random < srv.entry.random
      BY <2>2 DEF IInv, NewestInv
    <2>4. srv.auth \in AuthsSent
      BY <2>1, Locals DEF Opens, IInv, AttemptInv, AuthsSent, Auths
    <2>5. srv.auth.proof.random = srv.entry.random
      BY <2>1 DEF Opens, IInv, OrderInv
    <2> QED BY <2>2, <2>3, <2>4, <2>5 DEF IInv, OrderInv
  <1> QED BY <1>1, Invariance, PTL DEF Spec, NewerReplaces

\* A host that is locked out is given no session.
THEOREM LockedOutStaysOut == Spec => NoSessionWhileLocked
  <1>1. IInv /\ [Next]_vars => [\A s \in sessions' \ sessions : ~locked[HostOf[s.client]]]_vars
    <2> SUFFICES ASSUME IInv, [Next]_vars, NEW s \in sessions' \ sessions
                 PROVE  ~locked[HostOf[s.client]]
      OBVIOUS
    <2>1. Opens /\ s = NewSession
      BY OnlyCreateAdds DEF IInv
    <2> QED BY <2>1 DEF Opens, NewSession, IInv, LimitInv
  <1> QED BY <1>1, Invariance, PTL DEF Spec, NoSessionWhileLocked

\* The players' places are never overdrawn, nor those of the others, whatever is
\* dropped or replaced between the two critical sections of handle_auth.
THEOREM CeilingsHold == Spec => []Ceilings
  <1>1. CountInv => Ceilings
    BY DEF CountInv
  <1> QED BY <1>1, MoreInvariance, PTL

\* A change of the password leaves at most one session under an older key: the one
\* whose proof had been verified before.
THEOREM OneStale == Spec => []AtMostOneStale
  <1>1. StaleInv => AtMostOneStale
    BY DEF StaleInv, AtMostOneStale, Stale
  <1> QED BY <1>1, MoreInvariance, PTL

\* A client that holds an ACCEPT was given a session in the exchange it offered its
\* proof in, and both ends derive the same session keys.
THEOREM SameExchangeHolds == Spec => []SameExchange
  <1>1. ExchangeInv => SameExchange
    BY DEF ExchangeInv, SameExchange
  <1> QED BY <1>1, MoreInvariance, PTL
=============================================================================
