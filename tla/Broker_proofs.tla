--------------------------- MODULE Broker_proofs ---------------------------
(***************************************************************************)
(* For every set of clients and ports, any expiry times and any mix of     *)
(* peers old and new.                                                      *)
(*                                                                         *)
(* The sockets: whatever is retried, forgotten or stopped while _allocate  *)
(* waits for a bind, every bound port has one owner.  PortsAccounted and   *)
(* the types of the three port variables are inductive together.           *)
(*                                                                         *)
(* The routes of the relay by token: none outlives the entry by which it   *)
(* expires, and the server's is never left without a client's that leads   *)
(* back.  The invariant says of the four tables, as a record, what the     *)
(* property says of the variables (Paired), because pruning forgets any    *)
(* number of relays one after the other and each keeps it (DropKeeps).     *)
(* That the list of them is gone through to its end is an induction on its *)
(* length: the least number for which it failed has a predecessor.         *)
(***************************************************************************)
EXTENDS Broker, TLAPS, FiniteSetTheorems, WellFoundedInduction

PortsInv == PortsTypeOK /\ PortsAccounted

LEMMA PortsOfMember ==
  ASSUME NEW S, NEW q
  PROVE  q \in PortsOf(S) <=> \E a \in S : q \in a.ports
  BY DEF PortsOf

LEMMA PortsInitially == Init => PortsInv
  BY DEF Init, PortsInv, PortsTypeOK, PortsAccounted, PortsOf

\* An action that leaves the ports alone.
LEMMA PortsUnchanged == PortsInv /\ UNCHANGED portVars => PortsInv'
  BY DEF PortsInv, PortsTypeOK, PortsAccounted, PortsOf, portVars

\* An action that only changes ages.
LEMMA PortsAged ==
  ASSUME PortsInv, NEW age \in [allocations -> 0 .. RelayTTL + 1],
         allocations' = {WithAge(a, age[a]) : a \in allocations},
         UNCHANGED <<allocating, bound>>
  PROVE  PortsInv'
<1>1. PortsTypeOK'
  <2>1. ASSUME NEW a \in allocations
        PROVE  WithAge(a, age[a]) \in [client : Clients, ports : SUBSET Ports, age : 0 .. RelayTTL + 1]
    BY DEF PortsInv, PortsTypeOK, WithAge
  <2> QED  BY <2>1 DEF PortsInv, PortsTypeOK
<1>2. \A b \in allocations' : \E a \in allocations :
        b = WithAge(a, age[a]) /\ b.client = a.client /\ b.ports = a.ports
  BY DEF WithAge
<1>3. ASSUME NEW a \in allocations PROVE \E b \in allocations' : b.ports = a.ports
  <2>1. WithAge(a, age[a]) \in allocations'
    OBVIOUS
  <2>2. WithAge(a, age[a]).ports = a.ports
    BY DEF WithAge
  <2> QED  BY <2>1, <2>2
<1>4. PortsOf(allocations') = PortsOf(allocations)
  <2>1. \A q : q \in PortsOf(allocations') <=> q \in PortsOf(allocations)
    BY <1>2, <1>3, PortsOfMember
  <2> QED  BY <2>1
<1>5. PortsAccounted'
  <2>1. bound' = PortsOf(allocations') \cup PortsOf(allocating')
    BY <1>4 DEF PortsInv, PortsAccounted
  <2>2. ASSUME NEW a \in allocations', NEW b \in allocations',
               a.client = b.client \/ a.ports \cap b.ports # {}
        PROVE  a = b
    <3>1. PICK x \in allocations : a = WithAge(x, age[x]) /\ a.client = x.client /\ a.ports = x.ports
      BY <1>2
    <3>2. PICK y \in allocations : b = WithAge(y, age[y]) /\ b.client = y.client /\ b.ports = y.ports
      BY <1>2
    <3>3. x = y
      BY <2>2, <3>1, <3>2 DEF PortsInv, PortsAccounted
    <3> QED  BY <3>1, <3>2, <3>3
  <2>3. ASSUME NEW a \in allocations', NEW b \in allocating'
        PROVE  a.client # b.client /\ a.ports \cap b.ports = {}
    BY <1>2 DEF PortsInv, PortsAccounted
  <2>4. \A a, b \in allocating' : a.client = b.client \/ a.ports \cap b.ports # {} => a = b
    BY DEF PortsInv, PortsAccounted
  <2> QED  BY <2>1, <2>2, <2>3, <2>4 DEF PortsAccounted
<1> QED  BY <1>1, <1>5 DEF PortsInv

\* Pairs are forgotten and their ports closed.
LEMMA PortsClosed ==
  ASSUME PortsInv, NEW gone \in SUBSET allocations,
         allocations' = allocations \ gone, bound' = bound \ PortsOf(gone),
         UNCHANGED allocating
  PROVE  PortsInv'
<1>1. PortsTypeOK'
  BY DEF PortsInv, PortsTypeOK
<1>2. bound' = PortsOf(allocations') \cup PortsOf(allocating')
  <2>1. ASSUME NEW q
        PROVE  q \in bound' <=> q \in PortsOf(allocations') \cup PortsOf(allocating')
    <3>1. CASE q \in PortsOf(gone)
      <4>1. PICK g \in gone : q \in g.ports
        BY <3>1, PortsOfMember
      <4>2. \A a \in allocations \ gone : q \notin a.ports
        BY <4>1 DEF PortsInv, PortsAccounted
      <4>3. \A b \in allocating : q \notin b.ports
        BY <4>1 DEF PortsInv, PortsAccounted
      <4> QED  BY <3>1, <4>2, <4>3, PortsOfMember
    <3>2. CASE q \notin PortsOf(gone)
      <4>1. q \in PortsOf(allocations) <=> q \in PortsOf(allocations')
        BY <3>2, PortsOfMember
      <4> QED  BY <3>2, <4>1 DEF PortsInv, PortsAccounted
    <3> QED  BY <3>1, <3>2
  <2> QED  BY <2>1
<1> QED  BY <1>1, <1>2 DEF PortsInv, PortsAccounted

-----------------------------------------------------------------------------
LEMMA RequestPortsKeeps ==
  ASSUME PortsInv, NEW c \in Clients, RequestPorts(c)
  PROVE  PortsInv'
<1> DEFINE new == [client |-> c, ports |-> {}]
<1>1. /\ \A a \in allocations : a.client # c
      /\ \A b \in allocating : b.client # c
      /\ allocating' = allocating \cup {new} /\ UNCHANGED <<allocations, bound>>
  BY DEF RequestPorts
<1>2. new \in [client : Clients, ports : SUBSET Ports] /\ new.client = c /\ new.ports = {}
  OBVIOUS
<1> HIDE DEF new
<1>3. PortsTypeOK'
  BY <1>1, <1>2 DEF PortsInv, PortsTypeOK
<1>4. bound' = PortsOf(allocations') \cup PortsOf(allocating')
  <2>1. \A q : q \in PortsOf(allocating') <=> q \in PortsOf(allocating)
    BY <1>1, <1>2, PortsOfMember
  <2> QED  BY <1>1, <2>1 DEF PortsInv, PortsAccounted
<1>5. \A a, b \in allocating' : a.client = b.client \/ a.ports \cap b.ports # {} => a = b
  BY <1>1, <1>2 DEF PortsInv, PortsAccounted
<1>6. \A a \in allocations', b \in allocating' : a.client # b.client /\ a.ports \cap b.ports = {}
  BY <1>1, <1>2 DEF PortsInv, PortsAccounted
<1> QED  BY <1>1, <1>3, <1>4, <1>5, <1>6 DEF PortsInv, PortsAccounted

LEMMA BindPortKeeps ==
  ASSUME PortsInv, NEW b \in allocating, BindPort(b)
  PROVE  PortsInv'
<1>1. PICK port \in Ports \ bound :
        /\ bound' = bound \cup {port}
        /\ allocating' = (allocating \ {b}) \cup
                           {[client |-> b.client, ports |-> b.ports \cup {port}]}
        /\ allocations' = allocations
  BY DEF BindPort
<1> DEFINE new == [client |-> b.client, ports |-> b.ports \cup {port}]
<1>2. /\ new \in [client : Clients, ports : SUBSET Ports]
      /\ new.client = b.client /\ new.ports = b.ports \cup {port}
  BY DEF PortsInv, PortsTypeOK
<1>3. allocating' = (allocating \ {b}) \cup {new}
  BY <1>1
<1> HIDE DEF new
<1>4. PortsTypeOK'
  BY <1>1, <1>2, <1>3 DEF PortsInv, PortsTypeOK
<1>5. /\ \A a \in allocations : port \notin a.ports
      /\ \A x \in allocating : port \notin x.ports
  <2>1. port \notin PortsOf(allocations) /\ port \notin PortsOf(allocating)
    BY <1>1 DEF PortsInv, PortsAccounted
  <2> QED  BY <2>1, PortsOfMember
<1>6. bound' = PortsOf(allocations') \cup PortsOf(allocating')
  <2>1. \A q : q \in PortsOf(allocating') <=> q \in PortsOf(allocating) \/ q = port
    BY <1>2, <1>3, PortsOfMember
  <2> QED  BY <1>1, <2>1 DEF PortsInv, PortsAccounted
<1>7. ASSUME NEW x \in allocating \ {b}
      PROVE  x.client # new.client /\ x.ports \cap new.ports = {}
  BY <1>2, <1>5 DEF PortsInv, PortsAccounted
<1>8. \A x, y \in allocating' : x.client = y.client \/ x.ports \cap y.ports # {} => x = y
  BY <1>3, <1>7 DEF PortsInv, PortsAccounted
<1>9. \A a \in allocations', x \in allocating' : a.client # x.client /\ a.ports \cap x.ports = {}
  BY <1>1, <1>2, <1>3, <1>5 DEF PortsInv, PortsAccounted
<1> QED  BY <1>1, <1>4, <1>6, <1>8, <1>9 DEF PortsInv, PortsAccounted

LEMMA NoPortLeftKeeps ==
  ASSUME PortsInv, NEW b \in allocating, NoPortLeft(b)
  PROVE  PortsInv'
<1>1. bound' = bound \ b.ports /\ allocating' = allocating \ {b} /\ allocations' = allocations
  BY DEF NoPortLeft
<1>2. PortsTypeOK'
  BY <1>1 DEF PortsInv, PortsTypeOK
<1>3. bound' = PortsOf(allocations') \cup PortsOf(allocating')
  <2>1. ASSUME NEW q
        PROVE  q \in bound' <=> q \in PortsOf(allocations') \cup PortsOf(allocating')
    <3>1. CASE q \in b.ports
      <4>1. \A x \in allocating \ {b} : q \notin x.ports
        BY <3>1 DEF PortsInv, PortsAccounted
      <4>2. \A a \in allocations : q \notin a.ports
        BY <3>1 DEF PortsInv, PortsAccounted
      <4> QED  BY <1>1, <3>1, <4>1, <4>2, PortsOfMember
    <3>2. CASE q \notin b.ports
      <4>1. q \in PortsOf(allocating) <=> q \in PortsOf(allocating')
        BY <1>1, <3>2, PortsOfMember
      <4> QED  BY <1>1, <3>2, <4>1 DEF PortsInv, PortsAccounted
    <3> QED  BY <3>1, <3>2
  <2> QED  BY <2>1
<1> QED  BY <1>1, <1>2, <1>3 DEF PortsInv, PortsAccounted

\* The coroutine hands its ports to the pair; nothing it replaces had any.
LEMMA AllocatedKeeps ==
  ASSUME PortsInv, NEW b \in allocating, Allocated(b)
  PROVE  PortsInv'
<1> DEFINE new == [client |-> b.client, ports |-> b.ports, age |-> 0]
<1>1. /\ allocations' = {a \in allocations : a.client # b.client} \cup {new}
      /\ allocating' = allocating \ {b} /\ bound' = bound
  BY DEF Allocated
<1>2. /\ new \in [client : Clients, ports : SUBSET Ports, age : 0 .. RelayTTL + 1]
      /\ new.client = b.client /\ new.ports = b.ports
  BY BrokerAssumption DEF PortsInv, PortsTypeOK
<1> HIDE DEF new
<1>3. allocations' = allocations \cup {new}
  BY <1>1 DEF PortsInv, PortsAccounted
<1>4. PortsTypeOK'
  BY <1>1, <1>2, <1>3 DEF PortsInv, PortsTypeOK
<1>5. bound' = PortsOf(allocations') \cup PortsOf(allocating')
  <2>1. \A q : q \in PortsOf(allocations') <=> q \in PortsOf(allocations) \/ q \in b.ports
    BY <1>2, <1>3, PortsOfMember
  <2>2. \A q : q \in PortsOf(allocating) <=> q \in PortsOf(allocating') \/ q \in b.ports
    BY <1>1, PortsOfMember
  <2> QED  BY <1>1, <2>1, <2>2 DEF PortsInv, PortsAccounted
<1>6. \A x, y \in allocations' : x.client = y.client \/ x.ports \cap y.ports # {} => x = y
  BY <1>2, <1>3 DEF PortsInv, PortsAccounted
<1>7. \A a \in allocations', x \in allocating' : a.client # x.client /\ a.ports \cap x.ports = {}
  BY <1>1, <1>2, <1>3 DEF PortsInv, PortsAccounted
<1> QED  BY <1>1, <1>4, <1>5, <1>6, <1>7 DEF PortsInv, PortsAccounted

LEMMA TrafficKeeps ==
  ASSUME PortsInv, NEW c \in Clients, Traffic(c)
  PROVE  PortsInv'
<1> DEFINE age == [a \in allocations |-> IF a.client = c THEN 0 ELSE a.age]
<1>1. age \in [allocations -> 0 .. RelayTTL + 1]
  BY BrokerAssumption DEF PortsInv, PortsTypeOK
<1>2. /\ allocations' = {WithAge(a, age[a]) : a \in allocations}
      /\ UNCHANGED <<allocating, bound>>
  BY DEF Traffic
<1> HIDE DEF age
<1> QED  BY <1>1, <1>2, PortsAged

LEMMA TickKeeps ==
  ASSUME PortsInv, Tick
  PROVE  PortsInv'
<1> DEFINE age == [a \in allocations |-> Older(a.age, RelayTTL)]
<1>1. age \in [allocations -> 0 .. RelayTTL + 1]
  BY BrokerAssumption DEF PortsInv, PortsTypeOK, Older, Gone
<1>2. /\ allocations' = {WithAge(a, age[a]) : a \in allocations}
      /\ UNCHANGED <<allocating, bound>>
  BY DEF Tick
<1> HIDE DEF age
<1> QED  BY <1>1, <1>2, PortsAged

LEMMA RestartKeeps ==
  ASSUME PortsInv, Restart
  PROVE  PortsInv'
<1>1. CASE HandleBye
  BY <1>1, PortsClosed DEF HandleBye
<1>2. CASE UNCHANGED portVars
  BY <1>2, PortsUnchanged
<1> QED  BY <1>1, <1>2 DEF Restart

LEMMA PruneAllKeeps ==
  ASSUME PortsInv, PruneAll
  PROVE  PortsInv'
  BY PortsClosed DEF PruneAll, IdlePorts

-----------------------------------------------------------------------------
LEMMA PortsPreserved == PortsInv /\ [Next]_vars => PortsInv'
<1> SUFFICES ASSUME PortsInv, [Next]_vars PROVE PortsInv'
  OBVIOUS
<1>1. CASE \E p \in Peers : Register(p) \/ Forward(p) \/ Frame(p)
  BY <1>1, PortsUnchanged DEF Register, Forward, Frame, portVars
<1>2. ASSUME NEW c \in Clients, Request(c) PROVE PortsInv'
  <2>1. CASE RequestFramed(c)
    BY <2>1, PortsUnchanged DEF RequestFramed
  <2>2. CASE RequestAgain(c)
    BY <2>2, PortsUnchanged DEF RequestAgain
  <2>3. CASE RequestPorts(c)
    BY <2>3, RequestPortsKeeps
  <2>4. CASE RequestRefused(c)
    BY <2>4, PortsUnchanged DEF RequestRefused
  <2> QED  BY <1>2, <2>1, <2>2, <2>3, <2>4 DEF Request
<1>3. CASE \E c \in Clients : Traffic(c)
  BY <1>3, TrafficKeeps
<1>4. CASE \E c \in Clients : Leave(c)
  BY <1>4, PortsUnchanged DEF Leave
<1>5. CASE Allocate
  BY <1>5, BindPortKeeps, NoPortLeftKeeps, AllocatedKeeps DEF Allocate
<1>6. CASE Restart
  BY <1>6, RestartKeeps
<1>7. CASE PruneAll
  BY <1>7, PruneAllKeeps
<1>8. CASE Tick
  BY <1>8, TickKeeps
<1>9. CASE UNCHANGED vars
  BY <1>9, PortsUnchanged DEF vars
<1> QED  BY <1>1, <1>2, <1>3, <1>4, <1>5, <1>6, <1>7, <1>8, <1>9 DEF Next

\* Every bound port has one owner, for every set of clients and ports, every
\* expiry time and every mix of old and new peers: no socket of an allocation is
\* leaked and no two pairs share one (_allocate, _alloc_pending, _prune_all).
THEOREM PortsAreAccounted == Spec => []PortsAccounted
<1>1. PortsInv => PortsAccounted
  BY DEF PortsInv
<1> QED  BY <1>1, PortsInitially, PortsPreserved, PTL DEF Spec

-----------------------------------------------------------------------------
(* The tables, and in them the routes.                                     *)

\* What the four tables of the relay by token hold, as a record of them.
RelayStates ==
    [routes : [Peers -> Peers \cup {None}], seen : [Peers -> Gone .. RelayTTL + 1],
     tokens : [Tokens -> Peers \cup {None}], tokenRoutes : [Tokens -> Tokens \cup {NoToken}]]

\* A route is between the server and a client, and does not end alone.
Paired(st) ==
    /\ st.routes[Server] # Server
    /\ \A c \in Clients : st.routes[c] \in {None, Server}
    /\ \A p \in Peers : st.routes[p] # None =>
         /\ st.seen[p] # Gone
         /\ p = Server => st.routes[st.routes[p]] = p

RoutesInv == TypeOK /\ Paired(RelayState)

LEMMA Bounds == /\ PeerTTL \in Nat /\ RelayTTL \in Nat /\ MaxTokens \in Nat
                /\ Server \in Peers /\ Server \notin Clients /\ Clients \subseteq Peers
                /\ None \notin Peers /\ IsFiniteSet(Peers)
  BY BrokerAssumption, FS_AddElement, FS_Union, FS_Singleton DEF Peers

LEMMA RoutesAre == RoutesInv => RoutesEndTogether
  BY DEF RoutesInv, Paired, RelayState, RoutesEndTogether

LEMMA RelayStateType == TypeOK => RelayState \in RelayStates
  BY DEF TypeOK, RelayState, RelayStates

LEMMA Becomes ==
    ASSUME NEW st \in RelayStates, BecomeRelayState(st), Paired(st)
    PROVE  /\ relayRoutes' \in [Peers -> Peers \cup {None}]
           /\ relaySeen' \in [Peers -> Gone .. RelayTTL + 1]
           /\ tokens' \in [Tokens -> Peers \cup {None}]
           /\ tokenRoutes' \in [Tokens -> Tokens \cup {NoToken}]
           /\ Paired(RelayState)'
<1>1. Paired(RelayState)'
  BY DEF BecomeRelayState, Paired, RelayState
<1> QED BY <1>1 DEF BecomeRelayState, RelayStates

\* Whoever is forgotten, the other end's route goes with it.
LEMMA DropKeeps ==
    ASSUME NEW st \in RelayStates, Paired(st), NEW p \in Peers
    PROVE  DropRelayState(st, p) \in RelayStates /\ Paired(DropRelayState(st, p))
<1> DEFINE other == st.routes[p]
           d == DropRelayState(st, p)
<1>0. Gone \in Gone .. RelayTTL + 1
  BY Bounds DEF Gone
<1>1. /\ d.routes = [q \in Peers |-> IF q \in {p, other} THEN None ELSE st.routes[q]]
      /\ d.seen = [q \in Peers |-> IF q \in {p, other} THEN Gone ELSE st.seen[q]]
  BY DEF DropRelayState
<1>2. d \in RelayStates
  BY <1>0 DEF DropRelayState, RelayStates
<1> HIDE DEF d
<1>3. /\ st.routes \in [Peers -> Peers \cup {None}]
      /\ d.routes \in [Peers -> Peers \cup {None}]
  BY <1>2 DEF RelayStates
<1>4. d.routes[Server] # Server /\ \A c \in Clients : d.routes[c] \in {None, Server}
  BY <1>1, Bounds DEF Paired
<1>5. ASSUME NEW q \in Peers, d.routes[q] # None
      PROVE  d.seen[q] # Gone /\ (q = Server => d.routes[d.routes[q]] = q)
  <2>1. q \notin {p, other} /\ d.routes[q] = st.routes[q] /\ d.seen[q] = st.seen[q]
    BY <1>1, <1>5
  <2>2. d.seen[q] # Gone
    BY <1>5, <2>1 DEF Paired
  <2>3. ASSUME q = Server
        PROVE  d.routes[d.routes[q]] = q
    <3>1. st.routes[Server] \in Clients /\ st.routes[st.routes[Server]] = Server
      BY <1>3, <1>5, <2>1, <2>3, Bounds DEF Paired, Peers
    <3>2. st.routes[Server] \notin {p, other}
      <4>1. st.routes[Server] # p
        BY <2>1, <2>3, <3>1
      <4>2. p # Server
        BY <2>1, <2>3
      <4>3. other \in {None, Server}
        BY <4>2 DEF Paired, Peers
      <4> QED BY <3>1, <4>1, <4>3, Bounds
    <3> QED BY <1>1, <2>1, <2>3, <3>1, <3>2, Bounds
  <2> QED BY <2>2, <2>3
<1>6. Paired(d)
  BY <1>4, <1>5 DEF Paired
<1> QED BY <1>2, <1>6 DEF d

-----------------------------------------------------------------------------
(* Pruning forgets any number of relays, one after the other.              *)

\* The natural numbers are well-ordered.
LEMMA LeastNumber ==
    ASSUME NEW S \in SUBSET Nat, S # {}
    PROVE  \E n \in S : \A m \in S : n <= m
<1> DEFINE R == StrictSubsetOrdering(Nat)
           F == FiniteSubsetsOf(Nat)
           T == {0 .. n : n \in S}
<1>1. T \subseteq F /\ T # {}
  <2>1. \A n \in S : IsFiniteSet(0 .. n) /\ 0 .. n \subseteq Nat
    BY FS_Interval
  <2> QED BY <2>1 DEF FiniteSubsetsOf
<1>2. \E I \in T : \A J \in T : ~ (<<J, I>> \in R)
  <2>1. IsWellFoundedOn(R, F)
    BY FS_StrictSubsetOrderingWellFounded
  <2> HIDE DEF R, F, T
  <2> QED BY <1>1, <2>1, WFMin
<1>3. PICK n \in S : \A J \in T : ~ (<<J, 0 .. n>> \in R)
  BY <1>2
<1>4. ASSUME NEW m \in S, m < n PROVE FALSE
  <2>1. 0 .. m \in T /\ 0 .. m \subseteq Nat /\ 0 .. n \subseteq Nat
    OBVIOUS
  <2>2. 0 .. m \subseteq 0 .. n /\ n \in 0 .. n /\ n \notin 0 .. m
    BY <1>4
  <2>3. <<0 .. m, 0 .. n>> \in R
    BY <2>1, <2>2 DEF StrictSubsetOrdering
  <2> QED BY <1>3, <2>1, <2>3
<1> QED BY <1>4

LEMMA Counting ==
    ASSUME NEW S, 0 \in S, \A n \in Nat : n \in S => n + 1 \in S
    PROVE  \A n \in Nat : n \in S
<1> SUFFICES ASSUME Nat \ S # {} PROVE FALSE
  OBVIOUS
<1>1. PICK n \in Nat \ S : \A m \in Nat \ S : n <= m
  BY LeastNumber
<1>2. n - 1 \in Nat /\ n - 1 \in S
  BY <1>1
<1> QED BY <1>1, <1>2

\* The recursion has a solution for a list of any length.
LEMMA ForgettingIs ==
    ASSUME NEW order, Len(order) \in Nat
    PROVE  Forgetting(order) =
             [n \in 0 .. Len(order) |->
                IF n = 0 THEN RelayState
                ELSE DropRelayState(Forgetting(order)[n - 1], order[n])]
<1> DEFINE Solves(f, k) == f = [n \in 0 .. k |-> IF n = 0 THEN RelayState
                                                 ELSE DropRelayState(f[n - 1], order[n])]
           S == {k \in Nat : \E f : Solves(f, k)}
<1>1. 0 \in S
  <2> DEFINE f == [n \in 0 .. 0 |-> RelayState]
  <2>1. Solves(f, 0)
    OBVIOUS
  <2> QED BY <2>1
<1>2. ASSUME NEW k \in Nat, k \in S PROVE k + 1 \in S
  <2>1. PICK f : Solves(f, k)
    BY <1>2
  <2> DEFINE g == [n \in 0 .. k + 1 |-> IF n = k + 1 THEN DropRelayState(f[k], order[k + 1]) ELSE f[n]]
  <2>2. \A n \in 0 .. k : g[n] = f[n]
    OBVIOUS
  <2>3. ASSUME NEW n \in 0 .. k + 1
        PROVE  g[n] = IF n = 0 THEN RelayState ELSE DropRelayState(g[n - 1], order[n])
    <3>1. CASE n = k + 1
      BY <2>2, <3>1
    <3>2. CASE n # k + 1
      <4>1. n \in 0 .. k /\ (n # 0 => n - 1 \in 0 .. k)
        BY <3>2
      <4> QED BY <2>1, <2>2, <4>1
    <3> QED BY <3>1, <3>2
  <2>4. Solves(g, k + 1)
    BY <2>3
  <2> HIDE DEF g
  <2> QED BY <2>4
<1>3. Len(order) \in S
  <2> HIDE DEF S
  <2> QED BY <1>1, <1>2, Counting
<1> QED BY <1>3 DEF Forgetting

LEMMA ForgettingKeeps ==
    ASSUME NEW order \in Seq(Peers), RelayState \in RelayStates, Paired(RelayState)
    PROVE  /\ Forgetting(order)[Len(order)] \in RelayStates
           /\ Paired(Forgetting(order)[Len(order)])
<1> DEFINE st == Forgetting(order)
           Fine(n) == n <= Len(order) => st[n] \in RelayStates /\ Paired(st[n])
           S == {n \in Nat : Fine(n)}
<1>0. Len(order) \in Nat
  OBVIOUS
<1>1. \A n \in 0 .. Len(order) :
        st[n] = IF n = 0 THEN RelayState ELSE DropRelayState(st[n - 1], order[n])
  BY <1>0, ForgettingIs
<1> HIDE DEF st
<1>2. 0 \in S
  BY <1>0, <1>1
<1>3. ASSUME NEW n \in Nat, n \in S PROVE n + 1 \in S
  <2>1. ASSUME n + 1 <= Len(order) PROVE st[n + 1] \in RelayStates /\ Paired(st[n + 1])
    <3>1. n + 1 \in 0 .. Len(order) /\ order[n + 1] \in Peers /\ n <= Len(order)
      BY <1>0, <2>1
    <3>2. st[n + 1] = DropRelayState(st[n], order[n + 1])
      BY <1>1, <3>1
    <3> QED BY <1>3, <3>1, <3>2, DropKeeps
  <2> QED BY <2>1
<1>4. Len(order) \in S
  <2> HIDE DEF S
  <2> QED BY <1>0, <1>2, <1>3, Counting
<1> QED BY <1>4 DEF st

-----------------------------------------------------------------------------
(* Every step keeps the types, and the routes paired.                      *)

RoomType == /\ registered \in [Peers -> Gone .. PeerTTL + 1]
            /\ held \in [Peers -> Tokens \cup {NoToken}] /\ issued \in 0 .. MaxTokens

PeerType == /\ phase \in [Clients -> {"new", "asking", "framing", "port", "gone"}]
            /\ modern \subseteq Peers /\ patient \in [Clients -> BOOLEAN]
            /\ known \in [Peers -> Tokens \cup {NoToken}]
            /\ prefix \in [Peers -> Tokens \cup {NoToken}]

RelayType == /\ tokens \in [Tokens -> Peers \cup {None}]
             /\ tokenRoutes \in [Tokens -> Tokens \cup {NoToken}]
             /\ relayRoutes \in [Peers -> Peers \cup {None}]
             /\ relaySeen \in [Peers -> Gone .. RelayTTL + 1]
             /\ Paired(RelayState)

LEMMA RoutesInParts == RoutesInv <=> RoomType /\ PeerType /\ RelayType /\ PortsTypeOK
  BY DEF RoutesInv, TypeOK, RoomType, PeerType, RelayType

LEMMA RelayTypeState == RelayType => RelayState \in RelayStates /\ Paired(RelayState)
  BY DEF RelayType, RelayState, RelayStates

LEMMA Ages == /\ Gone \in Gone .. PeerTTL + 1 /\ 0 \in Gone .. PeerTTL + 1
              /\ Gone \in Gone .. RelayTTL + 1 /\ 0 \in Gone .. RelayTTL + 1 /\ 0 # Gone
  BY Bounds DEF Gone

\* An entry grows older and stays an entry; one that is gone stays gone.
LEMMA GrowsOlder ==
    ASSUME NEW ttl \in Nat, NEW age \in Gone .. ttl + 1
    PROVE  Older(age, ttl) \in Gone .. ttl + 1 /\ (age # Gone => Older(age, ttl) # Gone)
  BY DEF Older, Gone

LEMMA TokenOfType == ASSUME RoomType, NEW p \in Peers PROVE TokenOf(p) \in Tokens \cup {NoToken}
  BY DEF RoomType, TokenOf

\* A relay by token is wired for both of its ends at once.
LEMMA Wired ==
    ASSUME RoomType, RelayType, PeerType, NEW c \in Clients, WireTokenRelay(c)
    PROVE  RelayType' /\ PeerType'
<1> USE Bounds, Ages
<1>1. PeerType'
  BY DEF WireTokenRelay, ToldToFrame, PeerType
<1>2. /\ tokens' \in [Tokens -> Peers \cup {None}]
      /\ tokenRoutes' \in [Tokens -> Tokens \cup {NoToken}]
  BY TokenOfType DEF WireTokenRelay, RelayType
<1>3. /\ relayRoutes' = [relayRoutes EXCEPT ![c] = Server, ![Server] = c]
      /\ relaySeen' = [relaySeen EXCEPT ![c] = 0, ![Server] = 0]
  BY DEF WireTokenRelay
<1>4. /\ relayRoutes' \in [Peers -> Peers \cup {None}]
      /\ relaySeen' \in [Peers -> Gone .. RelayTTL + 1]
  BY <1>3 DEF RelayType
<1>5. Paired(RelayState)'
  BY <1>3 DEF RelayType, Paired, RelayState
<1> QED BY <1>1, <1>2, <1>4, <1>5 DEF RelayType

LEMMA RegisterKeeps ==
    ASSUME RoutesInv, NEW p \in Peers, Register(p)
    PROVE  RoomType' /\ PeerType' /\ RelayType'
<1> USE Bounds, Ages
<1>0. RoomType /\ PeerType /\ RelayType
  BY RoutesInParts
<1>1. PICK t \in Tokens :
        /\ issued' \in {issued, t} /\ registered' = [Pruned EXCEPT ![p] = 0]
        /\ held' = [held EXCEPT ![p] = t] /\ tokens' = [tokens EXCEPT ![t] = p]
        /\ known' \in {known, [known EXCEPT ![p] = t]}
  BY DEF Register
<1>2. Pruned \in [Peers -> Gone .. PeerTTL + 1]
  BY <1>0 DEF Pruned, RoomType
<1>3. RoomType'
  BY <1>0, <1>1, <1>2 DEF RoomType, Tokens
<1>4. phase' \in [Clients -> {"new", "asking", "framing", "port", "gone"}]
  BY <1>0 DEF Register, Introduce, PeerType
<1>5. PeerType'
  BY <1>0, <1>1, <1>4 DEF Register, PeerType
<1>6. RelayType'
  BY <1>0, <1>1 DEF Register, RelayType, Paired, RelayState
<1> QED BY <1>3, <1>5, <1>6

\* What is forwarded, plain or framed, keeps entries from expiring.
LEMMA ForwardKeeps ==
    ASSUME RoutesInv, NEW p \in Peers, Forward(p) \/ Frame(p)
    PROVE  RoomType' /\ PeerType' /\ RelayType'
<1> USE Bounds, Ages
<1>0. RoomType /\ PeerType /\ RelayType
  BY RoutesInParts
<1>1. RoomType' /\ PeerType' /\ UNCHANGED <<tokenRoutes, relayRoutes>>
  BY <1>0 DEF Forward, Frame, RoomType, PeerType, roomVars, peerVars
<1>2. tokens' \in [Tokens -> Peers \cup {None}]
  BY <1>0 DEF Forward, Frame, RelayType
<1>3. /\ relaySeen' \in [Peers -> Gone .. RelayTTL + 1]
      /\ \A q \in Peers : relaySeen[q] # Gone => relaySeen'[q] # Gone
  BY <1>0 DEF Forward, Frame, RelayType
<1>4. Paired(RelayState)'
  BY <1>0, <1>1, <1>3 DEF RelayType, Paired, RelayState
<1> QED BY <1>0, <1>1, <1>2, <1>3, <1>4 DEF RelayType

LEMMA RequestKeeps ==
    ASSUME RoutesInv, NEW c \in Clients, Request(c) \/ Traffic(c) \/ Leave(c)
    PROVE  RoomType' /\ PeerType' /\ RelayType'
<1>0. RoomType /\ PeerType /\ RelayType
  BY RoutesInParts
<1>1. CASE RequestFramed(c)
  BY <1>0, <1>1, Wired DEF RequestFramed, roomVars, RoomType
<1>2. CASE ~ RequestFramed(c)
  <2>1. UNCHANGED <<roomVars, relayVars>>
    BY <1>2 DEF Request, RequestAgain, RequestPorts, RequestRefused, Traffic, Leave
  <2>2. RoomType' /\ RelayType'
    BY <1>0, <2>1 DEF RoomType, RelayType, Paired, RelayState, roomVars, relayVars
  <2>3. PeerType'
    BY <1>0, <1>2 DEF Request, RequestAgain, RequestPorts, RequestRefused, Traffic, Leave,
                      TellPorts, PeerType, peerVars
  <2> QED BY <2>2, <2>3
<1> QED BY <1>1, <1>2

LEMMA AllocateKeeps ==
    ASSUME RoutesInv, Allocate
    PROVE  RoomType' /\ PeerType' /\ RelayType'
<1>0. RoomType /\ PeerType /\ RelayType /\ PortsTypeOK
  BY RoutesInParts
<1>1. PICK b \in allocating : BindPort(b) \/ NoPortLeft(b) \/ Allocated(b)
  BY DEF Allocate
<1>2. b.client \in Clients
  BY <1>0 DEF PortsTypeOK
<1>3. CASE NoPortLeft(b)
  BY <1>0, <1>2, <1>3, Wired DEF NoPortLeft, roomVars, RoomType
<1>4. CASE BindPort(b) \/ Allocated(b)
  <2>1. UNCHANGED <<roomVars, relayVars>>
    BY <1>4 DEF BindPort, Allocated
  <2>2. RoomType' /\ RelayType'
    BY <1>0, <2>1 DEF RoomType, RelayType, Paired, RelayState, roomVars, relayVars
  <2>3. PeerType'
    BY <1>0, <1>2, <1>4 DEF BindPort, Allocated, TellPorts, PeerType, peerVars
  <2> QED BY <2>2, <2>3
<1> QED BY <1>1, <1>3, <1>4

\* A BYE forgets one relay, and pruning any number of them.
LEMMA ForgettingOne ==
    ASSUME RoutesInv, Restart
    PROVE  RoomType' /\ PeerType' /\ RelayType'
<1> USE Bounds, Ages
<1>0. RoomType /\ PeerType /\ RelayType
  BY RoutesInParts
<1>1. PeerType'
  BY <1>0 DEF Restart, PeerType
<1>2. CASE HandleBye
  <2>1. RoomType'
    BY <1>0, <1>2 DEF HandleBye, RoomType
  <2>2. PICK st \in RelayStates : st = DropRelayState(RelayState, Server) /\ Paired(st)
    BY <1>0, RelayTypeState, DropKeeps
  <2>3. RelayType'
    BY <1>2, <2>2, Becomes DEF HandleBye, RelayType
  <2> QED BY <1>1, <2>1, <2>3
<1>3. CASE UNCHANGED <<roomVars, relayVars>>
  BY <1>0, <1>1, <1>3 DEF RoomType, RelayType, Paired, RelayState, roomVars, relayVars
<1> QED BY <1>2, <1>3 DEF Restart

LEMMA ForgettingMany ==
    ASSUME RoutesInv, PruneAll
    PROVE  RoomType' /\ PeerType' /\ RelayType'
<1> USE Bounds, Ages
<1>0. RoomType /\ PeerType /\ RelayType
  BY RoutesInParts
<1>1. PeerType' /\ RoomType'
  BY <1>0 DEF PruneAll, Pruned, PeerType, RoomType, peerVars
<1>2. PICK order \in SetToSeqs({p \in Peers : relaySeen[p] > RelayTTL}) :
        BecomeRelayState(Forgetting(order)[Len(order)])
  BY DEF PruneAll, ForgetIdleRelays
<1>3. order \in Seq(Peers)
  <2> DEFINE idle == {p \in Peers : relaySeen[p] > RelayTTL}
  <2>1. idle \subseteq Peers /\ Cardinality(idle) \in Nat
    BY FS_Subset, FS_CardinalityType
  <2>2. order \in [1 .. Cardinality(idle) -> idle]
    BY <1>2 DEF SetToSeqs
  <2> HIDE DEF idle
  <2> QED BY <2>1, <2>2
<1>4. PICK st \in RelayStates : st = Forgetting(order)[Len(order)] /\ Paired(st)
  BY <1>0, <1>3, RelayTypeState, ForgettingKeeps
<1>5. RelayType'
  BY <1>2, <1>4, Becomes DEF RelayType
<1> QED BY <1>1, <1>5

LEMMA TickAges ==
    ASSUME RoutesInv, Tick
    PROVE  RoomType' /\ PeerType' /\ RelayType'
<1> USE Bounds
<1>0. RoomType /\ PeerType /\ RelayType
  BY RoutesInParts
<1>1. RoomType'
  BY <1>0, GrowsOlder DEF Tick, RoomType
<1>2. patient' \in [Clients -> BOOLEAN]
  BY <1>0 DEF Tick, PeerType
<1>3. PeerType'
  BY <1>0, <1>2 DEF Tick, PeerType
<1>4. /\ relaySeen' \in [Peers -> Gone .. RelayTTL + 1]
      /\ \A q \in Peers : relaySeen[q] # Gone => relaySeen'[q] # Gone
  BY <1>0, GrowsOlder DEF Tick, RelayType
<1>5. RelayType'
  BY <1>0, <1>4 DEF Tick, RelayType, Paired, RelayState
<1> QED BY <1>1, <1>3, <1>5

LEMMA RoutesInitially == Init => RoutesInv
<1> SUFFICES ASSUME Init PROVE RoutesInv
  OBVIOUS
<1> USE Bounds, Ages
<1>1. RoomType /\ PeerType
  BY BrokerAssumption DEF Init, RoomType, PeerType, Peers
<1>2. RelayType
  BY DEF Init, RelayType, Paired, RelayState
<1>3. PortsTypeOK
  BY PortsInitially DEF PortsInv
<1> QED BY <1>1, <1>2, <1>3, RoutesInParts

LEMMA RoutesPreserved == PortsInv /\ RoutesInv /\ [Next]_vars => RoutesInv'
<1> SUFFICES ASSUME PortsInv, RoutesInv, [Next]_vars PROVE RoutesInv'
  OBVIOUS
<1>1. PortsTypeOK'
  BY PortsPreserved DEF PortsInv
<1>2. RoomType' /\ PeerType' /\ RelayType'
  <2>1. CASE UNCHANGED vars
    BY <2>1, RoutesInParts DEF RoomType, PeerType, RelayType, Paired, RelayState,
                               vars, roomVars, relayVars, peerVars
  <2> QED BY <2>1, RegisterKeeps, ForwardKeeps, RequestKeeps, AllocateKeeps, ForgettingOne,
             ForgettingMany, TickAges DEF Next
<1>3. (RoomType /\ PeerType /\ RelayType /\ PortsTypeOK)' => RoutesInv'
  BY DEF RoutesInv, TypeOK, RoomType, PeerType, RelayType
<1> QED BY <1>1, <1>2, <1>3

LEMMA RoutesInductive == Spec => [](PortsInv /\ RoutesInv)
  BY PortsInitially, PortsPreserved, RoutesInitially, RoutesPreserved, PTL DEF Spec

\* The broker's tables keep the types their annotations declare, through any
\* series of messages, retries, restarts and expiries.
THEOREM TypeCorrect == Spec => []TypeOK
<1>1. RoutesInv => TypeOK
  BY DEF RoutesInv
<1> QED BY <1>1, RoutesInductive, PTL

\* A relayed peer always has the entry by which its route expires, and the
\* server's route leads to a client that leads back: whatever is forgotten, and
\* in whatever order, the server is not cut off by a route nobody ends
\* (_wire_token_relay, _drop_relay_state, _prune_all).
THEOREM RoutesTogether == Spec => []RoutesEndTogether
  BY RoutesAre, RoutesInductive, PTL
=============================================================================
