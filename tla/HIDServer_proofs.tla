--------------------------- MODULE HIDServer_proofs ---------------------------
(***************************************************************************)
(* For every number of consoles, connections and reconnects: the sink      *)
(* holds the channels of the session that has the lock, and no session is  *)
(* made of two consoles' channels.  Neither needs the lock to be looked    *)
(* at by those who detach; what both need is where the holder of the lock  *)
(* may be, which is Holding.                                               *)
(***************************************************************************)
EXTENDS HIDServer, TLAPS

\* Where a thread that serves is from taking the lock to giving it back.
Holding == {"start", "callback", "serve", "close", "release"}

\* A connection that is not open yet has no host, so that a later one cannot
\* change the host of a channel somebody holds.
Unopened == \A n \in Connections : n > opened => host[n] = None

\* half_open is filed under the peer the channel came from.
HalvesOfPeer ==
    \A h \in Hosts :
        /\ halfOpen[h].control # 0 => host[halfOpen[h].control] = h
        /\ halfOpen[h].interrupt # 0 => host[halfOpen[h].interrupt] = h

\* Both channels of this pair are one console's.
OneConsole(pair) ==
    /\ pair.control \in Connections /\ pair.interrupt \in Connections
    /\ host[pair.control] \in Hosts
    /\ host[pair.interrupt] = host[pair.control]

PairsInHand ==
    \A t \in Servers : task[t].at \in Holding \cup {"enter"} => OneConsole(task[t].pair)

DialsSomeone == At(R, "dial") => task[R].dial # None

\* The lock is with the one thread that is where only its holder goes.
LockHeld ==
    \A t \in Servers :
        /\ lock = t <=> task[t].at \in Holding
        /\ At(t, "close") => task[t].then \in {"serve", "release"}

Inv == TypeOK /\ Unopened /\ HalvesOfPeer /\ PairsInHand /\ DialsSomeone /\ LockHeld
       /\ SessionOwnsSink

TaskRecords == [at : Steps, pair : Pairs, then : Steps, raised : BOOLEAN,
                dial : Hosts \cup {None}]

-----------------------------------------------------------------------------
\* The threads' names are apart from each other and from the connections.
LEMMA ThreadNames ==
    /\ A # R /\ D \notin Servers /\ M \notin Servers /\ None \notin Servers
    /\ \A t \in Servers : t \in Threads /\ t \notin Connections
    /\ D \in Threads /\ M \in Threads
    /\ Connections \subseteq Threads /\ Connections \subseteq Nat /\ 0 \notin Connections
    /\ None \notin Hosts
    /\ \A n \in 0 .. MaxConnections : n # 0 => n \in Connections
<1>1. {A, R, D, M, None} \cap Nat = {} /\ MaxConnections \in Nat
  BY HIDServerAssumption
<1>2. Connections \subseteq Nat /\ 0 \notin Connections
      /\ \A n \in 0 .. MaxConnections : n # 0 => n \in Connections
  BY <1>1 DEF Connections
<1>3. A \notin Connections /\ R \notin Connections
  BY <1>1, <1>2
<1>4. A # R /\ D \notin Servers /\ M \notin Servers /\ None \notin Servers /\ None \notin Hosts
  BY HIDServerAssumption DEF Servers
<1> QED BY <1>2, <1>3, <1>4 DEF Servers, Threads

LEMMA PairTypes ==
    /\ NoPair \in Pairs
    /\ \A p \in Pairs : /\ p.control \in 0 .. MaxConnections
                        /\ p.interrupt \in 0 .. MaxConnections
    /\ \A c, i \in 0 .. MaxConnections : [control |-> c, interrupt |-> i] \in Pairs
BY HIDServerAssumption DEF NoPair, Pairs

LEMMA DoingType ==
    ASSUME NEW at \in Steps
    PROVE  /\ Doing(at) \in TaskRecords /\ Doing(at).at = at /\ Doing(at).dial = None
           /\ \A p \in Pairs : [Doing(at) EXCEPT !.pair = p] \in TaskRecords
           /\ \A h \in Hosts : [Doing(at) EXCEPT !.dial = h] \in TaskRecords
BY PairTypes DEF Doing, TaskRecords, Steps

LEMMA TaskMoves ==
    ASSUME TypeOK, NEW t \in Threads, NEW at \in Steps
    PROVE  /\ task \in [Threads -> TaskRecords]
           /\ task[t].then \in Steps
           /\ [task EXCEPT ![t].at = at] \in [Threads -> TaskRecords]
           /\ \A then \in Steps :
                [task EXCEPT ![t].at = at, ![t].then = then] \in [Threads -> TaskRecords]
BY DEF TypeOK, TaskRecords

LEMMA ClosingType ==
    ASSUME TypeOK, NEW pairs, pairs \subseteq Pairs, Closing(pairs)
    PROVE  /\ link' \in [Connections -> {"none", "control", "up", "down"}]
           /\ shut' \subseteq Connections
<1>1. \A p \in pairs : p.control # 0 => p.control \in Connections
  BY ThreadNames, PairTypes
<1>2. shut' \subseteq Connections
  BY <1>1 DEF Closing, TypeOK
<1> QED BY <1>2 DEF Closing, TypeOK

-----------------------------------------------------------------------------
\* Nothing that holds a channel is changed by what consoles and links do: a new
\* connection gets a number that nothing refers to.
LEMMA ConsoleStep ==
    ASSUME Inv, \/ \E h \in Hosts : Connect(h)
                \/ \E n \in Connections : ConnectInterrupt(n) \/ LinkLost(n)
                \/ Forget
    PROVE  Inv'
<1>1. ASSUME NEW h \in Hosts, Connect(h) PROVE Inv'
  <2>1. opened' \in Connections /\ opened' = opened + 1 /\ opened \in Nat
    BY <1>1, HIDServerAssumption DEF Inv, TypeOK, Connect, Connections
  <2>2. host[opened'] = None
    BY <2>1 DEF Inv, Unopened, Connections
  <2>3. \A n \in Connections : host[n] # None => host'[n] = host[n]
    BY <1>1, <2>2 DEF Connect, Inv, TypeOK
  <2>4. TypeOK'
    <3>1. backlog' \in [control : Seq(Connections), interrupt : Seq(Connections)]
      <4>1. Append(backlog.control, opened') \in Seq(Connections)
        BY <2>1 DEF Inv, TypeOK
      <4> QED BY <1>1, <4>1 DEF Connect, Inv, TypeOK
    <3> QED BY <1>1, <2>1, <3>1 DEF Connect, Inv, TypeOK, owned, sinkVars, Connections
  <2>5. Unopened'
    BY <1>1, <2>1 DEF Connect, Inv, Unopened, TypeOK, Connections
  <2>6. HalvesOfPeer'
    BY <1>1, <2>3, ThreadNames, PairTypes DEF Connect, Inv, HalvesOfPeer, TypeOK, owned
  <2>7. PairsInHand'
    BY <1>1, <2>3, ThreadNames DEF Connect, Inv, PairsInHand, OneConsole
  <2> QED BY <1>1, <2>4, <2>5, <2>6, <2>7 DEF Connect, Inv, DialsSomeone, LockHeld,
             SessionOwnsSink, At, sinkVars
<1>2. ASSUME NEW n \in Connections, ConnectInterrupt(n) PROVE Inv'
  <2>1. TypeOK'
    <3>1. backlog' \in [control : Seq(Connections), interrupt : Seq(Connections)]
      <4>1. Append(backlog.interrupt, n) \in Seq(Connections)
        BY DEF Inv, TypeOK
      <4> QED BY <1>2, <4>1 DEF ConnectInterrupt, Inv, TypeOK
    <3> QED BY <1>2, <3>1 DEF ConnectInterrupt, Inv, TypeOK, owned, sinkVars
  <2> QED BY <1>2, <2>1 DEF ConnectInterrupt, Inv, Unopened, HalvesOfPeer, PairsInHand,
             OneConsole, DialsSomeone, LockHeld, SessionOwnsSink, At, owned, sinkVars
<1>3. ASSUME NEW n \in Connections, LinkLost(n) PROVE Inv'
  BY <1>3 DEF LinkLost, Inv, TypeOK, Unopened, HalvesOfPeer, PairsInHand,
     OneConsole, DialsSomeone, LockHeld, SessionOwnsSink, At, owned, sinkVars
<1>4. ASSUME Forget PROVE Inv'
  BY <1>4 DEF Forget, Inv, TypeOK, Unopened, HalvesOfPeer, PairsInHand, outside,
     OneConsole, DialsSomeone, LockHeld, SessionOwnsSink, At, owned, sinkVars
<1> QED BY <1>1, <1>2, <1>3, <1>4

-----------------------------------------------------------------------------
(* Three kinds of step, by whose task it changes: what each has to show.    *)

\* The holder of the lock goes on to where holders go.
LEMMA HolderMoves ==
    ASSUME Inv, TypeOK', NEW t \in Servers,
           task[t].at \in Holding, task'[t].at \in Holding, task'[t].pair = task[t].pair,
           task'[t].at = "close" => task'[t].then \in {"serve", "release"},
           \A s \in Servers : s # t => task'[s] = task[s],
           UNCHANGED <<host, opened, halfOpen, lock>>,
           sink' = NoPair \/ (sink' = sink /\ task'[t].at # "release")
    PROVE  Inv'
<1>1. lock = t /\ lock \in Servers
  BY DEF Inv, LockHeld
<1>2. Unopened' /\ HalvesOfPeer'
  BY DEF Inv, Unopened, HalvesOfPeer
<1>3. PairsInHand'
  BY <1>1 DEF Inv, PairsInHand, OneConsole
<1>4. DialsSomeone'
  BY DEF Inv, DialsSomeone, At, Holding, Servers
<1>5. LockHeld'
  BY <1>1 DEF Inv, LockHeld, At
<1>6. SessionOwnsSink'
  BY <1>1, ThreadNames DEF Inv, SessionOwnsSink, At
<1> QED BY <1>2, <1>3, <1>4, <1>5, <1>6 DEF Inv

\* No server moves: at most the sink's channels are closed.
LEMMA OthersMove ==
    ASSUME Inv, TypeOK',
           \A s \in Servers : task'[s] = task[s],
           UNCHANGED <<host, opened, halfOpen, lock>>,
           sink' \in {sink, NoPair}
    PROVE  Inv'
<1>1. Unopened' /\ HalvesOfPeer'
  BY DEF Inv, Unopened, HalvesOfPeer
<1>2. PairsInHand'
  BY DEF Inv, PairsInHand, OneConsole
<1>3. DialsSomeone'
  BY DEF Inv, DialsSomeone, At, Servers
<1>4. LockHeld'
  BY DEF Inv, LockHeld, At
<1>5. SessionOwnsSink'
  BY DEF Inv, SessionOwnsSink, At, TypeOK
<1> QED BY <1>1, <1>2, <1>3, <1>4, <1>5 DEF Inv

\* A server without the lock moves, at most to ask for it with one console's pair.
LEMMA FreeMoves ==
    ASSUME Inv, TypeOK', NEW t \in Servers,
           task[t].at \notin Holding, task'[t].at \notin Holding,
           task'[t].at = "enter" => OneConsole(task[t].pair)',
           task'[t].at = "dial" => task'[t].dial # None,
           \A s \in Servers : s # t => task'[s] = task[s],
           \A n \in Connections : host[n] # None => host'[n] = host[n],
           UNCHANGED <<lock, sink>>, Unopened', HalvesOfPeer'
    PROVE  Inv'
<1>1. lock # t
  BY DEF Inv, LockHeld
<1>2. PairsInHand'
  <2>1. ASSUME NEW s \in Servers, s # t, task[s].at \in Holding \cup {"enter"}
        PROVE  OneConsole(task[s].pair)'
    <3>1. OneConsole(task[s].pair)
      BY <2>1 DEF Inv, PairsInHand
    <3>2. task'[s] = task[s]
      BY <2>1
    <3>3. /\ host'[task[s].pair.control] = host[task[s].pair.control]
          /\ host'[task[s].pair.interrupt] = host[task[s].pair.interrupt]
      BY <3>1, ThreadNames DEF OneConsole
    <3> QED BY <3>1, <3>2, <3>3 DEF OneConsole
  <2> QED BY <2>1 DEF PairsInHand, OneConsole
<1>3. DialsSomeone'
  BY DEF Inv, DialsSomeone, At, Servers
<1>4. LockHeld'
  <2>1. ASSUME NEW s \in Servers
        PROVE  /\ lock' = s <=> task'[s].at \in Holding
               /\ At(s, "close")' => task'[s].then \in {"serve", "release"}
    BY <1>1 DEF Inv, LockHeld, At, Holding
  <2> QED BY <2>1 DEF LockHeld
<1>5. SessionOwnsSink'
  BY <1>1 DEF Inv, SessionOwnsSink, At, TypeOK
<1> QED BY <1>2, <1>3, <1>4, <1>5 DEF Inv

-----------------------------------------------------------------------------
(* Detaching. *)

LEMMA CloseSinkStep == ASSUME Inv, NEW t \in Threads, CloseSink(t) PROVE Inv'
<1>1. {sink} \subseteq Pairs
  BY DEF Inv, TypeOK
<1>2. /\ link' \in [Connections -> {"none", "control", "up", "down"}]
      /\ shut' \subseteq Connections
  BY <1>1, ClosingType DEF CloseSink, Inv
<1>3. TypeOK'
  <2>1. task' \in [Threads -> TaskRecords]
    BY TaskMoves DEF CloseSink, Inv, Steps
  <2> QED BY <1>2, <2>1, PairTypes DEF CloseSink, Inv, TypeOK, TaskRecords
<1>4. CASE t \in Servers
  <2>1. task'[t].at \in {"serve", "release"} /\ task'[t].pair = task[t].pair
    BY <1>4, ThreadNames DEF CloseSink, Inv, TypeOK, LockHeld
  <2>2. task[t].at \in Holding
    BY DEF CloseSink, At, Holding
  <2> QED BY <1>3, <1>4, <2>1, <2>2, HolderMoves, ThreadNames DEF CloseSink, Holding, Inv, TypeOK
<1>5. CASE t \notin Servers
  BY <1>3, <1>5, OthersMove, ThreadNames DEF CloseSink, Inv, TypeOK
<1> QED BY <1>4, <1>5

\* The datapath, the writers, the manager: they go to close the sink, or end.
LEMMA OtherThreadsStep ==
    ASSUME Inv, \/ LinkDead(D, "idle")
                \/ \E n \in Connections : LinkDead(n, "loop") \/ WriterEnds(n)
                \/ Stop
    PROVE  Inv'
<1>1. ASSUME NEW t \in Threads, t \notin Servers, NEW at \in {"idle", "loop"}, LinkDead(t, at)
      PROVE  Inv'
  <2>1. TypeOK'
    <3>1. task' \in [Threads -> TaskRecords]
      BY <1>1, TaskMoves DEF LinkDead, StartDetach, Inv, Steps
    <3> QED BY <1>1, <3>1 DEF LinkDead, StartDetach, Inv, TypeOK, TaskRecords, outside, owned
  <2> QED BY <1>1, <2>1, OthersMove, ThreadNames
         DEF LinkDead, StartDetach, Inv, TypeOK, outside, owned
<1>2. ASSUME NEW n \in Connections, WriterEnds(n) PROVE Inv'
  <2>1. TypeOK'
    BY <1>2 DEF WriterEnds, Goto, Inv, TypeOK, Steps, outside, owned, sinkVars
  <2> QED BY <1>2, <2>1, OthersMove, ThreadNames
         DEF WriterEnds, Goto, Inv, TypeOK, outside, owned, sinkVars
<1>3. ASSUME Stop PROVE Inv'
  <2>1. TypeOK'
    <3>1. backlog' \in [control : Seq(Connections), interrupt : Seq(Connections)]
      BY <1>3 DEF Stop
    <3>2. link' \in [Connections -> {"none", "control", "up", "down"}]
      BY <1>3 DEF Stop, Inv, TypeOK
    <3>3. task' \in [Threads -> TaskRecords]
      BY <1>3, TaskMoves, ThreadNames DEF Stop, StartDetach, Inv, Steps
    <3> QED BY <1>3, <3>1, <3>2, <3>3 DEF Stop, StartDetach, Inv, TypeOK, TaskRecords, owned
  <2> QED BY <1>3, <2>1, OthersMove, ThreadNames DEF Stop, StartDetach, Inv, TypeOK, owned
<1> QED BY <1>1, <1>2, <1>3, ThreadNames

-----------------------------------------------------------------------------
(* The accept loop.  Its pair comes from half_open, by peer. *)

LEMMA WaitingType ==
    ASSUME TypeOK
    PROVE  /\ Waiting("control") \in 0 .. MaxConnections
           /\ Waiting("interrupt") \in 0 .. MaxConnections
           /\ Rest("control") \in Seq(Connections) /\ Rest("interrupt") \in Seq(Connections)
<1>1. backlog.control \in Seq(Connections) /\ backlog.interrupt \in Seq(Connections)
  BY DEF TypeOK
<1>2. Connections \subseteq 0 .. MaxConnections /\ 0 \in 0 .. MaxConnections
  BY HIDServerAssumption DEF Connections
<1>3. \A s \in Seq(Connections) : s # <<>> => Head(s) \in Connections /\ Tail(s) \in Seq(Connections)
  OBVIOUS
<1>4. <<>> \in Seq(Connections)
  OBVIOUS
<1> QED BY <1>1, <1>2, <1>3, <1>4 DEF Waiting, Rest

\* A pair that one pass files under h is of h's channels.
LEMMA FiledOfPeer ==
    ASSUME Inv, NEW h \in Hosts,
           NEW c \in 0 .. MaxConnections, NEW i \in 0 .. MaxConnections
    PROVE  /\ Filed(h, c, i) \in Pairs
           /\ Replaced(h, Filed(h, c, i)) \in Pairs
           /\ Filed(h, c, i).control # 0 => host[Filed(h, c, i).control] = h
           /\ Filed(h, c, i).interrupt # 0 => host[Filed(h, c, i).interrupt] = h
           /\ Complete(Filed(h, c, i)) => OneConsole(Filed(h, c, i))
<1> DEFINE f == Filed(h, c, i)
<1>1. halfOpen[h] \in Pairs /\ 0 \in 0 .. MaxConnections
  BY HIDServerAssumption DEF Inv, TypeOK
<1>2. f.control \in 0 .. MaxConnections /\ f.interrupt \in 0 .. MaxConnections
  BY <1>1, PairTypes DEF Filed
<1>3. f \in Pairs
  BY <1>1, PairTypes DEF Filed
<1>4. Replaced(h, f) \in Pairs
  BY <1>1, PairTypes DEF Replaced
<1>5. /\ f.control # 0 => host[f.control] = h
      /\ f.interrupt # 0 => host[f.interrupt] = h
  BY DEF Filed, Inv, HalvesOfPeer
<1>6. Complete(f) => OneConsole(f)
  BY <1>2, <1>5, ThreadNames DEF Complete, OneConsole
<1> QED BY <1>3, <1>4, <1>5, <1>6

LEMMA AcceptStep == ASSUME Inv, AcceptPass PROVE Inv'
<1> DEFINE c == Waiting("control")
           i == Waiting("interrupt")
           filed == [h \in Hosts |-> Filed(h, c, i)]
<1>1. PICK expired \in SUBSET {h \in Hosts : halfOpen[h] # NoPair} :
        LET ready == {h \in Hosts \ expired : Complete(filed[h])}
        IN  /\ Closing({Replaced(h, filed[h]) : h \in Hosts} \cup {filed[h] : h \in expired})
            /\ IF ready = {}
               THEN /\ halfOpen' = [h \in Hosts |-> IF h \in expired THEN NoPair
                                                    ELSE filed[h]]
                    /\ UNCHANGED task
               ELSE \E h \in ready :
                    /\ halfOpen' = [g \in Hosts |-> IF g \in expired \cup {h} THEN NoPair
                                                    ELSE filed[g]]
                    /\ task' = [task EXCEPT ![A] = [Doing("enter") EXCEPT !.pair = filed[h]]]
  BY DEF AcceptPass
<1>2. /\ At(A, "accept")
      /\ backlog' = [control |-> Rest("control"), interrupt |-> Rest("interrupt")]
      /\ UNCHANGED <<host, opened, sinkVars, lock, stopped, target>>
  BY DEF AcceptPass
<1>3. /\ c \in 0 .. MaxConnections /\ i \in 0 .. MaxConnections
      /\ Rest("control") \in Seq(Connections) /\ Rest("interrupt") \in Seq(Connections)
  BY WaitingType DEF Inv
<1>4. \A h \in Hosts : /\ filed[h] \in Pairs
                       /\ Replaced(h, filed[h]) \in Pairs
                       /\ filed[h].control # 0 => host[filed[h].control] = h
                       /\ filed[h].interrupt # 0 => host[filed[h].interrupt] = h
                       /\ Complete(filed[h]) => OneConsole(filed[h])
  BY <1>3, FiledOfPeer
<1> HIDE DEF c, i, filed
<1>5. /\ link' \in [Connections -> {"none", "control", "up", "down"}]
      /\ shut' \subseteq Connections
  <2>1. {Replaced(h, filed[h]) : h \in Hosts} \cup {filed[h] : h \in expired} \subseteq Pairs
    BY <1>4
  <2> QED BY <1>1, <2>1, ClosingType DEF Inv
<1>6. \A h \in Hosts : halfOpen'[h] \in {NoPair, filed[h]}
  BY <1>1
<1>7. halfOpen' \in [Hosts -> Pairs]
  BY <1>1, <1>4, PairTypes
<1>8. HalvesOfPeer'
  BY <1>2, <1>4, <1>6 DEF HalvesOfPeer, NoPair
<1>9. Unopened'
  BY <1>2 DEF Inv, Unopened
<1>10. task[A].at = "accept" /\ task[A].at \notin Holding \cup {"enter", "dial"} /\ A \in Servers
  BY <1>2 DEF At, Holding, Servers
<1>11. CASE task' = task
  <2>1. TypeOK'
    BY <1>2, <1>3, <1>5, <1>7, <1>11 DEF Inv, TypeOK, sinkVars
  <2> QED BY <1>2, <1>8, <1>9, <1>10, <1>11, <2>1, FreeMoves DEF sinkVars
<1>12. ASSUME NEW h \in Hosts, Complete(filed[h]),
              task' = [task EXCEPT ![A] = [Doing("enter") EXCEPT !.pair = filed[h]]]
       PROVE  Inv'
  <2> DEFINE q == [Doing("enter") EXCEPT !.pair = filed[h]]
  <2>1. q \in TaskRecords /\ q.at = "enter" /\ q.pair = filed[h]
    BY <1>4, DoingType DEF Steps, Doing
  <2> HIDE DEF q
  <2>2. task' = [task EXCEPT ![A] = q]
    BY <1>12 DEF q
  <2>3. /\ task' \in [Threads -> TaskRecords] /\ task'[A] = q
        /\ \A s \in Servers : s # A => task'[s] = task[s]
    BY <2>1, <2>2, ThreadNames, <1>10 DEF Inv, TypeOK, TaskRecords
  <2>4. TypeOK'
    BY <1>2, <1>3, <1>5, <1>7, <2>3 DEF Inv, TypeOK, TaskRecords, sinkVars
  <2>5. OneConsole(task[A].pair)'
    BY <1>2, <1>4, <1>12, <2>1, <2>3 DEF OneConsole
  <2> QED BY <1>2, <1>8, <1>9, <1>10, <2>1, <2>3, <2>4, <2>5, FreeMoves DEF sinkVars, Holding
<1> QED BY <1>1, <1>11, <1>12

LEMMA AcceptEndsStep == ASSUME Inv, AcceptEnds PROVE Inv'
<1>1. {halfOpen[h] : h \in Hosts} \subseteq Pairs
  BY DEF Inv, TypeOK
<1>2. /\ link' \in [Connections -> {"none", "control", "up", "down"}]
      /\ shut' \subseteq Connections
  BY <1>1, ClosingType DEF AcceptEnds, Inv
<1>3. task' \in [Threads -> TaskRecords]
  BY TaskMoves, ThreadNames DEF AcceptEnds, Goto, Inv, Steps, Servers
<1>4. TypeOK'
  BY <1>2, <1>3, PairTypes DEF AcceptEnds, Inv, TypeOK, TaskRecords, sinkVars
<1>5. HalvesOfPeer' /\ Unopened'
  BY DEF AcceptEnds, HalvesOfPeer, Unopened, NoPair, Inv
<1>6. /\ task[A].at \notin Holding /\ task'[A].at = "ended"
      /\ \A s \in Servers : s # A => task'[s] = task[s]
  BY ThreadNames DEF AcceptEnds, Goto, At, Holding, Inv, TypeOK, Servers
<1> QED BY <1>4, <1>5, <1>6, FreeMoves DEF AcceptEnds, sinkVars, Holding, Servers

-----------------------------------------------------------------------------
(* The reconnect loop.  Both channels of its pair are one connection.  *)

LEMMA ReconnectStep ==
    ASSUME Inv, Dial \/ Dialled \/ DialFails \/ ReconnectEnds
    PROVE  Inv'
<1>1. R \in Servers /\ R \in Threads
  BY ThreadNames DEF Servers
<1>2. ASSUME NEW q \in TaskRecords, task' = [task EXCEPT ![R] = q]
      PROVE  /\ task' \in [Threads -> TaskRecords] /\ task'[R] = q
             /\ \A s \in Servers : s # R => task'[s] = task[s]
  BY <1>1, <1>2, ThreadNames DEF Inv, TypeOK, TaskRecords
<1>3. CASE Dial
  <2> DEFINE q == [Doing("dial") EXCEPT !.dial = target]
  <2>1. target \in Hosts
    BY <1>3 DEF Dial, Inv, TypeOK
  <2>2. q \in TaskRecords /\ q.at = "dial" /\ q.dial = target /\ target # None
    BY <1>3, <2>1, DoingType DEF Dial, Steps, Doing
  <2> HIDE DEF q
  <2>3. task' = [task EXCEPT ![R] = q]
    BY <1>3 DEF Dial, q
  <2>4. /\ task' \in [Threads -> TaskRecords] /\ task'[R] = q
        /\ \A s \in Servers : s # R => task'[s] = task[s]
    BY <1>2, <2>2, <2>3
  <2>5. TypeOK'
    BY <1>3, <2>4 DEF Dial, Inv, TypeOK, TaskRecords, outside, owned, sinkVars
  <2>6. task[R].at \notin Holding /\ task'[R].at \notin Holding \cup {"enter"}
    BY <1>3, <2>2, <2>4 DEF Dial, At, Holding
  <2>7. Unopened' /\ HalvesOfPeer'
    BY <1>3 DEF Dial, Inv, Unopened, HalvesOfPeer, outside, owned
  <2> QED BY <1>1, <1>3, <2>2, <2>4, <2>5, <2>6, <2>7, FreeMoves DEF Dial, outside, sinkVars
<1>4. CASE Dialled
  <2> DEFINE p == [control |-> opened', interrupt |-> opened']
             q == [Doing("enter") EXCEPT !.pair = p]
  <2>1. opened' \in Connections /\ opened' = opened + 1 /\ opened \in Nat
        /\ opened' \in 0 .. MaxConnections
    BY <1>4, HIDServerAssumption DEF Inv, TypeOK, Dialled, Connections
  <2>2. p \in Pairs
    BY <2>1, PairTypes
  <2>3. q \in TaskRecords /\ q.at = "enter" /\ q.pair = p
    BY <2>2, DoingType DEF Steps, Doing
  <2>4. task' = [task EXCEPT ![R] = q]
    BY <1>4 DEF Dialled
  <2> HIDE DEF q
  <2>5. /\ task' \in [Threads -> TaskRecords] /\ task'[R] = q
        /\ \A s \in Servers : s # R => task'[s] = task[s]
    BY <1>2, <2>3, <2>4
  <2>6. host' = [host EXCEPT ![opened'] = task[R].dial] /\ task[R].dial \in Hosts
    BY <1>1, <1>4, TaskMoves DEF Dialled, Inv, DialsSomeone, TypeOK
  <2>7. host[opened'] = None
    BY <2>1 DEF Inv, Unopened, Connections
  <2>8. \A n \in Connections : host[n] # None => host'[n] = host[n]
    BY <2>6, <2>7 DEF Inv, TypeOK
  <2>9. TypeOK'
    BY <1>4, <2>1, <2>5, <2>6
    DEF Dialled, Inv, TypeOK, TaskRecords, owned, sinkVars, Connections
  <2>10. Unopened'
    BY <2>1, <2>6 DEF Inv, Unopened, TypeOK, Connections
  <2>11. HalvesOfPeer'
    BY <1>4, <2>8, ThreadNames, PairTypes DEF Dialled, Inv, HalvesOfPeer, TypeOK, owned
  <2>12. OneConsole(task[R].pair)'
    BY <2>1, <2>3, <2>5, <2>6 DEF OneConsole, Inv, TypeOK
  <2>13. task[R].at \notin Holding /\ task'[R].at = "enter" /\ "enter" \notin Holding
    BY <1>4, <2>3, <2>5 DEF Dialled, At, Holding
  <2> QED BY <1>1, <1>4, <2>5, <2>8, <2>9, <2>10, <2>11, <2>12, <2>13, FreeMoves
          DEF Dialled, sinkVars
<1>5. CASE DialFails
  <2>1. Doing("wait") \in TaskRecords /\ Doing("wait").at = "wait"
    BY DoingType DEF Steps
  <2>2. /\ task' \in [Threads -> TaskRecords] /\ task'[R] = Doing("wait")
        /\ \A s \in Servers : s # R => task'[s] = task[s]
    BY <1>2, <1>5, <2>1 DEF DialFails
  <2>3. TypeOK'
    BY <1>5, <2>2 DEF DialFails, Inv, TypeOK, TaskRecords, outside, owned, sinkVars
  <2>4. Unopened' /\ HalvesOfPeer'
    BY <1>5 DEF DialFails, Inv, Unopened, HalvesOfPeer, outside, owned
  <2>5. task[R].at \notin Holding /\ task'[R].at = "wait" /\ "wait" \notin Holding
    BY <1>5, <2>1, <2>2 DEF DialFails, At, Holding
  <2> QED BY <1>1, <1>5, <2>2, <2>3, <2>4, <2>5, FreeMoves DEF DialFails, outside, sinkVars
<1>6. CASE ReconnectEnds
  <2>1. task' \in [Threads -> TaskRecords]
    BY <1>1, <1>6, TaskMoves DEF ReconnectEnds, Goto, Inv, Steps
  <2>2. TypeOK'
    BY <1>6, <2>1 DEF ReconnectEnds, Inv, TypeOK, TaskRecords, outside, owned, sinkVars
  <2>3. Unopened' /\ HalvesOfPeer'
    BY <1>6 DEF ReconnectEnds, Inv, Unopened, HalvesOfPeer, outside, owned
  <2>4. /\ task[R].at \notin Holding /\ task'[R].at = "ended" /\ "ended" \notin Holding
        /\ \A s \in Servers : s # R => task'[s] = task[s]
    BY <1>1, <1>6 DEF ReconnectEnds, Goto, At, Holding, Inv, TypeOK
  <2> QED BY <1>1, <1>6, <2>2, <2>3, <2>4, FreeMoves DEF ReconnectEnds, outside, sinkVars
<1> QED BY <1>3, <1>4, <1>5, <1>6

-----------------------------------------------------------------------------
(* A session, from the lock to the lock. *)

\* The lock is free only while no server is where its holder goes, and then the
\* sink is empty.
LEMMA EnterStep == ASSUME Inv, NEW t \in Servers, Enter(t) PROVE Inv'
<1>1. /\ task[t].at = "enter" /\ t \in Threads /\ OneConsole(task[t].pair)
      /\ task[t].pair \in Pairs
  BY ThreadNames DEF Enter, At, Inv, PairsInHand, TypeOK
<1>2. CASE lock = None
  <2>1. /\ lock' = t /\ sink' = task[t].pair /\ UNCHANGED <<link, shut>>
        /\ task' = [task EXCEPT ![t].at = "start"]
    BY <1>2 DEF Enter, Goto
  <2>2. task' \in [Threads -> TaskRecords]
    BY <1>1, <2>1, TaskMoves DEF Inv, Steps
  <2>3. TypeOK'
    BY <1>1, <2>1, <2>2 DEF Enter, Inv, TypeOK, TaskRecords
  <2>4. /\ task'[t].at = "start" /\ task'[t].pair = task[t].pair
        /\ \A s \in Servers : s # t => task'[s] = task[s]
    BY <1>1, <2>1, ThreadNames DEF Inv, TypeOK
  <2>5. Unopened' /\ HalvesOfPeer'
    BY DEF Enter, Inv, Unopened, HalvesOfPeer
  <2>6. PairsInHand'
    BY <1>1, <2>4 DEF Enter, Inv, PairsInHand, OneConsole
  <2>7. DialsSomeone'
    BY <2>4 DEF Inv, DialsSomeone, At, Servers
  <2>8. \A s \in Servers : task[s].at \notin Holding
    BY <1>2, ThreadNames DEF Inv, LockHeld
  <2>9. LockHeld'
    BY <2>1, <2>4, <2>8 DEF LockHeld, At, Holding
  <2>10. SessionOwnsSink'
    BY <2>1, <2>4, ThreadNames DEF SessionOwnsSink, At
  <2> QED BY <2>3, <2>5, <2>6, <2>7, <2>9, <2>10 DEF Inv
<1>3. CASE lock # None
  <2>1. /\ Closing({task[t].pair}) /\ task' = [task EXCEPT ![t] = Doing(Home(t))]
        /\ UNCHANGED <<lock, sink, host, opened, backlog, halfOpen, quit, stopped, target>>
    BY <1>3 DEF Enter
  <2>2. Home(t) \in {"accept", "wait"}
    BY DEF Home
  <2>3. Doing(Home(t)) \in TaskRecords /\ Doing(Home(t)).at = Home(t)
    BY <2>2, DoingType DEF Steps
  <2>4. /\ task' \in [Threads -> TaskRecords] /\ task'[t] = Doing(Home(t))
        /\ \A s \in Servers : s # t => task'[s] = task[s]
    BY <1>1, <2>1, <2>3, ThreadNames DEF Inv, TypeOK, TaskRecords
  <2>5. /\ link' \in [Connections -> {"none", "control", "up", "down"}]
        /\ shut' \subseteq Connections
    BY <1>1, <2>1, ClosingType DEF Inv
  <2>6. TypeOK'
    BY <2>1, <2>4, <2>5 DEF Inv, TypeOK, TaskRecords
  <2>7. Unopened' /\ HalvesOfPeer'
    BY <2>1 DEF Inv, Unopened, HalvesOfPeer
  <2>8. /\ task[t].at \notin Holding
        /\ task'[t].at \notin Holding \cup {"enter", "dial"}
    BY <1>1, <2>2, <2>3, <2>4 DEF Holding
  <2> QED BY <2>1, <2>4, <2>6, <2>7, <2>8, FreeMoves
<1> QED BY <1>2, <1>3

LEMMA SessionStep ==
    ASSUME Inv, NEW t \in Servers,
           Start(t) \/ Configure(t) \/ ServeEnds(t) \/ Unplugged(t)
    PROVE  Inv'
<1>1. t \in Threads /\ task \in [Threads -> TaskRecords]
  BY ThreadNames DEF Inv, TypeOK, TaskRecords
<1>2. CASE Start(t)
  <2> DEFINE w == task[t].pair.interrupt
  <2>1. At(t, "start") /\ OneConsole(task[t].pair)
    BY <1>2 DEF Start, Inv, PairsInHand, At, Holding
  <2>2. w \in Connections /\ w \in Threads /\ w \notin Servers
    BY <2>1, ThreadNames DEF OneConsole
  <2>3. task' = [task EXCEPT ![t].at = "callback", ![w].at = "loop"]
    BY <1>2 DEF Start
  <2> HIDE DEF w
  <2>4. /\ task' \in [Threads -> TaskRecords]
        /\ task'[t].at = "callback" /\ task'[t].pair = task[t].pair
        /\ \A s \in Servers : s # t => task'[s] = task[s]
    BY <1>1, <2>2, <2>3, ThreadNames DEF TaskRecords, Steps
  <2>5. TypeOK'
    BY <1>2, <2>1, <2>4 DEF Start, OneConsole, Inv, TypeOK, TaskRecords, outside, owned
  <2>6. task[t].at \in Holding /\ task'[t].at \in Holding
    BY <2>1, <2>4 DEF At, Holding
  <2> QED BY <1>2, <2>4, <2>5, <2>6, HolderMoves DEF Start, outside, owned
<1>3. CASE Configure(t)
  <2>1. /\ task' \in [Threads -> TaskRecords] /\ quit' \in BOOLEAN
        /\ task'[t].at \in {"close", "serve"} /\ task'[t].pair = task[t].pair
        /\ task'[t].at = "close" => task'[t].then = "release"
        /\ \A s \in Servers : s # t => task'[s] = task[s]
    <3>1. CASE task[t].pair.control \in shut
      <4>1. /\ task' = [task EXCEPT ![t].at = "close", ![t].then = "release", ![t].raised = TRUE]
            /\ quit' = TRUE
        BY <1>3, <3>1 DEF Configure
      <4>2. /\ task[t] \in TaskRecords
            /\ task'[t] = [task[t] EXCEPT !.at = "close", !.then = "release", !.raised = TRUE]
        BY <1>1, <4>1
      <4>3. /\ task'[t] \in TaskRecords /\ task'[t].at = "close" /\ task'[t].then = "release"
            /\ task'[t].pair = task[t].pair
        BY <4>2 DEF TaskRecords, Steps
      <4>4. \A s \in Threads : s # t => task'[s] = task[s]
        BY <1>1, <4>1
      <4>5. task' \in [Threads -> TaskRecords]
        BY <1>1, <4>1, <4>3, <4>4
      <4> QED BY <4>1, <4>3, <4>4, <4>5, ThreadNames
    <3>2. CASE task[t].pair.control \notin shut
      <4>1. task' = [task EXCEPT ![t].at = "serve"] /\ quit' = quit
        BY <1>3, <3>2 DEF Configure, Goto
      <4>2. task' \in [Threads -> TaskRecords] /\ quit' \in BOOLEAN
        BY <4>1, TaskMoves, <1>1 DEF Inv, TypeOK, Steps
      <4> QED BY <1>1, <4>1, <4>2, ThreadNames DEF TaskRecords
    <3> QED BY <3>1, <3>2
  <2>2. TypeOK'
    BY <1>3, <2>1 DEF Configure, Inv, TypeOK, TaskRecords, outside, owned
  <2>3. task[t].at \in Holding /\ task'[t].at \in Holding
    BY <1>3, <2>1 DEF Configure, At, Holding
  <2> QED BY <1>3, <2>1, <2>2, <2>3, HolderMoves DEF Configure, outside, owned
<1>4. CASE ServeEnds(t) \/ Unplugged(t)
  <2>1. PICK then \in {"serve", "release"} : StartDetach(t, then)
    BY <1>4 DEF ServeEnds, Unplugged
  <2>2. /\ At(t, "serve")
        /\ UNCHANGED <<outside, owned, sink, lock, stopped, target>>
    BY <1>4 DEF ServeEnds, Unplugged
  <2>3. /\ task' \in [Threads -> TaskRecords] /\ quit' \in BOOLEAN
        /\ task'[t].at = "close" /\ task'[t].pair = task[t].pair /\ task'[t].then = then
        /\ \A s \in Servers : s # t => task'[s] = task[s]
    BY <1>1, <2>1, ThreadNames DEF StartDetach, TaskRecords, Steps
  <2>4. TypeOK'
    BY <2>2, <2>3 DEF Inv, TypeOK, TaskRecords, outside, owned
  <2>5. task[t].at \in Holding /\ task'[t].at \in Holding
    BY <2>2, <2>3 DEF At, Holding
  <2> QED BY <2>1, <2>2, <2>3, <2>4, <2>5, HolderMoves DEF outside, owned
<1> QED BY <1>2, <1>3, <1>4

\* By now the sink is empty: the lock goes back with nothing open.
LEMMA ReleaseStep == ASSUME Inv, NEW t \in Servers, Release(t) PROVE Inv'
<1>1. /\ At(t, "release") /\ lock = t /\ t \in Threads /\ sink = NoPair
  BY ThreadNames DEF Release, Inv, At, LockHeld, Holding, SessionOwnsSink
<1> DEFINE next == IF task[t].raised THEN "dying" ELSE Home(t)
<1>2. next \in {"dying", "accept", "wait"}
  BY DEF Home
<1>3. Doing(next) \in TaskRecords /\ Doing(next).at = next
  BY <1>2, DoingType DEF Steps
<1>4. /\ lock' = None /\ task' = [task EXCEPT ![t] = Doing(next)]
      /\ UNCHANGED <<outside, owned, sinkVars, stopped, target>>
  BY DEF Release
<1> HIDE DEF next
<1>5. /\ task' \in [Threads -> TaskRecords] /\ task'[t] = Doing(next)
      /\ \A s \in Servers : s # t => task'[s] = task[s]
  BY <1>1, <1>3, <1>4, ThreadNames DEF Inv, TypeOK, TaskRecords
<1>6. TypeOK'
  BY <1>4, <1>5 DEF Inv, TypeOK, TaskRecords, outside, owned, sinkVars
<1>7. task'[t].at \notin Holding \cup {"enter", "dial", "close"}
  BY <1>2, <1>3, <1>5 DEF Holding
<1>8. Unopened' /\ HalvesOfPeer'
  BY <1>4 DEF Inv, Unopened, HalvesOfPeer, outside, owned
<1>9. PairsInHand'
  BY <1>4, <1>5, <1>7 DEF Inv, PairsInHand, OneConsole, outside
<1>10. DialsSomeone'
  BY <1>5, <1>7 DEF Inv, DialsSomeone, At, Servers
<1>11. LockHeld'
  <2>1. \A s \in Servers : s # t => task[s].at \notin Holding
    BY <1>1 DEF Inv, LockHeld
  <2>2. \A s \in Servers : task'[s].at \notin Holding
    BY <1>5, <1>7, <2>1
  <2> QED BY <1>4, <2>2, ThreadNames DEF LockHeld, At, Holding
<1>12. SessionOwnsSink'
  BY <1>1, <1>4 DEF SessionOwnsSink, sinkVars
<1> QED BY <1>6, <1>8, <1>9, <1>10, <1>11, <1>12 DEF Inv

-----------------------------------------------------------------------------
LEMMA InitInv == Init => Inv
<1> SUFFICES ASSUME Init PROVE Inv
  OBVIOUS
<1>1. \A t \in Threads : task[t] \in {Doing("accept"), Doing("wait"), Doing("idle")}
  BY DEF Init, Home
<1>2. \A t \in Threads : task[t] \in TaskRecords /\ task[t].at \in {"accept", "wait", "idle"}
  BY <1>1, DoingType DEF Steps
<1>3. TypeOK
  <2>1. task \in [Threads -> TaskRecords]
    BY <1>2 DEF Init
  <2>2. target \in Hosts \cup {None}
    BY HIDServerAssumption DEF Init
  <2>3. backlog \in [control : Seq(Connections), interrupt : Seq(Connections)]
    BY DEF Init
  <2>4. opened \in 0 .. MaxConnections /\ halfOpen \in [Hosts -> Pairs] /\ sink \in Pairs
    BY PairTypes, HIDServerAssumption DEF Init
  <2> QED BY <2>1, <2>2, <2>3, <2>4 DEF Init, TypeOK, TaskRecords
<1>4. Unopened /\ HalvesOfPeer /\ SessionOwnsSink
  BY DEF Init, Unopened, HalvesOfPeer, SessionOwnsSink, NoPair
<1>5. PairsInHand /\ DialsSomeone /\ LockHeld
  BY <1>2, ThreadNames DEF Init, PairsInHand, DialsSomeone, LockHeld, At, Holding, Servers
<1> QED BY <1>3, <1>4, <1>5 DEF Inv

LEMMA StepInv == Inv /\ [Next]_vars => Inv'
<1> SUFFICES ASSUME Inv, [Next]_vars PROVE Inv'
  OBVIOUS
<1>1. CASE UNCHANGED vars
  <2>1. TypeOK'
    BY <1>1 DEF Inv, TypeOK, vars, outside, owned, sinkVars
  <2> QED BY <1>1, <2>1, OthersMove DEF vars, outside, owned, sinkVars
<1>2. ASSUME NEW t \in Servers, Session(t) PROVE Inv'
  BY <1>2, EnterStep, SessionStep, ReleaseStep DEF Session
<1>3. CASE Accept \/ Reconnect \/ Dial
  BY <1>2, <1>3, AcceptStep, AcceptEndsStep, ReconnectStep DEF Accept, Reconnect, Servers
<1>4. CASE \/ \E h \in Hosts : Connect(h)
           \/ \E n \in Connections : ConnectInterrupt(n) \/ LinkLost(n)
           \/ Forget
  BY <1>4, ConsoleStep
<1>5. CASE \/ LinkDead(D, "idle") \/ Stop
           \/ \E n \in Connections : LinkDead(n, "loop") \/ WriterEnds(n)
  BY <1>5, OtherThreadsStep
<1>6. CASE \E t \in Threads : CloseSink(t)
  BY <1>6, CloseSinkStep
<1>7. CASE \E t \in Servers : Unplugged(t)
  BY <1>7, SessionStep
<1> QED BY <1>1, <1>3, <1>4, <1>5, <1>6, <1>7 DEF Next

LEMMA Invariance == Spec => []Inv
<1>1. Init /\ [][Next]_vars => []Inv
  BY InitInv, StepInv, PTL
<1> QED BY <1>1, PTL DEF Spec

-----------------------------------------------------------------------------
\* Whatever consoles, links, reconnects and stop do, the state keeps its shape, the
\* connections that a pair or a task names included.
THEOREM TypeCorrect == Spec => []TypeOK
<1>1. Inv => TypeOK
  BY DEF Inv
<1> QED BY <1>1, Invariance, PTL

\* SessionOwnsSink: detach on any thread, at any step of a session, never leaves
\* the sink with channels that no session will close, for attach is only reached
\* with the lock and the lock is only given back after a detach.
THEOREM SinkOwned == Spec => []SessionOwnsSink
<1>1. Inv => SessionOwnsSink
  BY DEF Inv
<1> QED BY <1>1, Invariance, PTL

\* HostsNotSpliced: a session that is served has both its channels from one console,
\* however many consoles connect, give up and connect again meanwhile.
THEOREM NotSpliced == Spec => []HostsNotSpliced
<1>1. Inv => HostsNotSpliced
  BY ThreadNames DEF Inv, HostsNotSpliced, LockHeld, PairsInHand, OneConsole, TypeOK
<1> QED BY <1>1, Invariance, PTL
=============================================================================
