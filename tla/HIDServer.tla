------------------------------- MODULE HIDServer -------------------------------
(***************************************************************************)
(* HIDServer of server/bt/hid.py, and attach and detach of its L2CAPSink:  *)
(* how one adapter comes to serve one console.  The threads are            *)
(*   A     _accept_loop, which also serves the sessions that come in       *)
(*   R     _reconnect_loop, which also serves the sessions it dials        *)
(*   D     the datapath, which may meet a dead link                        *)
(*   M     the adapter manager: stop, the reconnect target                 *)
(*   n     the writer thread of the session on interrupt channel n         *)
(*                                                                         *)
(* A connection is one attempt of a console to open control and interrupt, *)
(* or of ours to open both.  A pair is what the server takes for one: the  *)
(* numbers of the connections its two channels belong to, 0 for none.      *)
(* Waits are bounded in the code (the select, recv, join and backoff       *)
(* timeouts), so a thread may go on at any time: a join may time out.      *)
(***************************************************************************)
EXTENDS Naturals, Sequences

CONSTANTS Hosts, A, R, D, M, None,
          Remembered,      \* the console the configuration may name at start, or None
          MaxConnections   \* bound: connections of a run, in or out

ASSUME HIDServerAssumption ==
    /\ MaxConnections \in Nat
    /\ Remembered \subseteq Hosts \cup {None}
    /\ A # R /\ D # M /\ {A, R} \cap {D, M, None} = {} /\ None \notin {D, M}
    /\ {A, R, D, M, None} \cap (Hosts \cup Nat) = {}
    /\ Hosts \cap Nat = {}

Connections == 1 .. MaxConnections
Servers == {A, R}
Threads == {A, R, D, M} \cup Connections
Backlog == 2    \* sock.listen(2)
NoPair == [control |-> 0, interrupt |-> 0]

VARIABLES
    link,      \* external: how far each connection has got, from the console's side
    host,      \* external: whose it is
    opened,    \* how many there have been
    backlog,   \* external: channels the kernel has accepted, per PSM
    shut,      \* connections whose control socket we have closed
    halfOpen,  \* half_open, per peer
    sink,      \* _control and _interrupt of the sink
    quit,      \* the sink's _stop
    lock,      \* _session_lock: who serves
    stopped,   \* the server's _stop
    target,    \* _reconnect_target
    task       \* what each thread is doing

outside == <<link, host, opened, backlog>>
owned == <<shut, halfOpen>>
sinkVars == <<sink, quit>>
vars == <<outside, owned, sinkVars, lock, stopped, target, task>>

\* at: the next step; pair: the channels in hand; then: where detach returns to;
\* raised: an exception is on its way out.
Doing(at) == [at |-> at, pair |-> NoPair, then |-> "idle", raised |-> FALSE, dial |-> None]

Home(t) == IF t = A THEN "accept" ELSE "wait"

Init ==
    /\ link = [n \in Connections |-> "none"] /\ host = [n \in Connections |-> None]
    /\ opened = 0
    /\ backlog = [control |-> <<>>, interrupt |-> <<>>]
    /\ shut = {} /\ halfOpen = [h \in Hosts |-> NoPair]
    /\ sink = NoPair /\ quit = FALSE
    /\ lock = None /\ stopped = FALSE
    /\ target \in Remembered
    /\ task = [t \in Threads |-> IF t \in Servers THEN Doing(Home(t)) ELSE Doing("idle")]

At(t, at) == task[t].at = at
Goto(t, at) == task' = [task EXCEPT ![t].at = at]
Up(n) == link[n] \in {"control", "up"}

\* The channels of these pairs are closed: their consoles see the link go, and
\* the control sockets are no longer usable here.
Closing(pairs) ==
    LET ends == UNION {{p.control, p.interrupt} : p \in pairs}
    IN  /\ link' = [n \in Connections |-> IF n \in ends THEN "down" ELSE link[n]]
        /\ shut' = shut \cup ({p.control : p \in pairs} \ {0})

\* detach, on any thread: _stop and the writer first, then, whether or not the
\* writer was seen to end, the sockets under _io_lock.
StartDetach(t, then) ==
    /\ quit' = TRUE
    /\ task' = [task EXCEPT ![t].at = "close", ![t].then = then]

CloseSink(t) ==
    /\ At(t, "close")
    /\ Closing({sink})
    /\ sink' = NoPair
    /\ task' = [task EXCEPT ![t].at = task[t].then, ![t].then = "idle"]
    /\ UNCHANGED <<host, opened, backlog, halfOpen, quit, lock, stopped, target>>

-----------------------------------------------------------------------------
(* Consoles.                                                               *)

\* A console opens the control channel, then the interrupt channel.
Connect(h) ==
    /\ ~ stopped /\ opened < MaxConnections
    /\ Len(backlog.control) < Backlog
    /\ ~ \E n \in Connections : host[n] = h /\ Up(n)
    /\ opened' = opened + 1
    /\ link' = [link EXCEPT ![opened'] = "control"]
    /\ host' = [host EXCEPT ![opened'] = h]
    /\ backlog' = [backlog EXCEPT !.control = Append(@, opened')]
    /\ UNCHANGED <<owned, sinkVars, lock, stopped, target, task>>

ConnectInterrupt(n) ==
    /\ ~ stopped /\ link[n] = "control"
    /\ Len(backlog.interrupt) < Backlog
    /\ link' = [link EXCEPT ![n] = "up"]
    /\ backlog' = [backlog EXCEPT !.interrupt = Append(@, n)]
    /\ UNCHANGED <<host, opened, owned, sinkVars, lock, stopped, target, task>>

LinkLost(n) ==
    /\ Up(n)
    /\ link' = [link EXCEPT ![n] = "down"]
    /\ UNCHANGED <<host, opened, backlog, owned, sinkVars, lock, stopped, target, task>>

-----------------------------------------------------------------------------
(* The accept loop.                                                        *)

\* The listener's next channel, and those behind it.
Waiting(psm) == IF backlog[psm] = <<>> THEN 0 ELSE Head(backlog[psm])
Rest(psm) == IF backlog[psm] = <<>> THEN <<>> ELSE Tail(backlog[psm])

\* Mutant: the interrupt channel joins whichever control channel is waiting.
FiledByArrival(h, c, i) ==
    [control |-> IF c # 0 /\ host[c] = h THEN c ELSE halfOpen[h].control,
     interrupt |-> IF i # 0 /\ (host[i] = h \/ halfOpen[h].control # 0) THEN i
                   ELSE halfOpen[h].interrupt]

\* _accept_one, for each listener that is ready: filed under the peer.
Filed(h, c, i) ==
    [control |-> IF c # 0 /\ host[c] = h THEN c ELSE halfOpen[h].control,
     interrupt |-> IF i # 0 /\ host[i] = h THEN i ELSE halfOpen[h].interrupt]

\* What a newer channel of the same peer replaces.
Replaced(h, filed) ==
    [control |-> IF filed.control = halfOpen[h].control THEN 0 ELSE halfOpen[h].control,
     interrupt |-> IF filed.interrupt = halfOpen[h].interrupt THEN 0
                   ELSE halfOpen[h].interrupt]

Complete(pair) == pair.control # 0 /\ pair.interrupt # 0

\* One pass: accept on both listeners, close the halves that have waited too long,
\* serve one pair that is complete.
AcceptPass ==
    LET c == Waiting("control")
        i == Waiting("interrupt")
        filed == [h \in Hosts |-> Filed(h, c, i)]
    IN  /\ At(A, "accept") /\ ~ stopped
        /\ backlog' = [control |-> Rest("control"), interrupt |-> Rest("interrupt")]
        /\ \E expired \in SUBSET {h \in Hosts : halfOpen[h] # NoPair} :
             LET ready == {h \in Hosts \ expired : Complete(filed[h])}
             IN  /\ c # 0 \/ i # 0 \/ expired # {} \/ ready # {}
                 /\ Closing({Replaced(h, filed[h]) : h \in Hosts} \cup {filed[h] : h \in expired})
                 /\ IF ready = {}
                    THEN /\ halfOpen' = [h \in Hosts |-> IF h \in expired THEN NoPair
                                                         ELSE filed[h]]
                         /\ UNCHANGED task
                    ELSE \E h \in ready :
                         /\ halfOpen' = [g \in Hosts |-> IF g \in expired \cup {h} THEN NoPair
                                                         ELSE filed[g]]
                         /\ task' = [task EXCEPT ![A] = [Doing("enter") EXCEPT !.pair = filed[h]]]
        /\ UNCHANGED <<host, opened, sinkVars, lock, stopped, target>>

\* The loop ends, or an exception has ended it: the halves are closed.
AcceptEnds ==
    /\ \/ At(A, "accept") /\ stopped
       \/ At(A, "dying")
    /\ Closing({halfOpen[h] : h \in Hosts})
    /\ halfOpen' = [h \in Hosts |-> NoPair]
    /\ Goto(A, "ended")
    /\ UNCHANGED <<host, opened, backlog, sinkVars, lock, stopped, target>>

-----------------------------------------------------------------------------
(* The reconnect loop.                                                     *)

Connected == sink.interrupt # 0

\* The backoff is over or was cut short, and no pairing window suspends it: when
\* that is so is left open, so that Dial may happen here and need not.
Dial ==
    /\ At(R, "wait") /\ ~ stopped
    /\ target # None /\ ~ Connected
    /\ task' = [task EXCEPT ![R] = [Doing("dial") EXCEPT !.dial = target]]
    /\ UNCHANGED <<outside, owned, sinkVars, lock, stopped, target>>

\* Both channels are open.
Dialled ==
    /\ At(R, "dial") /\ opened < MaxConnections
    /\ opened' = opened + 1
    /\ link' = [link EXCEPT ![opened'] = "up"]
    /\ host' = [host EXCEPT ![opened'] = task[R].dial]
    /\ task' = [task EXCEPT ![R] = [Doing("enter") EXCEPT
                  !.pair = [control |-> opened', interrupt |-> opened']]]
    /\ UNCHANGED <<backlog, owned, sinkVars, lock, stopped, target>>

DialFails ==
    /\ At(R, "dial")
    /\ task' = [task EXCEPT ![R] = Doing("wait")]
    /\ UNCHANGED <<outside, owned, sinkVars, lock, stopped, target>>

ReconnectEnds ==
    /\ \/ At(R, "wait") /\ stopped
       \/ At(R, "dying")
    /\ Goto(R, "ended")
    /\ UNCHANGED <<outside, owned, sinkVars, lock, stopped, target>>

-----------------------------------------------------------------------------
(* _serve_session.                                                         *)

\* Mutant: the session lock is not asked for.
EnterAnyway(t) ==
    /\ At(t, "enter")
    /\ lock' = t /\ sink' = task[t].pair
    /\ Goto(t, "start")
    /\ UNCHANGED <<outside, owned, quit, stopped, target>>

\* One session at a time: a duplicate is closed.  attach, first the sockets under
\* _io_lock; nobody can tell that step from taking the lock.
Enter(t) ==
    /\ At(t, "enter")
    /\ IF lock = None
       THEN /\ lock' = t /\ sink' = task[t].pair
            /\ Goto(t, "start")
            /\ UNCHANGED <<link, shut>>
       ELSE /\ Closing({task[t].pair})
            /\ task' = [task EXCEPT ![t] = Doing(Home(t))]
            /\ UNCHANGED <<lock, sink>>
    /\ UNCHANGED <<host, opened, backlog, halfOpen, quit, stopped, target>>

\* The rest of attach, _stop and a writer; set_reconnect_target(peer).
Start(t) ==
    LET w == task[t].pair.interrupt
    IN  /\ At(t, "start")
        /\ quit' = FALSE
        /\ target' = host[task[t].pair.control]
        /\ task' = [task EXCEPT ![t].at = "callback", ![w].at = "loop"]
        /\ UNCHANGED <<outside, owned, sink, lock, stopped>>

\* _on_host_connected has returned.  A control socket that another thread has
\* closed meanwhile raises in setblocking, outside the loop's try.
Configure(t) ==
    /\ At(t, "callback")
    /\ IF task[t].pair.control \in shut
       THEN /\ task' = [task EXCEPT ![t].at = "close", ![t].then = "release", ![t].raised = TRUE]
            /\ quit' = TRUE
       ELSE Goto(t, "serve") /\ UNCHANGED quit
    /\ UNCHANGED <<outside, owned, sink, lock, stopped, target>>

\* Mutant: the session's loop does not look at _stop.
ServeEndsWithLink(t) ==
    /\ At(t, "serve")
    /\ link[task[t].pair.control] = "down" \/ task[t].pair.control \in shut
    /\ StartDetach(t, "release")
    /\ UNCHANGED <<outside, owned, sink, lock, stopped, target>>

\* _serve_control returns: stop, the console closed the link, or the socket is.
ServeEnds(t) ==
    /\ At(t, "serve")
    /\ \/ stopped
       \/ link[task[t].pair.control] = "down"
       \/ task[t].pair.control \in shut
    /\ StartDetach(t, "release")
    /\ UNCHANGED <<outside, owned, sink, lock, stopped, target>>

\* The console unplugs the virtual cable, or a reply meets a dead link: detach,
\* from inside the session.
Unplugged(t) ==
    /\ At(t, "serve") /\ Connected
    /\ Up(task[t].pair.control) \/ link[sink.interrupt] = "down"
    /\ StartDetach(t, "serve")
    /\ UNCHANGED <<outside, owned, sink, lock, stopped, target>>

\* Mutant: the lock is not released when an exception ends the session.
ReleaseUnlessRaised(t) ==
    /\ At(t, "release")
    /\ lock' = IF task[t].raised THEN lock ELSE None
    /\ task' = [task EXCEPT ![t] = Doing(IF task[t].raised THEN "dying" ELSE Home(t))]
    /\ UNCHANGED <<outside, owned, sinkVars, stopped, target>>

\* finally: after detach, the lock.
Release(t) ==
    /\ At(t, "release")
    /\ lock' = None
    /\ task' = [task EXCEPT ![t] = Doing(IF task[t].raised THEN "dying" ELSE Home(t))]
    /\ UNCHANGED <<outside, owned, sinkVars, stopped, target>>

-----------------------------------------------------------------------------
(* The other threads that detach.                                          *)

\* A write meets a dead link: on the datapath at any time, on a writer in its loop.
LinkDead(t, at) ==
    /\ At(t, at) /\ Connected /\ link[sink.interrupt] = "down"
    /\ StartDetach(t, at)
    /\ UNCHANGED <<outside, owned, sink, lock, stopped, target>>

WriterEnds(n) ==
    /\ At(n, "loop")
    /\ quit \/ ~ Connected
    /\ Goto(n, "ended")
    /\ UNCHANGED <<outside, owned, sinkVars, lock, stopped, target>>

-----------------------------------------------------------------------------
(* The adapter manager.                                                    *)

\* set_reconnect_target(None).
Forget ==
    /\ target # None
    /\ target' = None
    /\ UNCHANGED <<outside, owned, sinkVars, lock, stopped, task>>

\* stop: the flag, the listeners, then detach; the joins time out if they must.
Stop ==
    /\ At(M, "idle") /\ ~ stopped
    /\ stopped' = TRUE
    /\ link' = [n \in Connections |->
          IF \E psm \in DOMAIN backlog : \E k \in DOMAIN backlog[psm] : backlog[psm][k] = n
          THEN "down" ELSE link[n]]
    /\ backlog' = [control |-> <<>>, interrupt |-> <<>>]
    /\ StartDetach(M, "ended")
    /\ UNCHANGED <<host, opened, owned, sink, lock, target>>

-----------------------------------------------------------------------------
Session(t) == \/ Enter(t) \/ Start(t) \/ Configure(t) \/ ServeEnds(t)
              \/ Release(t)
Accept == AcceptPass \/ AcceptEnds \/ Session(A)
Reconnect == Dialled \/ DialFails \/ ReconnectEnds \/ Session(R)

Next ==
    \/ \E h \in Hosts : Connect(h)
    \/ \E n \in Connections : ConnectInterrupt(n) \/ LinkLost(n)
    \/ Accept \/ Reconnect \/ Dial
    \/ \E t \in Servers : Unplugged(t)
    \/ \E t \in Threads : CloseSink(t)
    \/ LinkDead(D, "idle")
    \/ \E n \in Connections : LinkDead(n, "loop") \/ WriterEnds(n)
    \/ Forget \/ Stop

\* Every wait of a thread is bounded.  Nothing is assumed of consoles, of the
\* datapath's traffic or of the operator.
Fairness ==
    /\ WF_vars(Accept \/ CloseSink(A)) /\ WF_vars(Reconnect \/ CloseSink(R))
    /\ WF_vars(CloseSink(D)) /\ WF_vars(CloseSink(M))
    /\ \A n \in Connections : WF_vars(WriterEnds(n) \/ CloseSink(n))

Spec == Init /\ [][Next]_vars /\ Fairness

-----------------------------------------------------------------------------
Steps == {"idle", "accept", "wait", "dial", "enter", "start", "callback",
          "serve", "close", "release", "loop", "dying", "ended"}

Pairs == [control : 0 .. MaxConnections, interrupt : 0 .. MaxConnections]

TypeOK ==
    /\ link \in [Connections -> {"none", "control", "up", "down"}]
    /\ host \in [Connections -> Hosts \cup {None}]
    /\ opened \in 0 .. MaxConnections
    /\ backlog \in [control : Seq(Connections), interrupt : Seq(Connections)]
    /\ shut \subseteq Connections
    /\ halfOpen \in [Hosts -> Pairs]
    /\ sink \in Pairs /\ quit \in BOOLEAN
    /\ lock \in Servers \cup {None} /\ stopped \in BOOLEAN
    /\ target \in Hosts \cup {None}
    /\ task \in [Threads -> [at : Steps, pair : Pairs, then : Steps, raised : BOOLEAN,
                             dial : Hosts \cup {None}]]

\* The sink only ever holds the channels of the session that is being served,
\* however many consoles and reconnects meet and whoever detaches under it: none
\* are left behind for nobody to close.
SessionOwnsSink ==
    sink # NoPair =>
        /\ lock # None
        /\ task[lock].pair = sink
        /\ ~ At(lock, "release")

\* _accept_loop: "a session starts only when one peer has supplied both".
HostsNotSpliced ==
    lock # None => host[task[lock].pair.control] = host[task[lock].pair.interrupt]

\* stop ends every thread of this adapter, writers included, and leaves no socket
\* open, wherever each was: target, in a callback, attaching, dead.
StopEndsAll ==
    stopped ~> /\ At(A, "ended") /\ At(R, "ended") /\ sink = NoPair
               /\ \A n \in Connections : task[n].at \in {"idle", "ended"}

\* A session whose link has gone gives the adapter back, however it ended: the
\* lock is never kept from the consoles that come after it.
AdapterIsFreed ==
    (lock # None /\ ~ \E n \in Connections : task[lock].pair.control = n /\ link[n] # "down")
        ~> lock = None
=============================================================================
