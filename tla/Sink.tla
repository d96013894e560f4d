-------------------------------- MODULE Sink --------------------------------
(***************************************************************************)
(* The last step of the latency path: L2CAPSink of server/bt/hid.py and    *)
(* the DelayLine of server/bt/sink.py that it holds reports in while sync  *)
(* latency is on.  One adapter, three threads:                             *)
(*   Dp   the datapath: offers inputs, sets the delay or switches it off    *)
(*   Wr   the writer: releases held reports, flushes, keeps alive          *)
(*   Ctl  the HID server's thread: one session after another, and the      *)
(*        replies of the profile to the console's subcommands              *)
(*                                                                         *)
(* Steps under _io_lock are atomic; what a thread reads before it takes    *)
(* the lock is a step of its own, and task[t] holds it.  Delay lines are   *)
(* objects: the threads keep the one they read although the sink may have  *)
(* another by then, so each line made gets a number.                       *)
(*                                                                         *)
(* Reports are numbered in the order of their offers.  via is the line a   *)
(* report was put into, 0 if it went straight to the link.                 *)
(***************************************************************************)
EXTENDS Naturals, Sequences, FiniteSets, FiniteSetsExt

CONSTANTS Dp, Wr, Ctl,  \* the threads
          Nothing,      \* no report
          Delays,       \* the delays sync latency may ask for
          Depth,        \* entries a delay line's ring holds
          Ops,          \* what may happen in this instance
          MaxOffers, MaxLines, MaxSessions, MaxTime  \* bounds

ASSUME SinkAssumption ==
    /\ Dp # Wr /\ Dp # Ctl /\ Wr # Ctl
    /\ Delays \subseteq Nat \ {0} /\ Delays # {} /\ IsFiniteSet(Delays)
    /\ Depth \in Nat \ {0, 1}
    /\ Ops \subseteq {"delay", "off", "reply"}
    /\ {MaxOffers, MaxLines, MaxSessions, MaxTime} \subseteq Nat

VARIABLES link,      \* number of the session whose interrupt socket is open, or 0
          serving,   \* number of the session Ctl serves, or 0
          made,      \* sessions so far
          line,      \* the sink's delay line, or 0 when sync latency is off
          lines,     \* lines made so far
          delay,     \* delay[l], held[l]: the delay and the entries of line l
          held,
          tx,        \* the report in _tx, or Nothing while _tx_len = 0
          dirty,     \* _dirty
          now,       \* the clock
          shown,     \* the report the console has
          task,      \* what each thread is doing
          offered,   \* history: reports accepted so far
          newest,    \* history: the last player state accepted in this session
          given      \* history: number of the last player state shown in it

lineVars == <<line, lines, delay>>
vars == <<link, serving, made, lineVars, held, tx, dirty, now, shown, task,
          offered, newest, given>>

Threads == {Dp, Wr, Ctl}
Lines == 1 .. MaxLines

Rest == [at |-> "idle", line |-> 0, kind |-> "none", keep |-> FALSE, session |-> 0]

Init ==
    /\ link = 0 /\ serving = 0 /\ made = 0
    /\ line = 0 /\ lines = 0 /\ delay = [l \in Lines |-> 0] /\ held = [l \in Lines |-> <<>>]
    /\ tx = Nothing /\ dirty = FALSE /\ now = 0 /\ shown = Nothing
    /\ task = [t \in Threads |-> Rest]
    /\ offered = 0 /\ newest = Nothing /\ given = 0

Become(t, s) == task' = [task EXCEPT ![t] = s]
Resume(t, at) == task' = [task EXCEPT ![t].at = at]
Is(t, at) == task[t].at = at

-----------------------------------------------------------------------------
(* One write to the interrupt socket.  "sent" reaches the console, "lost"  *)
(* is flushed by the controller after the write succeeded, "coalesced" is  *)
(* EAGAIN, "failed" any other error, "dead" a socket whose peer is gone.   *)

Outcomes == {"sent", "lost", "coalesced", "failed", "dead"}

\* _transmit_locked writes r, which is _tx; isDirty is _dirty before the write.
Transmit(r, isDirty, out) ==
    /\ tx' = r
    /\ dirty' = (isDirty /\ out \notin {"sent", "lost"})
    /\ shown' = IF out = "sent" THEN r ELSE shown
    /\ given' = IF out = "sent" /\ r.kind # "reply" THEN r.n ELSE given

\* A dead link is torn down outside the lock, in a step of its own.
AfterWrite(t, out) ==
    Become(t, IF out = "dead" THEN [Rest EXCEPT !.at = "detach", !.session = link]
              ELSE Rest)

\* DelayLine.offer: a full ring loses its oldest entry.
Appended(s, r) == Append(IF Len(s) = Depth THEN Tail(s) ELSE s, r)

\* Mutant: whatever is held is due.
DueAtOnce(l) == Len(held[l])

\* DelayLine.take_due_into: how many entries are due on line l.
Due(l) == Cardinality({i \in DOMAIN held[l] : held[l][i].at + delay[l] <= now})

\* DelayLine.clear on the sink's current line, if it has one.
Cleared == [l \in Lines |-> IF l = line THEN <<>> ELSE held[l]]

-----------------------------------------------------------------------------
(* send_input_report, on Dp for a state of the player, on Ctl for a reply. *)

\* The bound on time leaves room for every held report to fall due.
RoomFor(time) == time + Max(Delays) <= MaxTime

\* _offer reads self._line.
OfferRead(t, kind) ==
    /\ offered < MaxOffers /\ RoomFor(now)
    /\ Become(t, [Rest EXCEPT !.at = "offer", !.line = line, !.kind = kind])
    /\ UNCHANGED <<link, serving, made, lineVars, held, tx, dirty, now, shown,
                   offered, newest, given>>

\* A packet of the player, on an adapter that is live.
Input == task[Dp] = Rest /\ link # 0 /\ OfferRead(Dp, "input")

\* The profile answers a subcommand (_handle_control_message).
Reply == "reply" \in Ops /\ task[Ctl] = Rest /\ serving # 0 /\ OfferRead(Ctl, "reply")

NewReport(t) == [n |-> offered + 1, kind |-> task[t].kind, at |-> now,
                 via |-> task[t].line, session |-> link]

Accept(r) ==
    /\ offered' = r.n
    /\ newest' = IF r.kind = "reply" THEN newest ELSE r

\* No link: the report is refused.
OfferRefused(t) ==
    /\ Is(t, "offer") /\ link = 0
    /\ Become(t, Rest)
    /\ UNCHANGED <<link, serving, made, lineVars, held, tx, dirty, now, shown,
                   offered, newest, given>>

\* With a delay line the report is held; the writer will transmit it.
OfferHeld(t) ==
    LET l == task[t].line
    IN  /\ Is(t, "offer") /\ link # 0 /\ l # 0
        /\ held' = [held EXCEPT ![l] = Appended(@, NewReport(t))]
        /\ Accept(NewReport(t))
        /\ Become(t, Rest)
        /\ UNCHANGED <<link, serving, made, lineVars, tx, dirty, now, shown, given>>

\* Without one it goes into _tx and is written at once.
OfferWritten(t, out) ==
    /\ Is(t, "offer") /\ link # 0 /\ task[t].line = 0
    /\ Accept(NewReport(t))
    /\ Transmit(NewReport(t), TRUE, out)
    /\ AfterWrite(t, out)
    /\ UNCHANGED <<link, serving, made, lineVars, held, now>>

-----------------------------------------------------------------------------
(* Sync latency: set_sync_delay_ns, on Dp.                                 *)

\* Mutant: a changed delay starts with an empty ring.
SetDelayDiscarding(d) ==
    /\ "delay" \in Ops /\ task[Dp] = Rest
    /\ IF line = 0
       THEN /\ lines < MaxLines
            /\ lines' = lines + 1 /\ line' = lines' /\ delay' = [delay EXCEPT ![lines'] = d]
       ELSE /\ delay' = [delay EXCEPT ![line] = d]
            /\ UNCHANGED <<line, lines>>
    /\ held' = Cleared
    /\ UNCHANGED <<link, serving, made, tx, dirty, now, shown, task,
                   offered, newest, given>>

SetDelay(d) ==
    /\ "delay" \in Ops /\ task[Dp] = Rest
    /\ IF line = 0
       THEN /\ lines < MaxLines
            /\ lines' = lines + 1 /\ line' = lines' /\ delay' = [delay EXCEPT ![lines'] = d]
       ELSE /\ delay' = [delay EXCEPT ![line] = d]
            /\ UNCHANGED <<line, lines>>
    /\ UNCHANGED <<link, serving, made, held, tx, dirty, now, shown, task,
                   offered, newest, given>>

\* The line is taken from the sink first; its newest report goes out later.
SetOff ==
    /\ "off" \in Ops /\ task[Dp] = Rest
    /\ line # 0 /\ line' = 0
    /\ Become(Dp, [Rest EXCEPT !.at = "drain", !.line = line])
    /\ UNCHANGED <<link, serving, made, lines, delay, held, tx, dirty, now, shown,
                   offered, newest, given>>

\* Mutant: what has been taken stays in the line.
DrainKeeping(out) ==
    LET l == task[Dp].line
    IN  /\ Is(Dp, "drain")
        /\ IF link # 0 /\ held[l] # <<>>
           THEN Transmit(held[l][Len(held[l])], TRUE, out)
           ELSE out = "sent" /\ UNCHANGED <<tx, dirty, shown, given>>
        /\ Become(Dp, Rest)
        /\ UNCHANGED <<link, serving, made, lineVars, held, now, offered, newest>>

\* take_newest_into, and the write whose outcome nobody looks at.
Drain(out) ==
    LET l == task[Dp].line
    IN  /\ Is(Dp, "drain")
        /\ held' = [held EXCEPT ![l] = <<>>]
        /\ IF link # 0 /\ held[l] # <<>>
           THEN Transmit(held[l][Len(held[l])], TRUE, out)
           ELSE out = "sent" /\ UNCHANGED <<tx, dirty, shown, given>>
        /\ Become(Dp, Rest)
        /\ UNCHANGED <<link, serving, made, lineVars, now, offered, newest>>

-----------------------------------------------------------------------------
(* The writer thread: one turn of _writer_loop.  Its waits are bounded by  *)
(* the keepalive's interval, so that it may take its next turn at any time *)
(* and no wake can be missed for good.                                     *)

\* Mutant: no keepalive.
PumpWhenDirty ==
    /\ task[Wr] = Rest /\ link # 0 /\ dirty
    /\ Become(Wr, [Rest EXCEPT !.at = IF line = 0 THEN "resend" ELSE "due", !.line = line])
    /\ UNCHANGED <<link, serving, made, lineVars, held, tx, dirty, now, shown,
                   offered, newest, given>>

\* The keepalive is always on: the policy every server is started with, LinkPolicy's
\* default, repeats at 50 Hz.
PumpRead ==
    /\ task[Wr] = Rest /\ link # 0
    /\ Become(Wr, [Rest EXCEPT !.at = IF line = 0 THEN "resend" ELSE "due",
                               !.line = line, !.keep = ~ dirty])
    /\ UNCHANGED <<link, serving, made, lineVars, held, tx, dirty, now, shown,
                   offered, newest, given>>

\* _release_due: the newest report that is due, and the older ones with it.
ReleaseDue(out) ==
    LET l == task[Wr].line
        n == Due(l)
    IN  /\ Is(Wr, "due") /\ link # 0 /\ n > 0
        /\ held' = [held EXCEPT ![l] = SubSeq(@, n + 1, Len(@))]
        /\ Transmit(held[l][n], TRUE, out)
        /\ AfterWrite(Wr, out)
        /\ UNCHANGED <<link, serving, made, lineVars, now, offered, newest>>

NothingDue ==
    /\ Is(Wr, "due") /\ (link = 0 \/ Due(task[Wr].line) = 0)
    /\ Resume(Wr, "resend")
    /\ UNCHANGED <<link, serving, made, lineVars, held, tx, dirty, now, shown,
                   offered, newest, given>>

\* The rest of _pump: flush, or keep alive.
Resend(out) ==
    /\ Is(Wr, "resend") /\ link # 0 /\ tx # Nothing
    /\ Transmit(tx, dirty, out)
    /\ AfterWrite(Wr, out)
    /\ UNCHANGED <<link, serving, made, lineVars, held, now, offered, newest>>

\* Nothing to send, or a keepalive whose interval has not elapsed.
ResendSkipped ==
    /\ Is(Wr, "resend") /\ (link = 0 \/ tx = Nothing \/ task[Wr].keep)
    /\ Become(Wr, Rest)
    /\ UNCHANGED <<link, serving, made, lineVars, held, tx, dirty, now, shown,
                   offered, newest, given>>

-----------------------------------------------------------------------------
(* Sessions: HIDServer._serve_session on Ctl, and detach on any thread.    *)

\* Mutant: _tx_len is not reset.
AttachKeeping ==
    /\ task[Ctl] = Rest /\ serving = 0 /\ made < MaxSessions
    /\ made' = made + 1 /\ serving' = made' /\ link' = made'
    /\ dirty' = FALSE /\ held' = Cleared
    /\ UNCHANGED <<lineVars, tx, now, shown, task, offered, newest, given>>

\* attach: nothing of the last session is left.
Attach ==
    /\ task[Ctl] = Rest /\ serving = 0 /\ made < MaxSessions
    /\ made' = made + 1 /\ serving' = made' /\ link' = made'
    /\ tx' = Nothing /\ dirty' = FALSE /\ held' = Cleared
    /\ UNCHANGED <<lineVars, now, shown, task, offered, newest, given>>

\* The console closed the link, or unplugged the virtual cable.
SessionEnds ==
    /\ serving # 0 /\ task[Ctl] = Rest
    /\ Become(Ctl, [Rest EXCEPT !.at = "detach", !.session = serving])
    /\ UNCHANGED <<link, serving, made, lineVars, held, tx, dirty, now, shown,
                   offered, newest, given>>

\* detach closes whatever session is open by now.  It waits for the writer to
\* end its turn first, unless the writer is itself on its way out.
Detach(t) ==
    /\ Is(t, "detach")
    /\ t = Wr \/ task[Wr].at \in {"idle", "detach"}
    /\ link' = 0 /\ dirty' = FALSE /\ held' = Cleared
    /\ serving' = IF t = Ctl THEN 0 ELSE serving
    /\ Become(t, Rest)
    /\ shown' = Nothing /\ newest' = Nothing /\ given' = 0
    /\ UNCHANGED <<made, lineVars, tx, now, offered>>

Tick ==
    /\ now < MaxTime
    /\ \A t \in Threads : Is(t, "offer") => RoomFor(now + 1)
    /\ now' = now + 1
    /\ UNCHANGED <<link, serving, made, lineVars, held, tx, dirty, shown, task,
                   offered, newest, given>>

-----------------------------------------------------------------------------
OfferLocked(t) == OfferRefused(t) \/ OfferHeld(t) \/ \E out \in Outcomes : OfferWritten(t, out)

DatapathGoesOn == OfferLocked(Dp) \/ Detach(Dp) \/ \E out \in Outcomes : Drain(out)

WriterStep == \/ PumpRead \/ NothingDue \/ ResendSkipped \/ Detach(Wr)
              \/ \E out \in Outcomes : ReleaseDue(out) \/ Resend(out)

ControlGoesOn == OfferLocked(Ctl) \/ Detach(Ctl)

Next == \/ Input \/ SetOff \/ \E d \in Delays : SetDelay(d)
        \/ DatapathGoesOn
        \/ WriterStep
        \/ Reply \/ Attach \/ SessionEnds
        \/ ControlGoesOn
        \/ Tick

Spec == Init /\ [][Next]_vars

(* Every thread goes on with what it has begun, and time passes.  A link   *)
(* that stays up carries a report now and then: what the writer repeats is *)
(* not lost, refused or put off for ever.                                  *)
Fairness == /\ WF_vars(DatapathGoesOn) /\ WF_vars(WriterStep) /\ WF_vars(ControlGoesOn)
            /\ WF_vars(Tick)
            /\ SF_vars(Resend("sent"))

FairSpec == Spec /\ Fairness

-----------------------------------------------------------------------------
Reports == [n : Nat, kind : {"input", "reply"}, at : Nat, via : Nat, session : Nat]

Tasks == [at : {"idle", "offer", "detach", "drain", "due", "resend"},
          line : Nat, kind : {"none", "input", "reply"},
          keep : BOOLEAN, session : Nat]

TypeOK ==
    /\ link \in Nat /\ serving \in Nat /\ made \in Nat
    /\ line \in 0 .. lines /\ lines \in 0 .. MaxLines
    /\ delay \in [Lines -> Nat]
    /\ held \in [Lines -> Seq(Reports)] /\ \A l \in Lines : Len(held[l]) <= Depth
    /\ tx \in Reports \cup {Nothing} /\ shown \in Reports \cup {Nothing}
    /\ newest \in Reports \cup {Nothing}
    /\ dirty \in BOOLEAN /\ now \in Nat
    /\ task \in [Threads -> Tasks]
    /\ offered \in Nat /\ given \in Nat

IsLast(l, r) == l # 0 /\ held[l] # <<>> /\ held[l][Len(held[l])] = r

\* send_input_report's promise: the newest state accepted is on its way, in _tx
\* or last in the delay line, whatever the threads do to either meanwhile.
NewestIsKept ==
    newest # Nothing => \/ tx = newest
                        \/ IsLast(line, newest)
                        \/ Is(Dp, "drain") /\ IsLast(task[Dp].line, newest)

\* attach: a console never gets a report that was accepted for an earlier one.
NothingInherited ==
    /\ shown # Nothing => shown.session = link
    /\ link # 0 /\ tx # Nothing => tx.session = link

\* While sync latency stays on, no held state reaches the console early: not by
\* a keepalive, not by a change of the delay, not by a second thread.
HeldForDelay ==
    [][shown' # shown /\ shown' # Nothing /\ line # 0 /\ line' = line /\ shown'.via = line
         => shown'.at + Min(Delays) <= now]_vars

\* The console only goes forward.
Register == INSTANCE LatestRegister WITH newest <- offered, seen <- given
ImplementsRegister == Register!Spec

\* send_input_report's promise to its end: the newest state reaches the console, whatever
\* was put off, lost, refused, held or drained on the way, unless a newer state of the
\* player is accepted or the link goes.  A subcommand's reply is no newer state.
NewestArrives ==
    \A n \in 1 .. MaxOffers :
        (newest # Nothing /\ newest.n = n) ~> (given = n \/ newest = Nothing \/ newest.n # n)
=============================================================================
