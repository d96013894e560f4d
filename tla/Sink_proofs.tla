---------------------------- MODULE Sink_proofs ----------------------------
(***************************************************************************)
(* For any number of reports, lines, sessions and delays, and a ring of    *)
(* any depth: the sink's state keeps its type and no held report comes     *)
(* early.  As long as the profile answers no subcommands, the newest state *)
(* accepted is never lost and the console never goes back to an older one; *)
(* as long as no line is taken from the sink, a new console gets nothing   *)
(* of the last one's.                                                      *)
(***************************************************************************)
EXTENDS Sink, FiniteSetTheorems, SequenceTheorems, WellFoundedInduction, TLAPS

\* What a thread in the middle of something holds.
TaskArgs ==
    /\ \A t \in Threads : Is(t, "offer") => /\ t # Wr /\ task[t].kind # "none"
                                            /\ task[t].line \in 0 .. MaxLines
    /\ Is(Wr, "due") => task[Wr].line \in Lines
    /\ Is(Dp, "drain") => task[Dp].line \in Lines

TypeInv == TypeOK /\ TaskArgs

-----------------------------------------------------------------------------
LEMMA ThreadsDistinct == Dp \in Threads /\ Wr \in Threads /\ Ctl \in Threads
                         /\ Dp # Wr /\ Dp # Ctl /\ Wr # Ctl
  BY SinkAssumption DEF Threads

LEMMA Bounds == /\ MaxOffers \in Nat /\ MaxLines \in Nat /\ MaxSessions \in Nat /\ MaxTime \in Nat
                /\ Depth \in Nat \ {0, 1} /\ Delays \subseteq Nat \ {0}
  BY SinkAssumption

\* The tasks the steps hand out.
LEMMA TaskShapes ==
    /\ Rest \in Tasks
    /\ \A l \in Nat, k \in {"input", "reply"} :
         [Rest EXCEPT !.at = "offer", !.line = l, !.kind = k] \in Tasks
    /\ \A s \in Nat : [Rest EXCEPT !.at = "detach", !.session = s] \in Tasks
    /\ \A l \in Nat : [Rest EXCEPT !.at = "drain", !.line = l] \in Tasks
    /\ \A l \in Nat, b \in BOOLEAN, a \in {"resend", "due"} :
         [Rest EXCEPT !.at = a, !.line = l, !.keep = b] \in Tasks
<1> USE DEF Rest, Tasks
<1>1. Rest \in Tasks
  OBVIOUS
<1>2. \A l \in Nat, k \in {"input", "reply"} :
        [Rest EXCEPT !.at = "offer", !.line = l, !.kind = k] \in Tasks
  OBVIOUS
<1>3. \A s \in Nat : [Rest EXCEPT !.at = "detach", !.session = s] \in Tasks
  OBVIOUS
<1>4. \A l \in Nat : [Rest EXCEPT !.at = "drain", !.line = l] \in Tasks
  OBVIOUS
<1>5. \A l \in Nat, b \in BOOLEAN, a \in {"resend", "due"} :
        [Rest EXCEPT !.at = a, !.line = l, !.keep = b] \in Tasks
  OBVIOUS
<1> QED
  BY <1>1, <1>2, <1>3, <1>4, <1>5

\* No more entries are due than there are.
LEMMA DueBound ==
    ASSUME TypeOK, NEW l \in Lines
    PROVE  Due(l) \in 0 .. Len(held[l])
<1> DEFINE D == {i \in DOMAIN held[l] : held[l][i].at + delay[l] <= now}
<1>1. held[l] \in Seq(Reports) /\ DOMAIN held[l] = 1 .. Len(held[l]) /\ Len(held[l]) \in Nat
  BY DEF TypeOK
<1>2. IsFiniteSet(1 .. Len(held[l])) /\ Cardinality(1 .. Len(held[l])) = Len(held[l])
  <2>1. PICK n \in Nat : n = Len(held[l])
    BY <1>1
  <2>2. /\ IsFiniteSet(1 .. n)
        /\ Cardinality(1 .. n) = IF 1 > n THEN 0 ELSE n - 1 + 1
    BY FS_Interval
  <2> QED
    BY <2>1, <2>2
<1>3. D \subseteq 1 .. Len(held[l])
  BY <1>1
<1>4. IsFiniteSet(D) /\ Cardinality(D) <= Cardinality(1 .. Len(held[l]))
  BY <1>2, <1>3, FS_Subset
<1>5. Cardinality(D) \in Nat
  BY <1>4, FS_CardinalityType
<1> QED
  BY <1>1, <1>2, <1>4, <1>5 DEF Due

\* One thread takes another task, the others keep theirs.
LEMMA Becomes ==
    ASSUME TypeOK, NEW t \in Threads, NEW s \in Tasks, Become(t, s)
    PROVE  /\ task' \in [Threads -> Tasks]
           /\ task'[t] = s
           /\ \A u \in Threads \ {t} : task'[u] = task[u]
  BY DEF TypeOK, Become

LEMMA Initial == Init => TypeInv
<1> SUFFICES ASSUME Init PROVE TypeInv
  OBVIOUS
<1>1. held \in [Lines -> Seq(Reports)] /\ \A l \in Lines : held[l] = <<>> /\ Len(held[l]) <= Depth
  BY Bounds DEF Init
<1>2. task \in [Threads -> Tasks] /\ \A t \in Threads : task[t].at = "idle"
  <2>1. task \in [Threads -> Tasks] /\ \A t \in Threads : task[t] = Rest
    BY TaskShapes DEF Init
  <2> QED
    BY <2>1 DEF Rest
<1>3. /\ link = 0 /\ serving = 0 /\ made = 0 /\ line = 0 /\ lines = 0 /\ now = 0
      /\ delay \in [Lines -> Nat] /\ offered = 0 /\ given = 0
      /\ tx = Nothing /\ shown = Nothing /\ newest = Nothing /\ dirty = FALSE
  BY DEF Init
<1>4. line \in 0 .. lines /\ lines \in 0 .. MaxLines /\ dirty \in BOOLEAN
  <2>1. line \in 0 .. lines /\ lines \in 0 .. MaxLines
    BY <1>3, Bounds
  <2>2. dirty \in BOOLEAN
    BY <1>3
  <2> QED
    BY <2>1, <2>2
<1>5. TypeOK
  BY <1>1, <1>2, <1>3, <1>4 DEF TypeOK
<1> QED
  BY <1>2, <1>5, ThreadsDistinct DEF TypeInv, TaskArgs, Is

\* A ring takes one more report.
LEMMA Appends ==
    ASSUME NEW s \in Seq(Reports), Len(s) <= Depth, NEW r \in Reports
    PROVE  /\ Appended(s, r) \in Seq(Reports)
           /\ Len(Appended(s, r)) \in 1 .. Depth
           /\ Appended(s, r)[Len(Appended(s, r))] = r
  BY Bounds DEF Appended

LEMMA Clears ==
    ASSUME TypeOK
    PROVE  /\ Cleared \in [Lines -> Seq(Reports)]
           /\ \A l \in Lines : Cleared[l] = IF l = line THEN <<>> ELSE held[l]
           /\ \A l \in Lines : Len(Cleared[l]) <= Depth
  BY Bounds DEF TypeOK, Cleared

LEMMA Reported ==
    ASSUME TypeInv, NEW t \in Threads, Is(t, "offer")
    PROVE  NewReport(t) \in Reports
<1>1. /\ task[t] \in Tasks /\ task[t].kind # "none" /\ task[t].line \in 0 .. MaxLines
      /\ offered \in Nat /\ now \in Nat /\ link \in Nat
  BY DEF TypeInv, TypeOK, TaskArgs
<1>2. task[t].kind \in {"input", "reply"} /\ task[t].line \in Nat
  BY <1>1, Bounds DEF Tasks
<1> QED
  BY <1>1, <1>2 DEF NewReport, Reports

LEMMA Transmits ==
    ASSUME TypeOK, NEW r \in Reports, NEW d \in BOOLEAN, NEW out, Transmit(r, d, out)
    PROVE  /\ tx' = r /\ dirty' \in BOOLEAN
           /\ shown' \in Reports \cup {Nothing} /\ given' \in Nat
  BY DEF TypeOK, Transmit, Reports

LEMMA Written ==
    ASSUME TypeOK, NEW t \in Threads, NEW out, AfterWrite(t, out)
    PROVE  /\ task' \in [Threads -> Tasks]
           /\ task'[t].at \in {"idle", "detach"}
           /\ \A u \in Threads \ {t} : task'[u] = task[u]
<1> DEFINE s == IF out = "dead" THEN [Rest EXCEPT !.at = "detach", !.session = link] ELSE Rest
<1>1. s \in Tasks /\ s.at \in {"idle", "detach"}
  BY TaskShapes DEF TypeOK, Rest
<1>2. Become(t, s)
  BY DEF AfterWrite
<1> HIDE DEF s
<1> QED
  BY <1>1, <1>2, Becomes

\* A thread that begins or ends something not listed in TaskArgs.
LEMMA ArgsKept ==
    ASSUME TaskArgs, NEW t \in Threads,
           \A u \in Threads \ {t} : task'[u] = task[u],
           task'[t].at \notin {"offer", "due", "drain"}
    PROVE  TaskArgs'
  BY ThreadsDistinct DEF TaskArgs, Is

-----------------------------------------------------------------------------
LEMMA OfferReadTyped ==
    ASSUME TypeInv, NEW t \in {Dp, Ctl}, NEW k \in {"input", "reply"}, OfferRead(t, k)
    PROVE  TypeInv'
<1> DEFINE s == [Rest EXCEPT !.at = "offer", !.line = line, !.kind = k]
<1>1. line \in 0 .. MaxLines /\ line \in Nat
  BY Bounds DEF TypeInv, TypeOK
<1>2. s \in Tasks /\ s.at = "offer" /\ s.kind = k /\ s.line = line
  BY <1>1, TaskShapes DEF Rest
<1>3. Become(t, s) /\ TypeOK /\ t \in Threads
  BY ThreadsDistinct DEF OfferRead, TypeInv
<1> HIDE DEF s
<1>4. /\ task' \in [Threads -> Tasks] /\ task'[t] = s
      /\ \A u \in Threads \ {t} : task'[u] = task[u]
  BY <1>2, <1>3, Becomes
<1>5. TypeOK'
  BY <1>3, <1>4 DEF OfferRead, TypeOK, lineVars
<1>6. TaskArgs'
  BY <1>1, <1>2, <1>4, ThreadsDistinct DEF TaskArgs, Is, TypeInv
<1> QED
  BY <1>5, <1>6 DEF TypeInv

LEMMA OfferTyped ==
    ASSUME TypeInv, NEW t \in Threads, OfferLocked(t)
    PROVE  TypeInv'
<1> USE DEF TypeInv
<1>1. CASE OfferRefused(t)
  <2>1. /\ task' \in [Threads -> Tasks] /\ task'[t] = Rest
        /\ \A u \in Threads \ {t} : task'[u] = task[u]
    BY <1>1, Becomes, TaskShapes DEF OfferRefused
  <2>2. TypeOK'
    BY <1>1, <2>1 DEF OfferRefused, TypeOK, lineVars
  <2> QED
    BY <2>1, <2>2, ArgsKept DEF Rest
<1>2. CASE OfferHeld(t)
  <2> DEFINE l == task[t].line
             r == NewReport(t)
  <2>1. r \in Reports /\ l \in Lines
    BY <1>2, Reported, Bounds DEF OfferHeld, TaskArgs, Lines
  <2>2. /\ task' \in [Threads -> Tasks] /\ task'[t] = Rest
        /\ \A u \in Threads \ {t} : task'[u] = task[u]
    BY <1>2, Becomes, TaskShapes DEF OfferHeld
  <2>3. /\ held' = [held EXCEPT ![l] = Appended(held[l], r)]
        /\ offered' = r.n /\ newest' \in {newest, r}
    BY <1>2 DEF OfferHeld, Accept
  <2> HIDE DEF l, r
  <2>4. Appended(held[l], r) \in Seq(Reports) /\ Len(Appended(held[l], r)) <= Depth
    BY <2>1, Appends, Bounds DEF TypeOK
  <2>5. held' \in [Lines -> Seq(Reports)] /\ \A m \in Lines : Len(held'[m]) <= Depth
    BY <2>1, <2>3, <2>4 DEF TypeOK
  <2>6. offered' \in Nat /\ newest' \in Reports \cup {Nothing}
    BY <2>1, <2>3 DEF Reports, TypeOK
  <2>7. TypeOK'
    BY <1>2, <2>2, <2>5, <2>6 DEF OfferHeld, TypeOK, lineVars
  <2> QED
    BY <2>2, <2>7, ArgsKept DEF Rest
<1>3. CASE \E out \in Outcomes : OfferWritten(t, out)
  <2>1. PICK out \in Outcomes : OfferWritten(t, out)
    BY <1>3
  <2> DEFINE r == NewReport(t)
  <2>2. r \in Reports
    BY <2>1, Reported DEF OfferWritten
  <2>3. Transmit(r, TRUE, out) /\ AfterWrite(t, out) /\ offered' = r.n /\ newest' \in {newest, r}
    BY <2>1 DEF OfferWritten, Accept
  <2> HIDE DEF r
  <2>4. /\ tx' = r /\ dirty' \in BOOLEAN
        /\ shown' \in Reports \cup {Nothing} /\ given' \in Nat
    BY <2>2, <2>3, Transmits
  <2>5. /\ task' \in [Threads -> Tasks] /\ task'[t].at \in {"idle", "detach"}
        /\ \A u \in Threads \ {t} : task'[u] = task[u]
    BY <2>3, Written
  <2>6. offered' \in Nat /\ newest' \in Reports \cup {Nothing}
    BY <2>2, <2>3 DEF Reports, TypeOK
  <2>7. TypeOK'
    BY <2>1, <2>2, <2>4, <2>5, <2>6 DEF OfferWritten, TypeOK, lineVars
  <2> QED
    BY <2>5, <2>7, ArgsKept
<1> QED
  BY <1>1, <1>2, <1>3 DEF OfferLocked

\* A thread that goes on to something that holds nothing.
LEMMA Moves ==
    ASSUME TypeInv, NEW t \in Threads, NEW s \in Tasks, Become(t, s),
           s.at \notin {"offer", "due", "drain"}
    PROVE  /\ task' \in [Threads -> Tasks] /\ task'[t] = s
           /\ \A u \in Threads \ {t} : task'[u] = task[u]
           /\ TaskArgs'
<1>1. /\ task' \in [Threads -> Tasks] /\ task'[t] = s
      /\ \A u \in Threads \ {t} : task'[u] = task[u]
  BY Becomes DEF TypeInv
<1> QED
  BY <1>1, ArgsKept DEF TypeInv

LEMMA Resumes ==
    ASSUME TypeInv, NEW t \in Threads,
           NEW a \in {"idle", "resend"}, Resume(t, a)
    PROVE  /\ task' \in [Threads -> Tasks] /\ task'[t] = [task[t] EXCEPT !.at = a]
           /\ \A u \in Threads \ {t} : task'[u] = task[u]
           /\ TaskArgs'
<1> DEFINE s == [task[t] EXCEPT !.at = a]
<1>1. s \in Tasks /\ s.at = a
  BY DEF Tasks, TypeInv, TypeOK
<1>2. Become(t, s)
  BY DEF Resume, Become, TypeInv, TypeOK
<1> HIDE DEF s
<1>3. /\ task' \in [Threads -> Tasks] /\ task'[t] = s
      /\ \A u \in Threads \ {t} : task'[u] = task[u]
      /\ TaskArgs'
  BY <1>1, <1>2, Moves
<1> QED
  BY <1>3 DEF s

LEMMA DetachTyped ==
    ASSUME TypeInv, NEW t \in Threads, Detach(t)
    PROVE  TypeInv'
<1>1. task' \in [Threads -> Tasks] /\ TaskArgs'
  BY Moves, TaskShapes DEF Detach, Rest
<1>2. /\ held' \in [Lines -> Seq(Reports)]
      /\ \A l \in Lines : Len(held'[l]) <= Depth
  BY Clears DEF Detach, TypeInv
<1>3. TypeOK'
  BY <1>1, <1>2 DEF Detach, TypeOK, TypeInv, lineVars
<1> QED
  BY <1>1, <1>3 DEF TypeInv

LEMMA SetOffTyped ==
    ASSUME TypeInv, SetOff
    PROVE  TypeInv'
<1> DEFINE s == [Rest EXCEPT !.at = "drain", !.line = line]
<1>1. line \in Lines /\ line \in Nat
  BY Bounds DEF SetOff, TypeInv, TypeOK, Lines
<1>2. s \in Tasks /\ s.at = "drain" /\ s.line = line
  BY <1>1, TaskShapes DEF Rest
<1>3. Become(Dp, s)
  BY DEF SetOff
<1> HIDE DEF s
<1>4. /\ task' \in [Threads -> Tasks] /\ task'[Dp] = s
      /\ \A u \in Threads \ {Dp} : task'[u] = task[u]
  BY <1>2, <1>3, Becomes, ThreadsDistinct DEF TypeInv
<1>5. TypeOK'
  BY <1>4, Bounds DEF SetOff, TypeOK, TypeInv
<1>6. TaskArgs'
  BY <1>1, <1>2, <1>4, ThreadsDistinct DEF TaskArgs, Is, TypeInv
<1> QED
  BY <1>5, <1>6 DEF TypeInv

LEMMA DrainTyped ==
    ASSUME TypeInv, NEW out \in Outcomes, Drain(out)
    PROVE  TypeInv'
<1> USE DEF TypeInv
<1> DEFINE l == task[Dp].line
<1>1. l \in Lines /\ held[l] \in Seq(Reports)
  BY ThreadsDistinct DEF Drain, TaskArgs, TypeOK
<1>2. Rest \in Tasks /\ Rest.at = "idle"
  BY TaskShapes DEF Rest
<1>3. Become(Dp, Rest) /\ held' = [held EXCEPT ![l] = <<>>]
  BY DEF Drain
<1>4. /\ tx' \in Reports \cup {Nothing} /\ dirty' \in BOOLEAN
      /\ shown' \in Reports \cup {Nothing} /\ given' \in Nat
  <2>1. CASE link # 0 /\ held[l] # <<>>
    <3>1. held[l][Len(held[l])] \in Reports
      BY <1>1, <2>1
    <3>2. Transmit(held[l][Len(held[l])], TRUE, out)
      BY <2>1 DEF Drain
    <3> QED
      BY <3>1, <3>2, Transmits
  <2>2. CASE ~ (link # 0 /\ held[l] # <<>>)
    BY <2>2 DEF Drain, TypeOK
  <2> QED
    BY <2>1, <2>2
<1> HIDE DEF l
<1>5. task' \in [Threads -> Tasks] /\ TaskArgs'
  BY <1>2, <1>3, Moves, ThreadsDistinct
<1>6. /\ held' \in [Lines -> Seq(Reports)]
      /\ \A m \in Lines : Len(held'[m]) <= Depth
  BY <1>1, <1>3, Bounds DEF TypeOK
<1>7. TypeOK'
  BY <1>4, <1>5, <1>6 DEF Drain, TypeOK, lineVars
<1> QED
  BY <1>5, <1>7

LEMMA ReleaseDueTyped ==
    ASSUME TypeInv, NEW out \in Outcomes, ReleaseDue(out)
    PROVE  TypeInv'
<1> USE DEF TypeInv
<1> DEFINE l == task[Wr].line
           n == Due(l)
           r == held[l][n]
           rest == SubSeq(held[l], n + 1, Len(held[l]))
<1>1. l \in Lines /\ held[l] \in Seq(Reports) /\ Len(held[l]) <= Depth
  BY DEF ReleaseDue, TaskArgs, TypeOK
<1>2. n \in 1 .. Len(held[l])
  BY <1>1, DueBound DEF ReleaseDue
<1>3. /\ Transmit(r, TRUE, out) /\ AfterWrite(Wr, out)
      /\ held' = [held EXCEPT ![l] = rest]
  BY DEF ReleaseDue
<1> HIDE DEF n
<1>4. r \in Reports /\ rest \in Seq(Reports) /\ Len(rest) <= Depth
  BY <1>1, <1>2, Bounds
<1> HIDE DEF l, r, rest
<1>5. /\ tx' \in Reports \cup {Nothing} /\ dirty' \in BOOLEAN
      /\ shown' \in Reports \cup {Nothing} /\ given' \in Nat
  BY <1>3, <1>4, Transmits
<1>6. /\ task' \in [Threads -> Tasks] /\ task'[Wr].at \in {"idle", "detach"}
      /\ \A u \in Threads \ {Wr} : task'[u] = task[u]
  BY <1>3, Written, ThreadsDistinct
<1>7. /\ held' \in [Lines -> Seq(Reports)]
      /\ \A m \in Lines : Len(held'[m]) <= Depth
  BY <1>1, <1>3, <1>4 DEF TypeOK
<1>8. TypeOK'
  BY <1>5, <1>6, <1>7 DEF ReleaseDue, TypeOK, lineVars
<1> QED
  BY <1>6, <1>8, ArgsKept, ThreadsDistinct

LEMMA ResendTyped ==
    ASSUME TypeInv, NEW out \in Outcomes, Resend(out)
    PROVE  TypeInv'
<1> USE DEF TypeInv
<1>1. tx \in Reports /\ Transmit(tx, dirty, out) /\ AfterWrite(Wr, out) /\ dirty \in BOOLEAN
  BY DEF Resend, TypeOK
<1>2. /\ tx' \in Reports \cup {Nothing} /\ dirty' \in BOOLEAN
      /\ shown' \in Reports \cup {Nothing} /\ given' \in Nat
  BY <1>1, Transmits
<1>3. /\ task' \in [Threads -> Tasks] /\ task'[Wr].at \in {"idle", "detach"}
      /\ \A u \in Threads \ {Wr} : task'[u] = task[u]
  BY <1>1, Written, ThreadsDistinct
<1>4. TypeOK'
  BY <1>2, <1>3 DEF Resend, TypeOK, lineVars
<1> QED
  BY <1>3, <1>4, ArgsKept, ThreadsDistinct

LEMMA PumpReadTyped == TypeInv /\ PumpRead => TypeInv'
<1> SUFFICES ASSUME TypeInv, PumpRead PROVE TypeInv'
  OBVIOUS
<1> DEFINE a == IF line = 0 THEN "resend" ELSE "due"
           b == ~ dirty
           s == [Rest EXCEPT !.at = a, !.line = line, !.keep = b]
<1>1. line \in Nat /\ (line # 0 => line \in Lines) /\ b \in BOOLEAN
  BY Bounds DEF TypeInv, TypeOK, Lines
<1>2. s \in Tasks /\ s.at \in {"resend", "due"} /\ s.line = line /\ (line = 0 => s.at = "resend")
  BY <1>1, TaskShapes DEF Rest
<1>3. Become(Wr, s)
  BY DEF PumpRead
<1> HIDE DEF s
<1>4. /\ task' \in [Threads -> Tasks] /\ task'[Wr] = s
      /\ \A u \in Threads \ {Wr} : task'[u] = task[u]
  BY <1>2, <1>3, Becomes, ThreadsDistinct DEF TypeInv
<1>5. TypeOK'
  BY <1>4 DEF PumpRead, TypeOK, TypeInv, lineVars
<1>6. TaskArgs'
  BY <1>1, <1>2, <1>4, ThreadsDistinct DEF TaskArgs, Is, TypeInv
<1> QED
  BY <1>5, <1>6 DEF TypeInv

\* The steps that only hand a thread something else to do.
LEMMA BookkeepingTyped ==
    ASSUME TypeInv, SessionEnds \/ NothingDue \/ ResendSkipped
    PROVE  TypeInv'
<1>1. /\ task' \in [Threads -> Tasks] /\ TaskArgs'
  <2>1. CASE SessionEnds
    <3> DEFINE s == [Rest EXCEPT !.at = "detach", !.session = serving]
    <3>1. s \in Tasks /\ s.at = "detach" /\ Become(Ctl, s)
      BY <2>1, TaskShapes DEF SessionEnds, TypeInv, TypeOK, Rest
    <3> HIDE DEF s
    <3> QED
      BY <3>1, Moves, ThreadsDistinct
  <2>2. CASE NothingDue
    BY <2>2, Resumes, ThreadsDistinct DEF NothingDue
  <2>3. CASE ResendSkipped
    <3>1. Become(Wr, Rest) /\ Rest.at = "idle"
      BY <2>3 DEF ResendSkipped, Rest
    <3> QED
      BY <3>1, Moves, TaskShapes, ThreadsDistinct
  <2> QED
    BY <2>1, <2>2, <2>3
<1>2. TypeOK'
  BY <1>1 DEF SessionEnds, NothingDue, ResendSkipped, TypeOK, TypeInv, lineVars
<1> QED
  BY <1>1, <1>2 DEF TypeInv

LEMMA OthersTyped ==
    ASSUME TypeInv, (\E d \in Delays : SetDelay(d)) \/ Attach \/ Tick
    PROVE  TypeInv'
<1> USE DEF TypeInv
<1>1. CASE \E d \in Delays : SetDelay(d)
  <2>1. PICK d \in Delays : SetDelay(d)
    BY <1>1
  <2>2. d \in Nat
    BY Bounds
  <2>3. lines' \in 0 .. MaxLines /\ line' \in 0 .. lines' /\ delay' \in [Lines -> Nat]
    <3>1. CASE line = 0
      <4>1. lines < MaxLines /\ lines' = lines + 1 /\ line' = lines'
            /\ delay' = [delay EXCEPT ![lines'] = d]
        BY <2>1, <3>1 DEF SetDelay
      <4>2. lines' \in 0 .. MaxLines /\ line' \in 0 .. lines'
        BY <4>1, Bounds DEF TypeOK
      <4>3. delay' \in [Lines -> Nat]
        BY <4>1, <2>2 DEF TypeOK
      <4> QED
        BY <4>2, <4>3
    <3>2. CASE line # 0
      <4>1. lines' = lines /\ line' = line /\ delay' = [delay EXCEPT ![line] = d]
        BY <2>1, <3>2 DEF SetDelay
      <4> QED
        BY <4>1, <2>2, Bounds DEF TypeOK
    <3> QED
      BY <3>1, <3>2
  <2> QED
    BY <2>1, <2>3 DEF SetDelay, TypeOK, TaskArgs, Is
<1>2. CASE Attach
  <2>1. /\ held' \in [Lines -> Seq(Reports)]
        /\ \A l \in Lines : Len(held'[l]) <= Depth
    BY <1>2, Clears DEF Attach
  <2>2. made' \in Nat /\ link' \in Nat /\ serving' \in Nat
    BY <1>2 DEF Attach, TypeOK
  <2>3. TypeOK'
    BY <1>2, <2>1, <2>2 DEF Attach, TypeOK, lineVars
  <2> QED
    BY <1>2, <2>3 DEF Attach, TaskArgs, Is
<1>3. CASE Tick
  BY <1>3 DEF Tick, TypeOK, TaskArgs, Is, lineVars
<1> QED
  BY <1>1, <1>2, <1>3

LEMMA TypeStep == TypeInv /\ [Next]_vars => TypeInv'
<1> SUFFICES ASSUME TypeInv, [Next]_vars PROVE TypeInv'
  OBVIOUS
<1>1. CASE Input \/ Reply
  BY <1>1, OfferReadTyped DEF Input, Reply
<1>2. CASE SetOff
  BY <1>2, SetOffTyped
<1>3. CASE \E t \in {Dp, Ctl} : OfferLocked(t)
  BY <1>3, OfferTyped DEF Threads
<1>4. CASE \E t \in Threads : Detach(t)
  BY <1>4, DetachTyped
<1>5. CASE \E out \in Outcomes : Drain(out) \/ ReleaseDue(out) \/ Resend(out)
  BY <1>5, DrainTyped, ReleaseDueTyped, ResendTyped
<1>6. CASE PumpRead \/ NothingDue \/ ResendSkipped \/ SessionEnds
  BY <1>6, PumpReadTyped, BookkeepingTyped
<1>7. CASE (\E d \in Delays : SetDelay(d)) \/ Attach \/ Tick
  BY <1>7, OthersTyped
<1>8. CASE UNCHANGED vars
  BY <1>8 DEF vars, lineVars, TypeInv, TypeOK, TaskArgs, Is
<1> QED
  BY <1>1, <1>2, <1>3, <1>4, <1>5, <1>6, <1>7, <1>8
     DEF Next, DatapathGoesOn, WriterStep, ControlGoesOn, Threads

\* The sink's fields and its delay lines keep their types, and no line ever
\* holds more than its ring (L2CAPSink, DelayLine).
THEOREM TypeCorrect == Spec => []TypeOK
<1>1. TypeInv => TypeOK
  BY DEF TypeInv
<1> QED
  BY <1>1, Initial, TypeStep, PTL DEF Spec

-----------------------------------------------------------------------------
(* The newest state is kept.  NewestIsKept alone is not inductive: that    *)
(* releasing a report or emptying a line leaves the newest in _tx takes    *)
(* that there is no other line with reports in it, and that the newest is  *)
(* the last of the one there is.                                           *)

NoReplies == "reply" \notin Ops

DatapathHolds ==
    /\ Is(Dp, "offer") => task[Dp].line = line /\ task[Dp].kind # "reply"
    /\ Is(Dp, "drain") => line = 0

OneLine == \A l \in Lines : held[l] # <<>> => l = line \/ (Is(Dp, "drain") /\ l = task[Dp].line)

NewestLast == newest # Nothing => \A l \in Lines : held[l] # <<>> => held[l][Len(held[l])] = newest

NewestSomewhere == newest # Nothing => tx = newest \/ \E l \in Lines : held[l] # <<>>

SessionsAgree == (link = 0 => newest = Nothing) /\ (serving = 0 => link = 0)

KeptInv == /\ TypeInv
           /\ task[Ctl].at \in {"idle", "detach"}
           /\ DatapathHolds
           /\ OneLine /\ NewestLast /\ NewestSomewhere
           /\ SessionsAgree

LEMMA KeptInit == Init => KeptInv
<1> SUFFICES ASSUME Init PROVE KeptInv
  OBVIOUS
<1>1. TypeInv
  BY Initial
<1>2. \A t \in Threads : task[t].at = "idle"
  BY DEF Init, Rest
<1>3. \A l \in Lines : held[l] = <<>>
  BY DEF Init
<1>4. newest = Nothing /\ link = 0
  BY DEF Init
<1> QED
  BY <1>1, <1>2, <1>3, <1>4, ThreadsDistinct
     DEF KeptInv, DatapathHolds, OneLine, NewestLast, NewestSomewhere, SessionsAgree, Is

LEMMA KeptImplies == KeptInv => NewestIsKept
<1> SUFFICES ASSUME KeptInv, newest # Nothing, tx # newest PROVE NewestIsKept
  BY DEF NewestIsKept
<1>1. PICK l \in Lines : held[l] # <<>>
  BY DEF KeptInv, NewestSomewhere
<1>2. l # 0 /\ held[l][Len(held[l])] = newest
  BY <1>1, Bounds DEF KeptInv, NewestLast, Lines
<1>3. l = line \/ (Is(Dp, "drain") /\ l = task[Dp].line)
  BY <1>1 DEF KeptInv, OneLine
<1> QED
  BY <1>1, <1>2, <1>3 DEF NewestIsKept, IsLast

\* Steps that leave the reports alone, and the datapath not draining.
LEMMA KeptIfAlone ==
    ASSUME KeptInv, TypeInv', UNCHANGED <<line, held, tx, newest, link, serving>>,
           task'[Ctl].at \in {"idle", "detach"},
           \/ task'[Dp] = task[Dp]
           \/ task[Dp].at # "drain" /\ task'[Dp].at \notin {"offer", "drain"}
    PROVE  KeptInv'
  BY DEF KeptInv, DatapathHolds, OneLine, NewestLast, NewestSomewhere, SessionsAgree, Is

LEMMA KeptByOffer ==
    ASSUME KeptInv, TypeInv', OfferLocked(Dp)
    PROVE  KeptInv'
<1> USE DEF KeptInv
<1>0. Dp \in Threads /\ Ctl \in Threads /\ Dp # Ctl /\ task \in [Threads -> Tasks]
  BY ThreadsDistinct DEF TypeInv, TypeOK
<1>1. CASE OfferRefused(Dp)
  <2>1. task'[Dp] = Rest /\ task'[Ctl] = task[Ctl] /\ task[Dp].at = "offer"
    BY <1>0, <1>1 DEF OfferRefused, Become, Is
  <2>2. UNCHANGED <<line, held, tx, newest, link, serving>>
    BY <1>1 DEF OfferRefused, lineVars
  <2> QED
    BY <2>1, <2>2, KeptIfAlone DEF Rest
<1>2. CASE OfferHeld(Dp)
  <2> DEFINE r == NewReport(Dp)
  <2>1. task'[Dp] = Rest /\ task'[Ctl] = task[Ctl] /\ task[Dp].at = "offer"
    BY <1>0, <1>2 DEF OfferHeld, Become, Is
  <2>2. task[Dp].line = line /\ line # 0 /\ line \in Lines /\ r.kind # "reply"
    BY <1>2, <2>1, Bounds DEF DatapathHolds, OfferHeld, Is, NewReport, TypeInv, TypeOK, Lines
  <2>3. /\ newest' = r
        /\ held' = [held EXCEPT ![line] = Appended(held[line], r)]
        /\ UNCHANGED <<line, tx, link, serving>> /\ link # 0
    <3>1. newest' = r
      BY <1>2, <2>2 DEF OfferHeld, Accept
    <3>2. held' = [held EXCEPT ![line] = Appended(held[line], r)]
      BY <1>2, <2>2 DEF OfferHeld
    <3> QED
      BY <1>2, <3>1, <3>2 DEF OfferHeld, lineVars
  <2>4. r \in Reports
    BY <1>0, <2>1, Reported DEF Is
  <2> HIDE DEF r
  <2>5. /\ Appended(held[line], r) # <<>>
        /\ Appended(held[line], r)[Len(Appended(held[line], r))] = r
    <3>1. held[line] \in Seq(Reports) /\ Len(held[line]) <= Depth
      BY <2>2 DEF TypeInv, TypeOK
    <3> DEFINE q == Appended(held[line], r)
    <3>2. q \in Seq(Reports) /\ Len(q) \in 1 .. Depth /\ q[Len(q)] = r
      BY <3>1, <2>4, Appends
    <3> HIDE DEF q
    <3>3. q # <<>>
      BY <3>2
    <3> QED
      BY <3>2, <3>3 DEF q
  <2>6. \A l \in Lines : held'[l] = IF l = line THEN Appended(held[line], r) ELSE held[l]
    BY <2>2, <2>3 DEF TypeInv, TypeOK
  <2>7. \A l \in Lines : l # line => held[l] = <<>>
    BY <2>1 DEF OneLine, Is
  <2>8. DatapathHolds' /\ SessionsAgree'
    BY <2>1, <2>3 DEF DatapathHolds, SessionsAgree, Is, Rest
  <2>9. OneLine' /\ NewestLast' /\ NewestSomewhere'
    BY <2>2, <2>3, <2>5, <2>6, <2>7 DEF OneLine, NewestLast, NewestSomewhere
  <2> QED
    BY <2>1, <2>8, <2>9
<1>3. CASE \E out \in Outcomes : OfferWritten(Dp, out)
  <2>1. PICK out \in Outcomes : OfferWritten(Dp, out)
    BY <1>3
  <2>2. task[Dp].at = "offer" /\ line = 0 /\ link # 0 /\ NewReport(Dp).kind # "reply"
    BY <2>1 DEF OfferWritten, DatapathHolds, Is, NewReport
  <2>3. tx' = NewReport(Dp) /\ newest' = tx' /\ UNCHANGED <<line, held, link, serving>>
    BY <2>1, <2>2 DEF OfferWritten, Accept, Transmit, lineVars
  <2>4. task'[Dp].at \in {"idle", "detach"} /\ task'[Ctl] = task[Ctl]
    BY <1>0, <2>1, Written DEF OfferWritten, TypeInv
  <2>5. \A l \in Lines : held'[l] = <<>>
    BY <2>2, <2>3, Bounds DEF OneLine, Is, Lines
  <2> QED
    BY <2>2, <2>3, <2>4, <2>5
       DEF DatapathHolds, OneLine, NewestLast, NewestSomewhere, SessionsAgree, Is
<1> QED
  BY <1>1, <1>2, <1>3 DEF OfferLocked

LEMMA KeptByDrain ==
    ASSUME KeptInv, TypeInv', NEW out \in Outcomes, Drain(out)
    PROVE  KeptInv'
<1> USE DEF KeptInv
<1> DEFINE l == task[Dp].line
<1>1. line = 0 /\ l \in Lines /\ task[Dp].at = "drain"
  BY DEF Drain, DatapathHolds, TypeInv, TaskArgs, Is
<1>2. \A m \in Lines : held'[m] = <<>>
  <2>1. \A m \in Lines : held[m] # <<>> => m = l
    BY <1>1, Bounds DEF OneLine, Lines
  <2>2. held' = [held EXCEPT ![l] = <<>>]
    BY DEF Drain
  <2> QED
    BY <1>1, <2>1, <2>2 DEF TypeInv, TypeOK
<1>3. UNCHANGED <<line, newest, link, serving>>
  BY DEF Drain, lineVars
<1>4. newest # Nothing => tx' = newest
  <2>1. CASE link # 0 /\ held[l] # <<>>
    BY <1>1, <2>1 DEF Drain, Transmit, NewestLast
  <2>2. CASE link = 0
    BY <2>2 DEF SessionsAgree
  <2>3. CASE held[l] = <<>>
    <3>1. \A m \in Lines : held[m] = <<>>
      BY <1>1, <2>3, Bounds DEF OneLine, Lines
    <3> QED
      BY <2>3, <3>1 DEF Drain, NewestSomewhere
  <2> QED
    BY <2>1, <2>2, <2>3
<1>5. task'[Dp].at = "idle" /\ task'[Ctl] = task[Ctl]
  BY ThreadsDistinct DEF Drain, Become, Rest, TypeInv, TypeOK
<1> QED
  BY <1>1, <1>2, <1>3, <1>4, <1>5
     DEF DatapathHolds, OneLine, NewestLast, NewestSomewhere, SessionsAgree, Is

\* What is left of a sequence still ends the same.
LEMMA Suffix ==
    ASSUME NEW s \in Seq(Reports), NEW n \in 1 .. Len(s)
    PROVE  /\ s # <<>>
           /\ SubSeq(s, n + 1, Len(s)) # <<>> =>
                SubSeq(s, n + 1, Len(s))[Len(SubSeq(s, n + 1, Len(s)))] = s[Len(s)]
           /\ SubSeq(s, n + 1, Len(s)) = <<>> => n = Len(s)
<1> DEFINE rest == SubSeq(s, n + 1, Len(s))
<1>1. s # <<>> /\ Len(s) \in Nat
  OBVIOUS
<1>2. CASE n = Len(s)
  <2>1. rest = <<>>
    BY <1>1, <1>2
  <2> HIDE DEF rest
  <2>2. rest # <<>> => rest[Len(rest)] = s[Len(s)]
    BY <2>1
  <2> QED
    BY <1>1, <1>2, <2>2 DEF rest
<1>3. CASE n < Len(s)
  <2>1. \A i \in n + 1 .. Len(s) : s[i] \in Reports
    BY <1>1
  <2>2. /\ rest \in Seq(Reports)
        /\ Len(rest) = Len(s) - n
        /\ \A i \in 1 .. Len(s) - n : rest[i] = s[n + i]
    <3>1. PICK k \in Nat : k = Len(s)
      BY <1>1
    <3>2. /\ SubSeq(s, n + 1, k) \in Seq(Reports)
          /\ Len(SubSeq(s, n + 1, k)) = IF n + 1 <= k THEN k - (n + 1) + 1 ELSE 0
          /\ \A i \in 1 .. k - (n + 1) + 1 : SubSeq(s, n + 1, k)[i] = s[n + 1 + i - 1]
      BY <2>1, <3>1, SubSeqProperties
    <3> QED
      BY <1>1, <1>3, <3>1, <3>2
  <2> HIDE DEF rest
  <2>3. rest[Len(rest)] = s[Len(s)] /\ rest # <<>>
    BY <1>1, <1>3, <2>2
  <2> QED
    BY <1>1, <2>3 DEF rest
<1>4. n = Len(s) \/ n < Len(s)
  BY <1>1
<1> QED
  BY <1>2, <1>3, <1>4

LEMMA KeptByRelease ==
    ASSUME KeptInv, TypeInv', NEW out \in Outcomes, ReleaseDue(out)
    PROVE  KeptInv'
<1> USE DEF KeptInv
<1> DEFINE l == task[Wr].line
           n == Due(l)
           s == held[l]
           rest == SubSeq(s, n + 1, Len(s))
<1>1. l \in Lines /\ s \in Seq(Reports)
  BY DEF ReleaseDue, TypeInv, TaskArgs, TypeOK
<1>2. n \in 1 .. Len(s)
  BY <1>1, DueBound DEF ReleaseDue, TypeInv
<1>3. tx' = s[n] /\ held' = [held EXCEPT ![l] = rest]
  BY DEF ReleaseDue, Transmit
<1>4. UNCHANGED <<line, newest, link, serving>>
  BY DEF ReleaseDue, lineVars
<1>5. task'[Dp] = task[Dp] /\ task'[Ctl] = task[Ctl]
  BY Written, ThreadsDistinct DEF ReleaseDue, TypeInv
<1>6. \A m \in Lines : held'[m] = IF m = l THEN rest ELSE held[m]
  BY <1>1, <1>3 DEF TypeInv, TypeOK
<1> HIDE DEF n
<1>7. /\ s # <<>>
      /\ rest # <<>> => rest[Len(rest)] = s[Len(s)]
      /\ rest = <<>> => n = Len(s)
  BY <1>1, <1>2, Suffix
<1>8. newest # Nothing => newest = s[Len(s)]
  BY <1>1, <1>7 DEF NewestLast
<1> HIDE DEF l, s, rest
<1>9. OneLine'
  BY <1>4, <1>5, <1>6, <1>7 DEF OneLine, Is, s
<1>10. NewestLast'
  BY <1>4, <1>6, <1>7, <1>8 DEF NewestLast
<1>11. NewestSomewhere'
  BY <1>1, <1>3, <1>4, <1>6, <1>7, <1>8 DEF NewestSomewhere
<1> QED
  BY <1>4, <1>5, <1>9, <1>10, <1>11 DEF DatapathHolds, SessionsAgree, Is

LEMMA KeptByOthers ==
    ASSUME KeptInv, TypeInv',
           (\E d \in Delays : SetDelay(d)) \/ SetOff \/ Attach
    PROVE  KeptInv'
<1> USE DEF KeptInv
<1>0. Dp \in Threads /\ Ctl \in Threads /\ Dp # Ctl /\ task \in [Threads -> Tasks]
  BY ThreadsDistinct DEF TypeInv, TypeOK
<1>1. CASE \E d \in Delays : SetDelay(d)
  <2>1. PICK d \in Delays : SetDelay(d)
    BY <1>1
  <2>2. task[Dp].at = "idle" /\ task' = task /\ UNCHANGED <<held, tx, newest, link, serving>>
    BY <2>1 DEF SetDelay, Rest
  <2>3. line' = line \/ \A l \in Lines : held[l] = <<>>
    BY <2>1, <2>2, Bounds DEF SetDelay, OneLine, Is, Lines
  <2> QED
    BY <2>2, <2>3
       DEF DatapathHolds, OneLine, NewestLast, NewestSomewhere, SessionsAgree, Is
<1>2. CASE SetOff
  <2>1. /\ line' = 0 /\ UNCHANGED <<held, tx, newest, link, serving>>
        /\ task[Dp].at = "idle" /\ task'[Dp].at = "drain" /\ task'[Dp].line = line
        /\ task'[Ctl] = task[Ctl]
    BY <1>0, <1>2 DEF SetOff, Become, Rest
  <2> QED
    BY <1>2, <2>1
       DEF DatapathHolds, OneLine, NewestLast, NewestSomewhere, SessionsAgree, Is
<1>3. CASE Attach
  <2>1. newest = Nothing /\ newest' = Nothing /\ link' # 0 /\ serving' # 0 /\ task' = task
        /\ held' = Cleared /\ line' = line
    BY <1>3 DEF Attach, SessionsAgree, TypeInv, TypeOK, lineVars
  <2>2. \A l \in Lines : held'[l] # <<>> => held[l] # <<>>
    BY <2>1, Clears DEF TypeInv
  <2> QED
    BY <2>1, <2>2
       DEF DatapathHolds, OneLine, NewestLast, NewestSomewhere, SessionsAgree, Is
<1> QED
  BY <1>1, <1>2, <1>3

LEMMA KeptByDetach ==
    ASSUME KeptInv, TypeInv', NEW t \in Threads, Detach(t)
    PROVE  KeptInv'
<1> USE DEF KeptInv
<1>1. /\ newest' = Nothing /\ link' = 0 /\ line' = line /\ held' = Cleared
      /\ task[t].at = "detach"
  BY DEF Detach, Is, lineVars
<1>2. task'[t].at = "idle" /\ \A u \in Threads \ {t} : task'[u] = task[u]
  BY DEF Detach, Become, Rest, TypeInv, TypeOK
<1>3. \A l \in Lines : held'[l] # <<>> => held[l] # <<>>
  BY <1>1, Clears DEF TypeInv
<1> QED
  BY <1>1, <1>2, <1>3, ThreadsDistinct
     DEF DatapathHolds, OneLine, NewestLast, NewestSomewhere, SessionsAgree, Is

LEMMA KeptByWriter ==
    ASSUME KeptInv, TypeInv', PumpRead \/ NothingDue \/ ResendSkipped
                              \/ \E out \in Outcomes : Resend(out)
    PROVE  KeptInv'
<1>1. UNCHANGED <<line, held, tx, newest, link, serving>>
  BY DEF PumpRead, NothingDue, ResendSkipped, Resend, Transmit, lineVars
<1>2. task'[Dp] = task[Dp] /\ task'[Ctl] = task[Ctl]
  BY ThreadsDistinct DEF PumpRead, NothingDue, ResendSkipped, Resend, AfterWrite, Become,
     Resume, KeptInv, TypeInv, TypeOK
<1> QED
  BY <1>1, <1>2, KeptIfAlone DEF KeptInv

LEMMA KeptStep == NoReplies /\ KeptInv /\ [Next]_vars => KeptInv'
<1> SUFFICES ASSUME NoReplies, KeptInv, [Next]_vars PROVE KeptInv'
  OBVIOUS
<1>0. TypeInv' /\ Dp \in Threads /\ Ctl \in Threads /\ Dp # Ctl /\ task \in [Threads -> Tasks]
  BY TypeStep, ThreadsDistinct DEF KeptInv, TypeInv, TypeOK
<1>1. CASE Input
  <2>1. OfferRead(Dp, "input") /\ task[Dp].at = "idle"
    BY <1>1 DEF Input, Rest
  <2>2. /\ task'[Dp].at = "offer" /\ task'[Dp].line = line /\ task'[Dp].kind = "input"
        /\ task'[Ctl] = task[Ctl] /\ UNCHANGED <<line, held, tx, newest, link, serving>>
    BY <1>0, <2>1 DEF OfferRead, Become, Rest, lineVars
  <2> QED
    BY <1>0, <2>1, <2>2
       DEF KeptInv, DatapathHolds, OneLine, NewestLast, NewestSomewhere, SessionsAgree, Is
<1>2. CASE Reply
  BY <1>2 DEF Reply, NoReplies
<1>3. CASE (\E d \in Delays : SetDelay(d)) \/ SetOff \/ Attach
  BY <1>0, <1>3, KeptByOthers
<1>4. CASE OfferLocked(Dp)
  BY <1>0, <1>4, KeptByOffer
<1>5. CASE OfferLocked(Ctl)
  BY <1>5 DEF OfferLocked, OfferRefused, OfferHeld, OfferWritten, Is, KeptInv
<1>6. CASE \E t \in Threads : Detach(t)
  BY <1>0, <1>6, KeptByDetach
<1>7. CASE \E out \in Outcomes : Drain(out) \/ ReleaseDue(out)
  BY <1>0, <1>7, KeptByDrain, KeptByRelease
<1>8. CASE PumpRead \/ NothingDue \/ ResendSkipped \/ \E out \in Outcomes : Resend(out)
  BY <1>0, <1>8, KeptByWriter
<1>9. CASE SessionEnds
  <2>1. /\ task'[Ctl].at = "detach" /\ task'[Dp] = task[Dp]
        /\ UNCHANGED <<line, held, tx, newest, link, serving>>
    BY <1>0, <1>9 DEF SessionEnds, Become, Rest, lineVars
  <2> QED
    BY <1>0, <2>1, KeptIfAlone
<1>10. CASE Tick \/ UNCHANGED vars
  <2>1. UNCHANGED <<task, line, held, tx, newest, link, serving>>
    BY <1>10 DEF Tick, vars, lineVars
  <2> QED
    BY <1>0, <2>1, KeptIfAlone DEF KeptInv
<1> QED
  BY <1>1, <1>2, <1>3, <1>4, <1>5, <1>6, <1>7, <1>8, <1>9, <1>10
     DEF Next, DatapathGoesOn, WriterStep, ControlGoesOn, Threads

\* As long as the profile answers no subcommands, the newest state that
\* send_input_report accepted is in _tx or the last of the delay line, whatever
\* the three threads do meanwhile (L2CAPSink).
THEOREM NewestKept ==
    ASSUME NoReplies
    PROVE  Spec => []NewestIsKept
<1>1. KeptInv /\ [Next]_vars => KeptInv'
  BY KeptStep
<1> QED
  BY <1>1, KeptInit, KeptImplies, PTL DEF Spec

-----------------------------------------------------------------------------
(* What one step does to the delay lines: the entries of a line that are   *)
(* kept move up by the number of those that left before them, and at most  *)
(* one new report joins behind them.                                       *)

Joins(t, l, r) == OfferHeld(t) /\ task[t].line = l /\ r = NewReport(t)

Shifted(l, k) ==
    \A i \in DOMAIN held'[l] :
        \/ i + k \in DOMAIN held[l] /\ held'[l][i] = held[l][i + k]
        \/ i = Len(held'[l]) /\ \E t \in {Dp, Ctl} : Joins(t, l, held'[l][i])

LEMMA AppendedEntries ==
    ASSUME NEW s \in Seq(Reports), NEW r \in Reports
    PROVE  \E k \in Nat : \A i \in DOMAIN Appended(s, r) :
               \/ i + k \in DOMAIN s /\ Appended(s, r)[i] = s[i + k]
               \/ i = Len(Appended(s, r)) /\ Appended(s, r)[i] = r
<1>1. CASE Len(s) = Depth
  <2>1. s # <<>> /\ Len(s) \in Nat /\ DOMAIN s = 1 .. Len(s) /\ Len(s) # 0
    BY <1>1, Bounds
  <2> DEFINE q == Append(Tail(s), r)
  <2>2. Appended(s, r) = q
    BY <1>1 DEF Appended
  <2>3. /\ Tail(s) \in Seq(Reports) /\ Len(Tail(s)) = Len(s) - 1
        /\ \A i \in 1 .. Len(s) - 1 : Tail(s)[i] = s[i + 1]
    BY <2>1
  <2>4. /\ DOMAIN q = 1 .. Len(s) /\ Len(q) = Len(s) /\ q[Len(s)] = r
        /\ \A i \in 1 .. Len(s) - 1 : q[i] = s[i + 1]
    BY <2>1, <2>3
  <2> HIDE DEF q
  <2>5. \A i \in DOMAIN q : \/ i + 1 \in DOMAIN s /\ q[i] = s[i + 1]
                            \/ i = Len(q) /\ q[i] = r
    BY <2>1, <2>4
  <2> QED
    BY <2>2, <2>5
<1>2. CASE Len(s) # Depth
  <2> DEFINE q == Append(s, r)
  <2>1. Appended(s, r) = q
    BY <1>2 DEF Appended
  <2>2. /\ Len(s) \in Nat /\ DOMAIN s = 1 .. Len(s)
        /\ DOMAIN q = 1 .. Len(s) + 1 /\ Len(q) = Len(s) + 1 /\ q[Len(s) + 1] = r
        /\ \A i \in 1 .. Len(s) : q[i] = s[i]
    OBVIOUS
  <2> HIDE DEF q
  <2>3. \A i \in DOMAIN q : \/ i + 0 \in DOMAIN s /\ q[i] = s[i + 0]
                            \/ i = Len(q) /\ q[i] = r
    BY <2>2
  <2> QED
    BY <2>1, <2>3
<1> QED
  BY <1>1, <1>2

LEMMA RestEntries ==
    ASSUME NEW s \in Seq(Reports), NEW n \in 1 .. Len(s)
    PROVE  \A i \in DOMAIN SubSeq(s, n + 1, Len(s)) :
               i + n \in DOMAIN s /\ SubSeq(s, n + 1, Len(s))[i] = s[i + n]
<1>1. PICK k \in Nat : k = Len(s)
  OBVIOUS
<1>2. DOMAIN s = 1 .. k /\ n \in Nat /\ 1 <= n /\ n <= k
  BY <1>1
<1>3. \A i \in n + 1 .. k : s[i] \in Reports
  BY <1>1, <1>2
<1> DEFINE q == SubSeq(s, n + 1, k)
<1>4. /\ q \in Seq(Reports)
      /\ Len(q) = IF n + 1 <= k THEN k - (n + 1) + 1 ELSE 0
      /\ \A i \in 1 .. k - (n + 1) + 1 : q[i] = s[n + 1 + i - 1]
  BY <1>1, <1>2, <1>3, SubSeqProperties
<1> HIDE DEF q
<1>5. Len(q) = k - n /\ DOMAIN q = 1 .. k - n
  BY <1>2, <1>4
<1>6. \A i \in DOMAIN q : i + n \in DOMAIN s /\ q[i] = s[i + n]
  BY <1>2, <1>4, <1>5
<1> QED
  BY <1>1, <1>6 DEF q

LEMMA ShiftedIfSubset ==
    ASSUME TypeOK, TypeOK', NEW l \in Lines, held'[l] \in {held[l], <<>>}
    PROVE  Shifted(l, 0)
<1>1. held[l] \in Seq(Reports) /\ DOMAIN held[l] = 1 .. Len(held[l])
  BY DEF TypeOK
<1>2. CASE held'[l] = held[l]
  BY <1>1, <1>2 DEF Shifted
<1>3. CASE held'[l] = <<>>
  BY <1>3 DEF Shifted
<1> QED
  BY <1>2, <1>3

LEMMA ShiftedByOffer ==
    ASSUME TypeInv, TypeInv', NEW t \in {Dp, Ctl}, OfferHeld(t), NEW l \in Lines
    PROVE  \E k \in Nat : Shifted(l, k)
<1> USE DEF TypeInv
<1> DEFINE r == NewReport(t)
           q == Appended(held[l], r)
<1>1. t \in Threads /\ Is(t, "offer")
  BY DEF OfferHeld, Threads
<1>2. r \in Reports /\ held[l] \in Seq(Reports) /\ held \in [Lines -> Seq(Reports)]
  BY <1>1, Reported DEF TypeOK
<1>3. CASE l = task[t].line
  <2>1. held'[l] = q
    BY <1>2, <1>3 DEF OfferHeld
  <2>2. Joins(t, l, r)
    BY <1>3 DEF Joins
  <2> HIDE DEF r
  <2>3. PICK k \in Nat : \A i \in DOMAIN q : \/ i + k \in DOMAIN held[l] /\ q[i] = held[l][i + k]
                                             \/ i = Len(q) /\ q[i] = r
    BY <1>2, AppendedEntries
  <2> HIDE DEF q
  <2>4. Shifted(l, k)
    BY <2>1, <2>2, <2>3 DEF Shifted
  <2> QED
    BY <2>4
<1>4. CASE l # task[t].line
  <2>1. held'[l] = held[l]
    BY <1>2, <1>4 DEF OfferHeld
  <2>2. Shifted(l, 0)
    BY <2>1, ShiftedIfSubset
  <2> QED
    BY <2>2
<1> QED
  BY <1>3, <1>4

LEMMA ShiftedByRelease ==
    ASSUME TypeInv, TypeInv', NEW out, ReleaseDue(out), NEW l \in Lines
    PROVE  \E k \in Nat : Shifted(l, k)
<1> USE DEF TypeInv
<1> DEFINE m == task[Wr].line
           n == Due(m)
           rest == SubSeq(held[m], n + 1, Len(held[m]))
<1>1. m \in Lines /\ held[m] \in Seq(Reports) /\ held \in [Lines -> Seq(Reports)]
  BY DEF ReleaseDue, TaskArgs, TypeOK
<1>2. n \in 1 .. Len(held[m])
  BY <1>1, DueBound DEF ReleaseDue
<1>3. held' = [held EXCEPT ![m] = rest]
  BY DEF ReleaseDue
<1> HIDE DEF n
<1>4. CASE l = m
  <2>1. \A i \in DOMAIN rest : i + n \in DOMAIN held[m] /\ rest[i] = held[m][i + n]
    BY <1>1, <1>2, RestEntries
  <2> HIDE DEF rest
  <2>2. held'[l] = rest
    BY <1>1, <1>3, <1>4
  <2>3. Shifted(l, n) /\ n \in Nat
    BY <1>2, <1>4, <2>1, <2>2 DEF Shifted
  <2> QED
    BY <2>3
<1>5. CASE l # m
  <2> HIDE DEF rest
  <2>1. held'[l] = held[l]
    BY <1>1, <1>3, <1>5
  <2>2. Shifted(l, 0)
    BY <2>1, ShiftedIfSubset
  <2> QED
    BY <2>2
<1> QED
  BY <1>4, <1>5

LEMMA HeldShifts ==
    ASSUME TypeInv, TypeInv', [Next]_vars, NEW l \in Lines
    PROVE  \E k \in Nat : Shifted(l, k)
<1>0. TypeOK /\ TypeOK' /\ 0 \in Nat /\ held \in [Lines -> Seq(Reports)]
  BY DEF TypeInv, TypeOK
<1>1. CASE held'[l] \in {held[l], <<>>}
  BY <1>0, <1>1, ShiftedIfSubset
<1>2. CASE held' = Cleared
  <2>1. held'[l] \in {held[l], <<>>}
    BY <1>0, <1>2, Clears
  <2> QED
    BY <1>1, <2>1
<1>3. CASE held' = held
  BY <1>1, <1>3
<1>4. CASE \E t \in {Dp, Ctl} : OfferLocked(t)
  <2>1. PICK t \in {Dp, Ctl} : OfferLocked(t)
    BY <1>4
  <2>2. CASE OfferHeld(t)
    BY <2>1, <2>2, ShiftedByOffer
  <2>3. CASE ~ OfferHeld(t)
    <3>1. held' = held
      BY <2>1, <2>3 DEF OfferLocked, OfferRefused, OfferWritten
    <3> QED
      BY <1>3, <3>1
  <2> QED
    BY <2>2, <2>3
<1>5. CASE \E out \in Outcomes : ReleaseDue(out)
  BY <1>5, ShiftedByRelease
<1>6. CASE \E out \in Outcomes : Drain(out)
  <2>1. held' = [held EXCEPT ![task[Dp].line] = <<>>]
    BY <1>6 DEF Drain
  <2>2. held'[l] \in {held[l], <<>>}
    BY <1>0, <2>1
  <2> QED
    BY <1>1, <2>2
<1>7. CASE Attach \/ \E t \in Threads : Detach(t)
  BY <1>2, <1>7 DEF Attach, Detach
<1>8. CASE \/ Input \/ Reply \/ SetOff \/ SessionEnds \/ Tick
           \/ PumpRead \/ NothingDue \/ ResendSkipped
           \/ (\E out \in Outcomes : Resend(out)) \/ \E d \in Delays : SetDelay(d)
  <2>1. held' = held
    BY <1>8 DEF Input, Reply, OfferRead, SetOff, SessionEnds, Tick, PumpRead, NothingDue,
                ResendSkipped, Resend, SetDelay
  <2> QED
    BY <1>3, <2>1
<1>9. CASE UNCHANGED vars
  BY <1>3, <1>9 DEF vars
<1> QED
  BY <1>4, <1>5, <1>6, <1>7, <1>8, <1>9
     DEF Next, DatapathGoesOn, WriterStep, ControlGoesOn, Threads

-----------------------------------------------------------------------------
(* What one step does to the sink's line, which only the datapath changes, *)
(* and to a thread's task.                                                 *)

LineMove ==
    \/ UNCHANGED lineVars
    \/ line # 0 /\ UNCHANGED <<line, lines>> /\ \E d \in Delays : delay' = [delay EXCEPT ![line] = d]
    \/ /\ "delay" \in Ops /\ line = 0 /\ task' = task /\ Is(Dp, "idle")
       /\ line' = lines + 1 /\ lines' = lines + 1 /\ lines' \in Lines
       /\ held' = held /\ tx' = tx
       /\ \E d \in Delays : delay' = [delay EXCEPT ![lines'] = d]
    \/ /\ "off" \in Ops /\ Is(Dp, "idle")
       /\ line # 0 /\ line' = 0 /\ UNCHANGED <<lines, delay>>
       /\ task'[Dp].at = "drain"

TaskMove(t) ==
    \/ task'[t] = task[t]
    \/ task'[t].at \in {"idle", "detach", "resend"}
    \/ /\ t # Wr /\ task'[t].at = "offer" /\ task'[t].line = line
       /\ UNCHANGED <<line, lines>>
       /\ task'[t].kind = "reply" => "reply" \in Ops
    \/ t = Wr /\ task'[t].at = "due" /\ line # 0 /\ task'[t].line = line /\ UNCHANGED <<line, lines>>
    \/ t = Dp /\ task'[t].at = "drain" /\ line # 0 /\ task'[t].line = line /\ line' = 0

LEMMA LineMoves ==
    ASSUME TypeInv, [Next]_vars
    PROVE  LineMove
<1>0. Dp \in Threads /\ task \in [Threads -> Tasks]
  BY ThreadsDistinct DEF TypeInv, TypeOK
<1>1. CASE \E d \in Delays : SetDelay(d)
  <2>1. PICK d \in Delays : SetDelay(d)
    BY <1>1
  <2>2. CASE line = 0
    <3>1. lines' \in Lines
      BY <2>1, <2>2, Bounds DEF SetDelay, Lines, TypeInv, TypeOK
    <3>2. line' = lines + 1 /\ lines' = lines + 1 /\ delay' = [delay EXCEPT ![lines'] = d]
      BY <2>1, <2>2 DEF SetDelay
    <3>3. "delay" \in Ops /\ task' = task /\ task[Dp] = Rest /\ held' = held /\ tx' = tx
      BY <2>1 DEF SetDelay
    <3>4. Is(Dp, "idle")
      BY <3>3 DEF Is, Rest
    <3>5. \E e \in Delays : delay' = [delay EXCEPT ![lines'] = e]
      BY <3>2
    <3> QED
      BY <2>2, <3>1, <3>2, <3>3, <3>4, <3>5 DEF LineMove
  <2>3. CASE line # 0
    <3>1. line' = line /\ lines' = lines /\ delay' = [delay EXCEPT ![line] = d]
      BY <2>1, <2>3 DEF SetDelay
    <3>2. \E e \in Delays : delay' = [delay EXCEPT ![line] = e]
      BY <3>1
    <3> QED
      BY <2>3, <3>1, <3>2 DEF LineMove
  <2> QED
    BY <2>2, <2>3
<1>2. CASE SetOff
  <2>1. "off" \in Ops /\ Is(Dp, "idle") /\ line # 0 /\ line' = 0 /\ UNCHANGED <<lines, delay>>
    BY <1>2 DEF SetOff, Is, Rest
  <2>2. task'[Dp].at = "drain"
    BY <1>0, <1>2 DEF SetOff, Become, Rest
  <2> QED
    BY <2>1, <2>2 DEF LineMove
<1>3. CASE \/ Input \/ Reply \/ Attach \/ SessionEnds \/ Tick
           \/ PumpRead \/ NothingDue \/ ResendSkipped
           \/ (\E t \in Threads : OfferLocked(t) \/ Detach(t))
           \/ \E out \in Outcomes : Drain(out) \/ ReleaseDue(out) \/ Resend(out)
  BY <1>3 DEF Input, Reply, OfferRead, Attach, SessionEnds, Tick, PumpRead,
              NothingDue, ResendSkipped, OfferLocked, OfferRefused, OfferHeld, OfferWritten,
              Detach, Drain, ReleaseDue, Resend, LineMove
<1>4. CASE UNCHANGED vars
  BY <1>4 DEF vars, LineMove
<1> QED
  BY <1>1, <1>2, <1>3, <1>4
     DEF Next, DatapathGoesOn, WriterStep, ControlGoesOn, Threads

LEMMA TaskMoves ==
    ASSUME TypeInv, [Next]_vars, NEW t \in Threads
    PROVE  TaskMove(t)
<1>0. /\ TypeOK /\ Dp \in Threads /\ Wr \in Threads /\ Ctl \in Threads
      /\ Dp # Wr /\ Dp # Ctl /\ Wr # Ctl
      /\ task \in [Threads -> Tasks] /\ task' \in [Threads -> Tasks]
  BY TypeStep, ThreadsDistinct DEF TypeInv, TypeOK
<1>1. ASSUME NEW u \in {Dp, Ctl}, NEW k \in {"input", "reply"}, OfferRead(u, k),
             k = "reply" => "reply" \in Ops
      PROVE  TaskMove(t)
  <2>1. u \in Threads /\ Become(u, [Rest EXCEPT !.at = "offer", !.line = line, !.kind = k])
    BY <1>0, <1>1 DEF OfferRead
  <2>2. /\ task'[u].at = "offer" /\ task'[u].line = line /\ task'[u].kind = k
        /\ \A v \in Threads \ {u} : task'[v] = task[v]
    BY <1>0, <2>1 DEF Become, Rest
  <2>3. UNCHANGED <<line, lines>>
    BY <1>1 DEF OfferRead, lineVars
  <2> QED
    BY <1>0, <1>1, <2>2, <2>3 DEF TaskMove
<1>2. CASE Input \/ Reply
  BY <1>1, <1>2 DEF Input, Reply
<1>3. CASE SetOff
  <2>1. /\ line # 0 /\ line' = 0 /\ task'[Dp].at = "drain" /\ task'[Dp].line = line
        /\ \A v \in Threads \ {Dp} : task'[v] = task[v]
    BY <1>0, <1>3 DEF SetOff, Become, Rest
  <2> QED
    BY <2>1 DEF TaskMove
<1>4. CASE \E out \in Outcomes : Drain(out)
  <2>1. task'[Dp].at = "idle" /\ \A v \in Threads \ {Dp} : task'[v] = task[v]
    BY <1>0, <1>4 DEF Drain, Become, Rest
  <2> QED
    BY <2>1 DEF TaskMove
<1>5. CASE PumpRead
  <2> DEFINE a == IF line = 0 THEN "resend" ELSE "due"
  <2>1. Become(Wr, [Rest EXCEPT !.at = a, !.line = line, !.keep = ~ dirty]) /\ UNCHANGED <<line, lines>>
    BY <1>5 DEF PumpRead, lineVars
  <2>2. /\ task'[Wr].at = a /\ task'[Wr].line = line
        /\ \A v \in Threads \ {Wr} : task'[v] = task[v]
    BY <1>0, <2>1 DEF Become, Rest
  <2> QED
    BY <2>1, <2>2 DEF TaskMove
<1>6. ASSUME NEW u \in Threads, task'[u].at \in {"idle", "detach", "resend"},
             \A v \in Threads \ {u} : task'[v] = task[v]
      PROVE  TaskMove(t)
  BY <1>6 DEF TaskMove
<1>7. CASE \E u \in Threads : OfferLocked(u) \/ Detach(u)
  <2>1. PICK u \in Threads : OfferLocked(u) \/ Detach(u)
    BY <1>7
  <2>2. CASE \E out \in Outcomes : OfferWritten(u, out)
    <3>1. /\ task'[u].at \in {"idle", "detach", "resend"}
          /\ \A v \in Threads \ {u} : task'[v] = task[v]
      BY <1>0, <2>2, Written DEF OfferWritten
    <3> QED
      BY <1>6, <3>1
  <2>3. CASE OfferRefused(u) \/ OfferHeld(u) \/ Detach(u)
    <3>1. Become(u, Rest)
      BY <2>3 DEF OfferRefused, OfferHeld, Detach
    <3>2. /\ task'[u].at \in {"idle", "detach", "resend"}
          /\ \A v \in Threads \ {u} : task'[v] = task[v]
      BY <1>0, <3>1 DEF Become, Rest
    <3> QED
      BY <1>6, <3>2
  <2> QED
    BY <2>1, <2>2, <2>3 DEF OfferLocked
<1>8. CASE \E out \in Outcomes : ReleaseDue(out) \/ Resend(out)
  <2>1. PICK out \in Outcomes : AfterWrite(Wr, out)
    BY <1>8 DEF ReleaseDue, Resend
  <2>2. /\ task'[Wr].at \in {"idle", "detach", "resend"}
        /\ \A v \in Threads \ {Wr} : task'[v] = task[v]
    BY <1>0, <2>1, Written
  <2> QED
    BY <1>0, <1>6, <2>2
<1>9. CASE NothingDue \/ ResendSkipped
  <2>1. /\ task'[Wr].at \in {"idle", "detach", "resend"}
        /\ \A v \in Threads \ {Wr} : task'[v] = task[v]
    BY <1>0, <1>9 DEF NothingDue, ResendSkipped, Resume, Become, Rest, Tasks
  <2> QED
    BY <1>0, <1>6, <2>1
<1>10. CASE SessionEnds
  <2>1. /\ task'[Ctl].at = "detach"
        /\ \A v \in Threads \ {Ctl} : task'[v] = task[v]
    BY <1>0, <1>10 DEF SessionEnds, Become, Rest
  <2> QED
    BY <1>0, <1>6, <2>1
<1>11. CASE (\E d \in Delays : SetDelay(d)) \/ Attach \/ Tick \/ UNCHANGED vars
  BY <1>11 DEF SetDelay, Attach, Tick, vars, TaskMove
<1> QED
  BY <1>2, <1>3, <1>4, <1>5, <1>7, <1>8, <1>9, <1>10, <1>11
     DEF Next, DatapathGoesOn, WriterStep, ControlGoesOn, Threads

-----------------------------------------------------------------------------
(* What one step does to _tx and to the console: there is a link, and what *)
(* is written to it has one of four origins.                               *)

Origin(r) ==
    \/ r = tx
    \/ \E t \in {Dp, Ctl} : Is(t, "offer") /\ task[t].line = 0 /\ r = NewReport(t)
    \/ Is(Dp, "drain") /\ \E l \in Lines : /\ l = task[Dp].line /\ held[l] # <<>>
                                           /\ r = held[l][Len(held[l])]
    \/ Is(Wr, "due") /\ \E l \in Lines : /\ l = task[Wr].line /\ Due(l) \in DOMAIN held[l]
                                         /\ r = held[l][Due(l)]

Writes(r) ==
    /\ link # 0 /\ UNCHANGED <<link, now, lineVars>>
    /\ tx' = r
    /\ \/ UNCHANGED <<shown, given>>
       \/ shown' = r /\ given' = IF r.kind # "reply" THEN r.n ELSE given
    /\ Origin(r)

ConsoleMove ==
    \/ UNCHANGED <<tx, shown, given, link>>
    \/ Attach
    \/ \E t \in Threads : Detach(t)
    \/ \E r \in Reports : Writes(r)

LEMMA ConsoleMoves ==
    ASSUME TypeInv, [Next]_vars
    PROVE  ConsoleMove
<1> USE DEF TypeInv
<1>1. ASSUME NEW r \in Reports, NEW d, NEW out, Transmit(r, d, out), Origin(r), link # 0,
             UNCHANGED <<link, now, lineVars>>
      PROVE  ConsoleMove
  <2>1. Writes(r)
    BY <1>1 DEF Transmit, Writes
  <2> QED
    BY <2>1 DEF ConsoleMove
<1>2. CASE \E t \in {Dp, Ctl} : OfferLocked(t)
  <2>1. PICK t \in {Dp, Ctl} : OfferLocked(t)
    BY <1>2
  <2>2. CASE \E out \in Outcomes : OfferWritten(t, out)
    <3>1. PICK out \in Outcomes : OfferWritten(t, out)
      BY <2>2
    <3>2. NewReport(t) \in Reports /\ Origin(NewReport(t))
      BY <3>1, Reported, ThreadsDistinct DEF OfferWritten, Origin
    <3> QED
      BY <1>1, <3>1, <3>2 DEF OfferWritten
  <2>3. CASE OfferRefused(t) \/ OfferHeld(t)
    BY <2>3 DEF OfferRefused, OfferHeld, ConsoleMove
  <2> QED
    BY <2>1, <2>2, <2>3 DEF OfferLocked
<1>3. CASE \E out \in Outcomes : Drain(out)
  <2>1. PICK out \in Outcomes : Drain(out)
    BY <1>3
  <2> DEFINE l == task[Dp].line
             r == held[l][Len(held[l])]
  <2>2. l \in Lines /\ held[l] \in Seq(Reports) /\ Is(Dp, "drain")
    BY <2>1 DEF Drain, TaskArgs, TypeOK
  <2>3. CASE link # 0 /\ held[l] # <<>>
    <3>1. r \in Reports
      BY <2>2, <2>3
    <3>2. Transmit(r, TRUE, out) /\ UNCHANGED <<link, now, lineVars>>
      BY <2>1, <2>3 DEF Drain
    <3>3. Origin(r)
      BY <2>2, <2>3 DEF Origin
    <3> HIDE DEF r
    <3> QED
      BY <1>1, <2>3, <3>1, <3>2, <3>3
  <2>4. CASE ~ (link # 0 /\ held[l] # <<>>)
    BY <2>1, <2>4 DEF Drain, ConsoleMove
  <2> QED
    BY <2>3, <2>4
<1>4. CASE \E out \in Outcomes : ReleaseDue(out)
  <2>1. PICK out \in Outcomes : ReleaseDue(out)
    BY <1>4
  <2> DEFINE l == task[Wr].line
             n == Due(l)
             r == held[l][n]
  <2>2. l \in Lines /\ held[l] \in Seq(Reports) /\ Is(Wr, "due")
    BY <2>1 DEF ReleaseDue, TaskArgs, TypeOK
  <2>3. n \in 1 .. Len(held[l])
    BY <2>1, <2>2, DueBound DEF ReleaseDue
  <2>4. Transmit(r, TRUE, out) /\ link # 0 /\ UNCHANGED <<link, now, lineVars>>
    BY <2>1 DEF ReleaseDue
  <2>5. n \in DOMAIN held[l]
    BY <2>2, <2>3
  <2>6. Origin(r)
    BY <2>2, <2>5 DEF Origin
  <2> HIDE DEF n
  <2>7. r \in Reports
    BY <2>2, <2>3
  <2> HIDE DEF r
  <2> QED
    BY <1>1, <2>4, <2>6, <2>7
<1>5. CASE \E out \in Outcomes : Resend(out)
  <2>1. PICK out \in Outcomes : Resend(out)
    BY <1>5
  <2>2. tx \in Reports /\ Origin(tx)
    BY <2>1 DEF Resend, TypeOK, Origin
  <2> QED
    BY <1>1, <2>1, <2>2 DEF Resend
<1>6. CASE Attach \/ \E t \in Threads : Detach(t)
  BY <1>6 DEF ConsoleMove
<1>7. CASE \/ Input \/ Reply \/ SetOff \/ SessionEnds \/ Tick \/ PumpRead \/ NothingDue
           \/ ResendSkipped \/ \E d \in Delays : SetDelay(d)
  BY <1>7 DEF Input, Reply, OfferRead, SetOff, SessionEnds, Tick, PumpRead, NothingDue,
              ResendSkipped, SetDelay, ConsoleMove
<1>8. CASE UNCHANGED vars
  BY <1>8 DEF vars, ConsoleMove
<1> QED
  BY <1>2, <1>3, <1>4, <1>5, <1>6, <1>7, <1>8
     DEF Next, DatapathGoesOn, WriterStep, ControlGoesOn, Threads

LEMMA ServingMoves ==
    ASSUME [Next]_vars
    PROVE  UNCHANGED <<serving, link>> \/ Attach \/ \E t \in Threads : Detach(t)
BY DEF Next, Input, Reply, OfferRead, SetOff, SessionEnds, Tick, PumpRead, NothingDue, ResendSkipped, SetDelay, DatapathGoesOn,
       WriterStep, ControlGoesOn, OfferLocked, OfferRefused, OfferHeld, OfferWritten, Drain,
       ReleaseDue, Resend, Threads, vars

-----------------------------------------------------------------------------
(* Nothing is inherited, while sync latency is not switched off.  A thread *)
(* that has read the line has then read the one whose entries attach and   *)
(* detach clear; a line that was taken from the sink is out of their sight.*)

LineStays == "delay" \notin Ops \/ "off" \notin Ops

LineOfSink ==
    /\ "delay" \notin Ops => line = 0
    /\ ~ Is(Dp, "drain")
    /\ \A t \in Threads : Is(t, "offer") \/ Is(t, "due") => task[t].line \in {0, line}

HeldForLink ==
    \A l \in Lines : \A i \in DOMAIN held[l] :
        l = line /\ link # 0 /\ held[l][i].session = link

LinkServed == (serving = 0 => link = 0) /\ (link = 0 => shown = Nothing)

FreshInv == TypeInv /\ LineOfSink /\ HeldForLink /\ LinkServed /\ NothingInherited

LEMMA FreshInit == Init => FreshInv
<1> SUFFICES ASSUME Init PROVE FreshInv
  OBVIOUS
<1>1. TypeInv
  BY Initial
<1>2. \A t \in Threads : task[t].at = "idle"
  BY DEF Init, Rest
<1>3. \A l \in Lines : held[l] = <<>>
  BY DEF Init
<1>4. link = 0 /\ serving = 0 /\ line = 0 /\ shown = Nothing
  BY DEF Init
<1> QED
  BY <1>1, <1>2, <1>3, <1>4, ThreadsDistinct
     DEF FreshInv, LineOfSink, HeldForLink, LinkServed, NothingInherited, Is

LEMMA LineOfSinkStep ==
    ASSUME LineStays, FreshInv, [Next]_vars
    PROVE  LineOfSink' /\ (line' = line \/ (line = 0 /\ UNCHANGED <<held, task>>))
<1>0. TypeInv /\ Dp \in Threads /\ \A t \in Threads : t # Wr => t \in {Dp, Ctl}
  BY ThreadsDistinct DEF FreshInv, Threads
<1>1. LineMove /\ \A t \in Threads : TaskMove(t)
  BY <1>0, LineMoves, TaskMoves
<1>2. /\ line' = line \/ (line = 0 /\ UNCHANGED <<held, task>>)
      /\ ("delay" \notin Ops => line = 0)'
  BY <1>1 DEF LineStays, FreshInv, LineOfSink, LineMove, lineVars
<1>3. (~ Is(Dp, "drain"))'
  <2>1. TaskMove(Dp)
    BY <1>0, <1>1
  <2>2. ~ (line # 0 /\ line' = 0)
    BY <1>2
  <2> QED
    BY <2>1, <2>2 DEF FreshInv, LineOfSink, TaskMove, Is
<1>4. ASSUME NEW t \in Threads, (Is(t, "offer") \/ Is(t, "due"))'
      PROVE  task'[t].line \in {0, line'}
  <2>1. TaskMove(t)
    BY <1>1
  <2>2. CASE line' = line
    BY <1>4, <2>1, <2>2 DEF FreshInv, LineOfSink, TaskMove, Is
  <2>3. CASE line = 0 /\ task' = task
    BY <1>4, <2>3 DEF FreshInv, LineOfSink, Is
  <2> QED
    BY <1>2, <2>2, <2>3
<1> QED
  BY <1>2, <1>3, <1>4 DEF LineOfSink

LEMMA HeldForLinkStep ==
    ASSUME LineStays, FreshInv, [Next]_vars
    PROVE  HeldForLink'
<1>1. TypeInv /\ TypeInv'
  BY TypeStep DEF FreshInv
<1>2. line' = line \/ (line = 0 /\ UNCHANGED <<held, task>>)
  BY LineOfSinkStep
<1>3. CASE held' = Cleared
  <2>1. \A l \in Lines : held'[l] = <<>>
    <3>1. ASSUME NEW l \in Lines, held[l] # <<>> PROVE l = line
      <4>1. held[l] \in Seq(Reports)
        BY <1>1 DEF TypeInv, TypeOK
      <4>2. 1 \in DOMAIN held[l]
        BY <3>1, <4>1
      <4> QED
        BY <4>2 DEF FreshInv, HeldForLink
    <3> QED
      BY <1>1, <1>3, <3>1, Clears DEF TypeInv
  <2> QED
    BY <2>1 DEF HeldForLink
<1>4. CASE link' = link
  <2> SUFFICES ASSUME NEW l \in Lines, NEW i \in DOMAIN held'[l]
               PROVE  l = line' /\ link # 0 /\ held'[l][i].session = link
    BY <1>4 DEF HeldForLink
  <2>1. PICK k \in Nat : Shifted(l, k)
    BY <1>1, HeldShifts
  <2>2. CASE line' # line
    BY <1>2, <2>2, Bounds DEF FreshInv, HeldForLink, Lines
  <2>3. CASE line' = line /\ i + k \in DOMAIN held[l] /\ held'[l][i] = held[l][i + k]
    BY <2>3 DEF FreshInv, HeldForLink
  <2>4. CASE line' = line /\ \E t \in {Dp, Ctl} : Joins(t, l, held'[l][i])
    <3>1. PICK t \in {Dp, Ctl} : Joins(t, l, held'[l][i])
      BY <2>4
    <3>2. /\ held'[l][i].session = link /\ task[t].line # 0 /\ task[t].line = l
          /\ Is(t, "offer") /\ link # 0 /\ t \in Threads
      BY <3>1 DEF Joins, OfferHeld, NewReport, Threads
    <3> QED
      BY <2>4, <3>2 DEF FreshInv, LineOfSink
  <2> QED
    BY <2>1, <2>2, <2>3, <2>4 DEF Shifted
<1>5. link' = link \/ held' = Cleared
  BY ServingMoves DEF Attach, Detach
<1> QED
  BY <1>3, <1>4, <1>5

LEMMA ConsoleFreshStep ==
    ASSUME LineStays, FreshInv, [Next]_vars
    PROVE  LinkServed' /\ NothingInherited'
<1>1. TypeInv /\ ConsoleMove
  BY ConsoleMoves DEF FreshInv
<1>2. CASE Attach
  <2>1. serving = 0 /\ link' # 0 /\ serving' # 0 /\ tx' = Nothing /\ shown' = shown
    BY <1>1, <1>2 DEF Attach, TypeInv, TypeOK
  <2> QED
    BY <2>1 DEF FreshInv, LinkServed, NothingInherited
<1>3. CASE \E t \in Threads : Detach(t)
  BY <1>3 DEF Detach, LinkServed, NothingInherited
<1>4. CASE UNCHANGED <<tx, shown, given, link>> /\ UNCHANGED serving
  BY <1>4 DEF FreshInv, LinkServed, NothingInherited
<1>5. CASE (\E r \in Reports : Writes(r)) /\ UNCHANGED serving
  <2>1. PICK r \in Reports : Writes(r)
    BY <1>5
  <2>2. CASE r.session = link
    BY <1>5, <2>1, <2>2 DEF Writes, FreshInv, LinkServed, NothingInherited
  <2>3. Origin(r) /\ link # 0
    BY <2>1 DEF Writes
  <2>4. CASE r = tx
    <3>1. tx # Nothing => tx.session = link
      BY <2>3 DEF FreshInv, NothingInherited
    <3>2. CASE tx = Nothing
      BY <1>5, <2>1, <2>4, <3>2 DEF Writes, FreshInv, LinkServed, NothingInherited
    <3> QED
      BY <2>2, <2>4, <3>1, <3>2
  <2>5. CASE \E t \in {Dp, Ctl} : r = NewReport(t)
    BY <2>2, <2>5 DEF NewReport
  <2>6. CASE Is(Wr, "due") /\ \E l \in Lines : Due(l) \in DOMAIN held[l] /\ r = held[l][Due(l)]
    BY <2>2, <2>6 DEF FreshInv, HeldForLink
  <2>7. ~ Is(Dp, "drain")
    BY DEF FreshInv, LineOfSink
  <2> QED
    BY <2>3, <2>4, <2>5, <2>6, <2>7 DEF Origin
<1> QED
  BY <1>1, <1>2, <1>3, <1>4, <1>5, ServingMoves DEF ConsoleMove

\* A console is never given a report that was accepted for an earlier one, as
\* long as no delay line is taken from the sink between two connections
\* (L2CAPSink.attach and detach).
THEOREM ConsoleStartsFresh ==
    ASSUME LineStays
    PROVE  Spec => []NothingInherited
<1>1. FreshInv /\ [Next]_vars => FreshInv'
  BY TypeStep, LineOfSinkStep, HeldForLinkStep, ConsoleFreshStep DEF FreshInv
<1>2. FreshInv => NothingInherited
  BY DEF FreshInv
<1> QED
  BY <1>1, <1>2, FreshInit, PTL DEF Spec

-----------------------------------------------------------------------------
(* No held state is early.  The reports of a line are in the order of      *)
(* their times, so that the newest of n that are due is the n-th; and what *)
(* left a line early, when it was taken from the sink, is not a report of  *)
(* the line the sink has since, because lines are not used twice.          *)

LEMMA LeastNumber ==
    ASSUME NEW S \in SUBSET Nat, S # {}
    PROVE  \E n \in S : \A m \in S : n <= m
<1> DEFINE R == StrictSubsetOrdering(Nat)
           F == FiniteSubsetsOf(Nat)
           T == {0 .. n : n \in S}
<1>1. IsWellFoundedOn(R, F)
  BY FS_StrictSubsetOrderingWellFounded
<1>2. T \subseteq F /\ T # {}
  <2>1. \A n \in S : IsFiniteSet(0 .. n) /\ 0 .. n \subseteq Nat
    BY FS_Interval
  <2> QED
    BY <2>1 DEF FiniteSubsetsOf
<1>3. \E I \in T : \A J \in T : ~ (<<J, I>> \in R)
  <2> HIDE DEF R, F, T
  <2> QED
    BY <1>1, <1>2, WFMin
<1>4. PICK n \in S : \A J \in T : ~ (<<J, 0 .. n>> \in R)
  BY <1>3
<1>5. ASSUME NEW m \in S, m < n PROVE FALSE
  <2>1. 0 .. m \in T /\ 0 .. m \subseteq Nat /\ 0 .. n \subseteq Nat
    OBVIOUS
  <2>2. 0 .. m \subseteq 0 .. n /\ n \in 0 .. n /\ n \notin 0 .. m
    BY <1>5
  <2>3. <<0 .. m, 0 .. n>> \in R
    BY <2>1, <2>2 DEF StrictSubsetOrdering
  <2> QED
    BY <1>4, <2>1, <2>3
<1> QED
  BY <1>5

LEMMA ShortestDelay == Min(Delays) \in Nat /\ \A d \in Delays : Min(Delays) <= d
<1>1. Delays \in SUBSET Nat /\ Delays # {}
  BY SinkAssumption
<1>2. \E n \in Delays : \A m \in Delays : n <= m
  BY <1>1, LeastNumber
<1> QED
  BY <1>1, <1>2 DEF Min

InOrder(s) == \A i \in DOMAIN s, j \in DOMAIN s : i <= j => s[i].at <= s[j].at

\* Of as many as are due, in order, the last is due.
LEMMA DueIsDue ==
    ASSUME TypeOK, NEW l \in Lines, InOrder(held[l]), Due(l) \in DOMAIN held[l]
    PROVE  held[l][Due(l)].at + delay[l] <= now
<1> DEFINE s == held[l]
           n == Due(l)
           D == {i \in DOMAIN s : s[i].at + delay[l] <= now}
<1>1. s \in Seq(Reports) /\ DOMAIN s = 1 .. Len(s) /\ Len(s) \in Nat
      /\ delay[l] \in Nat /\ now \in Nat
  BY DEF TypeOK
<1>2. \A i \in DOMAIN s : s[i].at \in Nat
  <2>1. \A i \in DOMAIN s : s[i] \in Reports
    BY <1>1
  <2> QED
    BY <2>1 DEF Reports
<1>3. n = Cardinality(D) /\ n \in DOMAIN s
  BY DEF Due
<1>4. SUFFICES ASSUME n \notin D PROVE FALSE
  BY <1>3
<1> HIDE DEF s, n
<1>5. \A j \in D : j < n
  <2> SUFFICES ASSUME NEW j \in D, n <= j PROVE FALSE
    BY <1>1, <1>3
  <2>1. s[n].at <= s[j].at
    BY <1>3 DEF InOrder, s
  <2>2. s[j].at + delay[l] <= now
    OBVIOUS
  <2>3. s[n].at + delay[l] <= now
    BY <1>1, <1>2, <1>3, <2>1, <2>2
  <2> QED
    BY <1>3, <1>4, <2>3
<1>6. n \in Nat /\ n >= 1
  BY <1>1, <1>3
<1>7. D \subseteq 1 .. n - 1
  BY <1>1, <1>5, <1>6
<1>8. IsFiniteSet(1 .. n - 1) /\ Cardinality(1 .. n - 1) = n - 1
  <2>1. /\ IsFiniteSet(1 .. n - 1)
        /\ Cardinality(1 .. n - 1) = IF 1 > n - 1 THEN 0 ELSE n - 1 - 1 + 1
    BY <1>6, FS_Interval
  <2> QED
    BY <1>6, <2>1
<1>9. Cardinality(D) <= n - 1
  BY <1>7, <1>8, FS_Subset
<1> QED
  BY <1>3, <1>6, <1>9

DelaysAsked == \A l \in 1 .. lines : delay[l] \in Delays

TasksOfLines ==
    /\ Is(Dp, "drain") => line = 0
    /\ \A t \in {Dp, Ctl} : Is(t, "offer") => task[t].line <= lines

HeldInOrder ==
    \A l \in Lines :
        /\ \A i \in DOMAIN held[l] : held[l][i].via = l /\ l <= lines /\ held[l][i].at <= now
        /\ InOrder(held[l])

SentIsDue ==
    tx # Nothing => /\ tx.via <= lines
                    /\ line # 0 /\ tx.via = line => tx.at + Min(Delays) <= now

DelayInv == TypeInv /\ DelaysAsked /\ TasksOfLines /\ HeldInOrder /\ SentIsDue

LEMMA DelayInit == Init => DelayInv
<1> SUFFICES ASSUME Init PROVE DelayInv
  OBVIOUS
<1>1. TypeInv
  BY Initial
<1>2. \A t \in Threads : task[t].at = "idle"
  BY DEF Init, Rest
<1>3. \A l \in Lines : held[l] = <<>>
  BY DEF Init
<1>4. lines = 0 /\ tx = Nothing
  BY DEF Init
<1>5. TasksOfLines
  BY <1>2, ThreadsDistinct DEF TasksOfLines, Is
<1>6. HeldInOrder
  BY <1>3 DEF HeldInOrder, InOrder
<1> QED
  BY <1>1, <1>4, <1>5, <1>6 DEF DelayInv, DelaysAsked, SentIsDue

\* Time passes and lines are made.
LEMMA OnlyGrow ==
    ASSUME TypeInv, [Next]_vars
    PROVE  now <= now' /\ lines <= lines'
<1>1. now \in Nat /\ lines \in Nat
  BY Bounds DEF TypeInv, TypeOK
<1>2. LineMove
  BY LineMoves
<1>3. lines' \in {lines, lines + 1}
  BY <1>2 DEF LineMove, lineVars
<1>4. now' \in {now, now + 1}
  BY DEF Next, Input, Reply, OfferRead, SetOff, Attach, SessionEnds, Tick, PumpRead, NothingDue, ResendSkipped, SetDelay, Detach,
         DatapathGoesOn, WriterStep, ControlGoesOn, OfferLocked, OfferRefused, OfferHeld,
         OfferWritten, Drain, ReleaseDue, Resend, Threads, vars
<1> QED
  BY <1>1, <1>3, <1>4

LEMMA DelaysAskedStep == DelayInv /\ [Next]_vars => DelaysAsked'
<1> SUFFICES ASSUME DelayInv, [Next]_vars, NEW l \in 1 .. lines' PROVE delay'[l] \in Delays
  BY DEF DelaysAsked
<1>1. LineMove
  BY LineMoves DEF DelayInv
<1>2. /\ delay \in [Lines -> Nat] /\ lines \in 0 .. MaxLines /\ line \in 0 .. lines
      /\ \A m \in 1 .. lines : delay[m] \in Delays /\ m \in Lines
  BY Bounds DEF DelayInv, TypeInv, TypeOK, DelaysAsked, Lines
<1>3. CASE UNCHANGED <<lines, delay>>
  BY <1>2, <1>3
<1>4. CASE lines' = lines /\ \E d \in Delays : delay' = [delay EXCEPT ![line] = d]
  BY <1>2, <1>4
<1>5. CASE lines' = lines + 1 /\ lines' \in Lines /\ \E d \in Delays : delay' = [delay EXCEPT ![lines'] = d]
  <2>1. l \in 1 .. lines \/ l = lines'
    BY <1>2, <1>5, Bounds
  <2> QED
    BY <1>2, <1>5, <2>1
<1> QED
  BY <1>1, <1>3, <1>4, <1>5 DEF LineMove, lineVars

LEMMA TasksOfLinesStep == DelayInv /\ [Next]_vars => TasksOfLines'
<1> SUFFICES ASSUME DelayInv, [Next]_vars PROVE TasksOfLines'
  OBVIOUS
<1>1. LineMove /\ TaskMove(Dp) /\ TaskMove(Ctl)
  BY LineMoves, TaskMoves, ThreadsDistinct DEF DelayInv
<1>2. lines <= lines' /\ lines \in Nat /\ line <= lines /\ lines' \in Nat
  BY OnlyGrow, TypeStep, Bounds DEF DelayInv, TypeInv, TypeOK
<1>3. (Is(Dp, "drain") => line = 0)'
  BY <1>1, ThreadsDistinct DEF DelayInv, TasksOfLines, LineMove, TaskMove, Is, lineVars
<1>4. ASSUME NEW t \in {Dp, Ctl}, Is(t, "offer")' PROVE task'[t].line <= lines'
  <2>1. task[t] \in Tasks /\ task[t].line \in Nat
    BY ThreadsDistinct DEF DelayInv, TypeInv, TypeOK, Tasks
  <2>2. CASE task'[t] = task[t]
    BY <1>2, <1>4, <2>1, <2>2 DEF DelayInv, TasksOfLines, Is
  <2>3. CASE task'[t] # task[t]
    <3>1. task'[t].line = line /\ lines' = lines
      BY <1>1, <1>4, <2>3 DEF TaskMove, Is
    <3> QED
      BY <1>2, <3>1
  <2> QED
    BY <2>2, <2>3
<1> QED
  BY <1>3, <1>4 DEF TasksOfLines

LEMMA HeldInOrderStep == DelayInv /\ [Next]_vars => HeldInOrder'
<1> SUFFICES ASSUME DelayInv, [Next]_vars, NEW l \in Lines
             PROVE  /\ \A i \in DOMAIN held'[l] : /\ held'[l][i].via = l /\ l <= lines'
                                                  /\ held'[l][i].at <= now'
                    /\ InOrder(held'[l])
  BY DEF HeldInOrder
<1>1. /\ TypeInv /\ TypeInv' /\ now <= now' /\ lines <= lines'
      /\ now \in Nat /\ lines \in Nat /\ now' \in Nat /\ lines' \in Nat /\ l \in Nat
  BY TypeStep, OnlyGrow, Bounds DEF DelayInv, TypeInv, TypeOK, Lines
<1>2. PICK k \in Nat : Shifted(l, k)
  BY <1>1, HeldShifts
<1> DEFINE s == held[l]
           q == held'[l]
           Old(i) == i + k \in DOMAIN s /\ q[i] = s[i + k]
           New(i) == i = Len(q) /\ \E t \in {Dp, Ctl} : Joins(t, l, q[i])
<1>3. \A i \in DOMAIN q : Old(i) \/ New(i)
  BY <1>2 DEF Shifted
<1>4. s \in Seq(Reports) /\ q \in Seq(Reports) /\ DOMAIN q = 1 .. Len(q)
      /\ (\A i \in DOMAIN s : s[i].at \in Nat)
  <2>1. s \in Seq(Reports) /\ q \in Seq(Reports)
    BY <1>1 DEF TypeInv, TypeOK
  <2>2. \A i \in DOMAIN s : s[i] \in Reports
    BY <2>1
  <2> QED
    BY <2>1, <2>2 DEF Reports
<1>5. \A i \in DOMAIN q : Old(i) => q[i].via = l /\ l <= lines /\ q[i].at <= now /\ q[i].at \in Nat
  BY <1>4 DEF DelayInv, HeldInOrder
<1>6. \A i \in DOMAIN q : New(i) => q[i].via = l /\ l <= lines /\ q[i].at = now
  <2> SUFFICES ASSUME NEW i \in DOMAIN q, New(i)
               PROVE  q[i].via = l /\ l <= lines /\ q[i].at = now
    OBVIOUS
  <2>1. PICK t \in {Dp, Ctl} : Joins(t, l, q[i])
    OBVIOUS
  <2>2. Is(t, "offer") /\ task[t].line = l /\ q[i].via = task[t].line /\ q[i].at = now
    BY <2>1 DEF Joins, OfferHeld, NewReport
  <2> QED
    BY <2>2 DEF DelayInv, TasksOfLines
<1> HIDE DEF q
<1>7. \A i \in DOMAIN q : q[i].via = l /\ l <= lines' /\ q[i].at <= now'
  BY <1>1, <1>3, <1>5, <1>6
<1>8. InOrder(q)
  <2> SUFFICES ASSUME NEW i \in DOMAIN q, NEW j \in DOMAIN q, i <= j
               PROVE  q[i].at <= q[j].at
    BY DEF InOrder
  <2>1. CASE Old(i) /\ Old(j)
    <3>1. i + k <= j + k
      BY <1>4
    <3>2. s[i + k].at <= s[j + k].at
      BY <2>1, <3>1 DEF DelayInv, HeldInOrder, InOrder
    <3> QED
      BY <2>1, <3>2
  <2>2. CASE Old(i) /\ New(j)
    BY <1>1, <1>5, <1>6, <2>2
  <2>3. CASE New(i)
    <3>1. i = j
      BY <1>4, <2>3
    <3> QED
      BY <1>1, <1>6, <2>3, <3>1
  <2> QED
    BY <1>3, <2>1, <2>2, <2>3
<1> QED
  BY <1>7, <1>8 DEF q

LEMMA SentIsDueStep == DelayInv /\ [Next]_vars => SentIsDue'
<1> SUFFICES ASSUME DelayInv, [Next]_vars, tx' # Nothing
             PROVE  /\ tx'.via <= lines'
                    /\ line' # 0 /\ tx'.via = line' => tx'.at + Min(Delays) <= now'
  BY DEF SentIsDue
<1>1. /\ TypeInv /\ TypeInv' /\ now <= now' /\ lines <= lines' /\ LineMove /\ ConsoleMove
      /\ now \in Nat /\ lines \in Nat /\ now' \in Nat /\ lines' \in Nat /\ Min(Delays) \in Nat
  BY TypeStep, OnlyGrow, LineMoves, ConsoleMoves, ShortestDelay, Bounds
     DEF DelayInv, TypeInv, TypeOK
<1>2. CASE tx' = tx
  <2>1. /\ tx.via \in Nat /\ tx.at \in Nat /\ tx.via <= lines
        /\ line # 0 /\ tx.via = line => tx.at + Min(Delays) <= now
    BY <1>2 DEF DelayInv, TypeInv, TypeOK, Reports, SentIsDue
  <2>2. line' = line \/ line' = lines + 1 \/ line' = 0
    BY <1>1 DEF LineMove, lineVars
  <2>3. tx'.via <= lines'
    BY <1>1, <1>2, <2>1
  <2>4. ASSUME line' # 0, tx'.via = line' PROVE tx'.at + Min(Delays) <= now'
    <3>1. line' = line
      BY <1>1, <1>2, <2>1, <2>2, <2>4
    <3>2. tx.at + Min(Delays) <= now
      BY <1>2, <2>1, <2>4, <3>1
    <3> QED
      BY <1>1, <1>2, <2>1, <3>2
  <2> QED
    BY <2>3, <2>4
<1>3. CASE \E r \in Reports : Writes(r)
  <2>1. PICK r \in Reports : Writes(r)
    BY <1>3
  <2>2. tx' = r /\ UNCHANGED <<now, line, lines>> /\ Origin(r) /\ r.via \in Nat /\ r.at \in Nat
    BY <2>1 DEF Writes, lineVars, Reports
  <2>3. CASE r = tx
    BY <1>2, <2>2, <2>3
  <2>4. CASE \E t \in {Dp, Ctl} : Is(t, "offer") /\ task[t].line = 0 /\ r = NewReport(t)
    <3>1. r.via = 0
      BY <2>4 DEF NewReport
    <3> QED
      BY <1>1, <2>2, <3>1
  <2>5. CASE Is(Dp, "drain") /\ \E l \in Lines : /\ l = task[Dp].line /\ held[l] # <<>>
                                                 /\ r = held[l][Len(held[l])]
    <3>1. PICK l \in Lines : held[l] # <<>> /\ r = held[l][Len(held[l])]
      BY <2>5
    <3>2. held[l] \in Seq(Reports)
      BY <1>1 DEF TypeInv, TypeOK
    <3>3. Len(held[l]) \in DOMAIN held[l]
      BY <3>1, <3>2
    <3>4. r.via = l /\ l <= lines
      BY <3>1, <3>3 DEF DelayInv, HeldInOrder
    <3>5. line = 0
      BY <2>5 DEF DelayInv, TasksOfLines
    <3> QED
      BY <2>2, <3>4, <3>5
  <2>6. CASE \E l \in Lines : Due(l) \in DOMAIN held[l] /\ r = held[l][Due(l)]
    <3>1. PICK l \in Lines : Due(l) \in DOMAIN held[l] /\ r = held[l][Due(l)]
      BY <2>6
    <3>2. r.via = l /\ l <= lines /\ InOrder(held[l])
      BY <3>1 DEF DelayInv, HeldInOrder
    <3>3. r.at + delay[l] <= now
      BY <1>1, <3>1, <3>2, DueIsDue DEF TypeInv
    <3>4. delay[l] \in Delays /\ delay[l] \in Nat /\ Min(Delays) <= delay[l]
      <4>1. l \in 1 .. lines
        BY <1>1, <3>2, Bounds DEF Lines
      <4> QED
        BY <4>1, ShortestDelay, Bounds DEF DelayInv, DelaysAsked
    <3>5. r.at + Min(Delays) <= now
      BY <1>1, <2>2, <3>3, <3>4
    <3> QED
      BY <2>2, <3>2, <3>5
  <2> QED
    BY <2>2, <2>3, <2>4, <2>5, <2>6 DEF Origin
<1>4. CASE Attach
  BY <1>4 DEF Attach
<1>5. CASE \E t \in Threads : Detach(t)
  <2>1. tx' = tx
    BY <1>5 DEF Detach
  <2> QED
    BY <1>2, <2>1
<1> QED
  BY <1>1, <1>2, <1>3, <1>4, <1>5 DEF ConsoleMove

\* While one delay line stays in the sink, no report held in it reaches the
\* console before the shortest delay sync latency may ask for has passed: not
\* by a keepalive, not by the second thread, not through a line it replaced
\* (DelayLine.take_due_into, L2CAPSink._pump).
THEOREM DelayHonoured == Spec => HeldForDelay
<1> DEFINE Early == [shown' # shown /\ shown' # Nothing /\ line # 0 /\ line' = line /\ shown'.via = line
                       => shown'.at + Min(Delays) <= now]_vars
<1>1. DelayInv /\ [Next]_vars => DelayInv'
  BY TypeStep, DelaysAskedStep, TasksOfLinesStep, HeldInOrderStep, SentIsDueStep DEF DelayInv
<1>2. DelayInv /\ [Next]_vars => Early
  <2> SUFFICES ASSUME DelayInv, [Next]_vars,
                      shown' # shown, shown' # Nothing, line # 0, line' = line, shown'.via = line
               PROVE  shown'.at + Min(Delays) <= now
    OBVIOUS
  <2>1. ConsoleMove /\ SentIsDue'
    BY ConsoleMoves, SentIsDueStep DEF DelayInv
  <2>2. PICK r \in Reports : Writes(r)
    BY <2>1 DEF ConsoleMove, Attach, Detach
  <2>3. shown' = r /\ tx' = r /\ now' = now
    BY <2>2 DEF Writes
  <2> QED
    BY <2>1, <2>3 DEF SentIsDue
<1> QED
  BY <1>1, <1>2, DelayInit, PTL DEF Spec, HeldForDelay

-----------------------------------------------------------------------------
(* The sink implements a register of the newest state.  Reports are in the *)
(* order of their numbers everywhere: what is held is newer than _tx, and  *)
(* _tx is not older than what the console has.  This takes the facts of    *)
(* KeptInv: two lines with reports in them could be released in any order. *)

Reg == <<offered, given>>

Numbered(s) == \A i \in DOMAIN s, j \in DOMAIN s : i < j => s[i].n < s[j].n

SentInOrder ==
    /\ given <= offered
    /\ tx # Nothing => tx.n \in given .. offered /\ tx.kind # "reply"

\* The entries of l come after number n.
After(l, n) == /\ Numbered(held[l])
               /\ \A i \in DOMAIN held[l] : /\ held[l][i].kind # "reply"
                                            /\ held[l][i].n \in n + 1 .. offered

HeldIsNewer == \A l \in Lines : After(l, given) /\ (tx # Nothing => After(l, tx.n))

OrderInv == KeptInv /\ SentInOrder /\ HeldIsNewer

Forward == SentInOrder' /\ HeldIsNewer' /\ [Register!Next]_Reg

LEMMA OrderInit == Init => OrderInv /\ Register!Init
<1> SUFFICES ASSUME Init PROVE OrderInv /\ Register!Init
  OBVIOUS
<1>1. KeptInv
  BY KeptInit
<1>2. \A l \in Lines : held[l] = <<>>
  BY DEF Init
<1>3. given = 0 /\ offered = 0 /\ tx = Nothing
  BY DEF Init
<1> QED
  BY <1>1, <1>2, <1>3 DEF OrderInv, SentInOrder, HeldIsNewer, After, Numbered, Register!Init

LEMMA OrderTypes ==
    ASSUME OrderInv
    PROVE  /\ TypeInv /\ given \in Nat /\ offered \in Nat /\ held \in [Lines -> Seq(Reports)]
           /\ \A l \in Lines : \A i \in DOMAIN held[l] : /\ held[l][i] \in Reports
                                                         /\ held[l][i].n \in Nat
           /\ tx # Nothing => tx \in Reports /\ tx.n \in Nat
<1>1. TypeInv
  BY DEF OrderInv, KeptInv
<1>2. given \in Nat /\ offered \in Nat /\ held \in [Lines -> Seq(Reports)]
      /\ (tx # Nothing => tx \in Reports)
  BY <1>1 DEF TypeInv, TypeOK
<1>3. \A l \in Lines : \A i \in DOMAIN held[l] : held[l][i] \in Reports
  BY <1>2
<1> QED
  BY <1>1, <1>2, <1>3 DEF Reports

\* Steps that put nothing into a line and write nothing.
LEMMA ForwardIfQuiet ==
    ASSUME OrderInv, \A l \in Lines : held'[l] \in {held[l], <<>>}, offered' = offered,
           tx' \in {tx, Nothing}, given' \in {given, 0}
    PROVE  Forward
<1>1. given \in Nat /\ offered \in Nat /\ (tx # Nothing => tx.n \in Nat)
  BY OrderTypes
<1>2. SentInOrder'
  BY <1>1 DEF OrderInv, SentInOrder
<1>3. ASSUME NEW l \in Lines, NEW n \in Nat, NEW m \in Nat, m <= n, After(l, n)
      PROVE  After(l, m)'
  <2>1. CASE held'[l] = <<>>
    BY <2>1 DEF After, Numbered
  <2>2. CASE held'[l] = held[l]
    <3>1. n + 1 .. offered \subseteq m + 1 .. offered
      BY <1>1, <1>3
    <3> QED
      BY <1>3, <2>2, <3>1 DEF After, Numbered
  <2> QED
    BY <2>1, <2>2
<1>4. HeldIsNewer'
  <2>1. \A l \in Lines : After(l, given) /\ (tx # Nothing => After(l, tx.n))
    BY DEF OrderInv, HeldIsNewer
  <2>2. PICK g \in Nat : g = given' /\ g <= given
    BY <1>1
  <2>3. \A l \in Lines : After(l, g)'
    BY <1>1, <1>3, <2>1, <2>2
  <2>4. ASSUME NEW l \in Lines, tx # Nothing
        PROVE  \E n \in Nat : n = tx.n /\ After(l, n)'
    BY <1>1, <1>3, <2>1, <2>4
  <2> QED
    BY <2>2, <2>3, <2>4 DEF HeldIsNewer, After
<1>5. [Register!Next]_Reg
  BY DEF Register!Next, Register!Reset, Reg
<1> QED
  BY <1>2, <1>4, <1>5 DEF Forward

\* A write of a report r that is not older than what the console has, while
\* what stays held is newer.
LEMMA ForwardIfWritten ==
    ASSUME OrderInv, NEW r \in Reports, r.kind # "reply", NEW d, NEW out, Transmit(r, d, out),
           r.n \in given .. offered',
           \/ offered' = offered
           \/ offered' = offered + 1 /\ r.n = offered',
           \A l \in Lines : After(l, r.n)'
    PROVE  Forward
<1>1. given \in Nat /\ offered \in Nat /\ offered' \in Nat /\ r.n \in Nat /\ given <= r.n /\ r.n <= offered'
  BY OrderTypes DEF Reports
<1>2. tx' = r /\ (given' = given \/ given' = r.n)
  BY DEF Transmit
<1>3. given' \in Nat /\ given' <= r.n
  BY <1>1, <1>2
<1>4. SentInOrder'
  BY <1>1, <1>2, <1>3 DEF SentInOrder
<1>5. HeldIsNewer'
  <2>1. r.n + 1 .. offered' \subseteq given' + 1 .. offered'
    BY <1>1, <1>3
  <2>2. PICK g \in Nat : g = given'
    BY <1>3
  <2>3. \A l \in Lines : After(l, g)'
    BY <2>1, <2>2 DEF After
  <2> QED
    BY <1>2, <2>2, <2>3 DEF HeldIsNewer, After
<1>6. [Register!Next]_Reg
  <2>1. CASE offered' = offered /\ given' = given
    BY <2>1 DEF Reg
  <2>2. CASE offered' = offered /\ given' = r.n /\ given' # given
    BY <1>1, <2>2 DEF Register!Next, Register!Give
  <2>3. CASE offered' = offered + 1 /\ r.n = offered'
    BY <1>2, <2>3 DEF Register!Next, Register!Offer, Register!OfferAndGive
  <2> QED
    BY <1>2, <2>1, <2>2, <2>3
<1> QED
  BY <1>4, <1>5, <1>6 DEF Forward

LEMMA ForwardByOffer ==
    ASSUME NoReplies, OrderInv, TypeInv', OfferLocked(Dp)
    PROVE  Forward
<1>1. /\ TypeInv /\ given \in Nat /\ offered \in Nat /\ given <= offered
      /\ (tx # Nothing => tx.n \in Nat /\ tx.n <= offered)
  BY OrderTypes DEF OrderInv, SentInOrder
<1>2. CASE OfferRefused(Dp)
  <2>1. held' = held /\ offered' = offered /\ tx' = tx /\ given' = given
    BY <1>2 DEF OfferRefused
  <2> QED
    BY <2>1, ForwardIfQuiet
<1> DEFINE r == NewReport(Dp)
<1>3. Is(Dp, "offer") => /\ r \in Reports /\ r.n = offered + 1 /\ r.kind # "reply"
                         /\ task[Dp].line = line
  BY <1>1, Reported, ThreadsDistinct DEF NewReport, OrderInv, KeptInv, DatapathHolds
<1>4. CASE OfferHeld(Dp)
  <2>1. /\ offered' = offered + 1 /\ tx' = tx /\ given' = given /\ Is(Dp, "offer")
    BY <1>4 DEF OfferHeld, Accept, NewReport
  <2>2. ASSUME NEW l \in Lines, NEW n \in Nat, n <= offered, After(l, n)
        PROVE  After(l, n)'
    <3> DEFINE s == held[l]
               q == held'[l]
    <3>1. PICK k \in Nat : Shifted(l, k)
      BY <1>1, <1>4, ShiftedByOffer
    <3>2. ASSUME NEW t \in {Dp, Ctl}, NEW e, Joins(t, l, e) PROVE e = r
      <4>1. t = Dp
        BY <3>2 DEF Joins, OfferHeld, OrderInv, KeptInv, Is
      <4> QED
        BY <3>2, <4>1 DEF Joins
    <3> HIDE DEF r
    <3>3. \A i \in DOMAIN q : \/ i + k \in DOMAIN s /\ q[i] = s[i + k]
                              \/ i = Len(q) /\ q[i] = r
      BY <3>1, <3>2 DEF Shifted
    <3>4. /\ s \in Seq(Reports) /\ q \in Seq(Reports) /\ DOMAIN q = 1 .. Len(q) /\ DOMAIN s = 1 .. Len(s)
          /\ \A i \in DOMAIN s : s[i].n \in Nat /\ s[i].n \in n + 1 .. offered /\ s[i].kind # "reply"
      <4>1. s \in Seq(Reports) /\ q \in Seq(Reports)
        BY <1>1 DEF TypeInv, TypeOK
      <4>2. \A i \in DOMAIN s : s[i].n \in Nat
        BY OrderTypes
      <4> QED
        BY <2>2, <4>1, <4>2 DEF After
    <3>5. Numbered(s)
      BY <2>2 DEF After
    <3> HIDE DEF s, q
    <3>6. \A i \in DOMAIN q : q[i].kind # "reply" /\ q[i].n \in n + 1 .. offered'
      BY <1>1, <1>3, <2>1, <2>2, <3>3, <3>4
    <3>7. Numbered(q)
      <4> SUFFICES ASSUME NEW i \in DOMAIN q, NEW j \in DOMAIN q, i < j PROVE q[i].n < q[j].n
        BY DEF Numbered
      <4>1. i # Len(q) /\ i + k < j + k
        BY <3>4
      <4>2. i + k \in DOMAIN s /\ q[i] = s[i + k]
        BY <3>3, <4>1
      <4>3. CASE j + k \in DOMAIN s /\ q[j] = s[j + k]
        BY <3>5, <4>1, <4>2, <4>3 DEF Numbered
      <4>4. CASE q[j] = r
        BY <1>1, <1>3, <2>1, <3>4, <4>2, <4>4
      <4> QED
        BY <3>3, <4>3, <4>4
    <3> QED
      BY <3>6, <3>7 DEF After, q
  <2>3. HeldIsNewer'
    <3>1. ASSUME NEW l \in Lines
          PROVE  /\ \E g \in Nat : g = given /\ After(l, g)'
                 /\ tx # Nothing => \E n \in Nat : n = tx.n /\ After(l, n)'
      BY <1>1, <2>2 DEF OrderInv, HeldIsNewer
    <3> QED
      BY <2>1, <3>1 DEF HeldIsNewer, After
  <2>4. SentInOrder'
    BY <1>1, <2>1 DEF OrderInv, SentInOrder
  <2>5. [Register!Next]_Reg
    BY <2>1 DEF Register!Next, Register!Offer
  <2> QED
    BY <2>3, <2>4, <2>5 DEF Forward
<1>5. CASE \E out \in Outcomes : OfferWritten(Dp, out)
  <2>1. PICK out \in Outcomes : OfferWritten(Dp, out)
    BY <1>5
  <2>2. /\ Is(Dp, "offer") /\ line = 0 /\ offered' = offered + 1 /\ held' = held
        /\ Transmit(r, TRUE, out)
    BY <1>3, <2>1 DEF OfferWritten, Accept, NewReport
  <2>3. \A l \in Lines : held'[l] = <<>>
    BY <2>2, Bounds DEF OrderInv, KeptInv, OneLine, Is, Lines
  <2>4. r.n \in given .. offered' /\ r.n = offered'
    BY <1>1, <1>3, <2>2
  <2> HIDE DEF r
  <2>5. PICK w \in Reports : w = r
    BY <1>3, <2>2
  <2>6. \A l \in Lines : After(l, w.n)'
    BY <2>3 DEF After, Numbered
  <2> QED
    BY <1>3, <2>2, <2>4, <2>5, <2>6, ForwardIfWritten
<1> QED
  BY <1>2, <1>4, <1>5 DEF OfferLocked

LEMMA ForwardByDrain ==
    ASSUME OrderInv, TypeInv', NEW out \in Outcomes, Drain(out)
    PROVE  Forward
<1> DEFINE l == task[Dp].line
           r == held[l][Len(held[l])]
<1>1. /\ TypeInv /\ held \in [Lines -> Seq(Reports)] /\ given \in Nat /\ offered \in Nat
      /\ line = 0 /\ l \in Lines /\ Is(Dp, "drain")
      /\ held' = [held EXCEPT ![l] = <<>>] /\ offered' = offered
  BY OrderTypes DEF Drain, OrderInv, KeptInv, DatapathHolds, TypeInv, TaskArgs
<1>2. \A m \in Lines : held'[m] = <<>>
  <2>1. \A m \in Lines : held[m] # <<>> => m = l
    BY <1>1, Bounds DEF OrderInv, KeptInv, OneLine, Lines
  <2> QED
    BY <1>1, <2>1
<1>3. CASE link # 0 /\ held[l] # <<>>
  <2>1. Len(held[l]) \in DOMAIN held[l]
    BY <1>1, <1>3
  <2>2. r \in Reports /\ r.n \in Nat
    BY <1>1, <2>1, OrderTypes
  <2>3. r.kind # "reply" /\ r.n \in given + 1 .. offered
    BY <1>1, <2>1 DEF OrderInv, HeldIsNewer, After
  <2>4. Transmit(r, TRUE, out)
    BY <1>3 DEF Drain
  <2> HIDE DEF r
  <2>5. r.n \in given .. offered'
    BY <1>1, <2>2, <2>3
  <2>6. PICK w \in Reports : w = r
    BY <2>2
  <2>7. \A m \in Lines : After(m, w.n)'
    BY <1>2 DEF After, Numbered
  <2> QED
    BY <1>1, <2>3, <2>4, <2>5, <2>6, <2>7, ForwardIfWritten
<1>4. CASE ~ (link # 0 /\ held[l] # <<>>)
  <2>1. tx' = tx /\ given' = given
    BY <1>4 DEF Drain
  <2> QED
    BY <1>1, <1>2, <2>1, ForwardIfQuiet
<1> QED
  BY <1>3, <1>4

LEMMA ForwardByRelease ==
    ASSUME OrderInv, TypeInv', NEW out \in Outcomes, ReleaseDue(out)
    PROVE  Forward
<1> DEFINE l == task[Wr].line
           n == Due(l)
           s == held[l]
           rest == SubSeq(s, n + 1, Len(s))
           r == s[n]
<1>1. /\ TypeInv /\ held \in [Lines -> Seq(Reports)] /\ given \in Nat /\ offered \in Nat
      /\ l \in Lines /\ s \in Seq(Reports)
  BY OrderTypes DEF ReleaseDue, TypeInv, TaskArgs
<1>2. n \in 1 .. Len(s) /\ Len(s) \in Nat /\ DOMAIN s = 1 .. Len(s) /\ s # <<>>
  <2>1. n \in 1 .. Len(s)
    BY <1>1, DueBound DEF ReleaseDue, TypeInv
  <2> HIDE DEF n
  <2> QED
    BY <1>1, <2>1
<1>3. Transmit(r, TRUE, out) /\ held' = [held EXCEPT ![l] = rest] /\ offered' = offered
  BY DEF ReleaseDue
<1>4. \A m \in Lines : m # l => held'[m] = <<>>
  <2>1. \A m \in Lines : m # l => held[m] = <<>>
    BY <1>1, <1>2, Bounds DEF OrderInv, KeptInv, OneLine, DatapathHolds, Lines
  <2> HIDE DEF l, rest
  <2> QED
    BY <1>1, <1>3, <2>1
<1> HIDE DEF n
<1>5. /\ r \in Reports /\ r.n \in Nat /\ Numbered(s)
      /\ \A i \in DOMAIN s : s[i].kind # "reply" /\ s[i].n \in given + 1 .. offered /\ s[i].n \in Nat
  <2>1. \A i \in DOMAIN s : s[i] \in Reports /\ s[i].n \in Nat
    BY <1>1, OrderTypes
  <2>2. After(l, given)
    BY <1>1 DEF OrderInv, HeldIsNewer
  <2> QED
    BY <1>1, <1>2, <2>1, <2>2 DEF After
<1>6. \A i \in DOMAIN rest : i + n \in DOMAIN s /\ rest[i] = s[i + n]
  BY <1>1, <1>2, RestEntries
<1>7. held'[l] = rest /\ DOMAIN rest \subseteq Nat \ {0}
  <2>1. rest \in Seq(Reports)
    BY <1>1, <1>2
  <2> HIDE DEF rest, l
  <2> QED
    BY <1>1, <1>3, <2>1
<1> HIDE DEF s, rest
<1>8. \A i \in DOMAIN rest : rest[i].kind # "reply" /\ rest[i].n \in r.n + 1 .. offered
  <2> SUFFICES ASSUME NEW i \in DOMAIN rest
               PROVE  rest[i].kind # "reply" /\ rest[i].n \in r.n + 1 .. offered
    OBVIOUS
  <2>1. i + n \in DOMAIN s /\ n \in DOMAIN s /\ n < i + n
    BY <1>2, <1>6, <1>7
  <2>2. s[n].n < s[i + n].n
    BY <1>5, <2>1 DEF Numbered
  <2> QED
    BY <1>1, <1>5, <1>6, <2>1, <2>2
<1>9. Numbered(rest)
  <2> SUFFICES ASSUME NEW i \in DOMAIN rest, NEW j \in DOMAIN rest, i < j
               PROVE  rest[i].n < rest[j].n
    BY DEF Numbered
  <2>1. i + n < j + n
    BY <1>2, <1>7
  <2> QED
    BY <1>5, <1>6, <2>1 DEF Numbered
<1>10. PICK w \in Reports : w = r
  BY <1>5
<1>11. \A m \in Lines : After(m, w.n)'
  <2> SUFFICES ASSUME NEW m \in Lines PROVE After(m, w.n)'
    OBVIOUS
  <2>1. CASE m = l
    BY <1>3, <1>7, <1>8, <1>9, <1>10, <2>1 DEF After
  <2>2. CASE m # l
    BY <1>4, <2>2 DEF After, Numbered
  <2> QED
    BY <2>1, <2>2
<1>12. r.n \in given .. offered' /\ r.kind # "reply"
  BY <1>1, <1>2, <1>3, <1>5
<1> HIDE DEF r
<1> QED
  BY <1>3, <1>5, <1>10, <1>11, <1>12, ForwardIfWritten

LEMMA ForwardByResend ==
    ASSUME OrderInv, NEW out \in Outcomes, Resend(out)
    PROVE  Forward
<1>1. tx \in Reports /\ tx # Nothing /\ tx.kind # "reply" /\ tx.n \in given .. offered
  BY OrderTypes DEF Resend, OrderInv, SentInOrder
<1>2. Transmit(tx, dirty, out) /\ held' = held /\ offered' = offered
  BY DEF Resend
<1>3. \A l \in Lines : After(l, tx.n)
  BY <1>1 DEF OrderInv, HeldIsNewer
<1>4. PICK w \in Reports : w = tx
  BY <1>1
<1>5. \A l \in Lines : After(l, w.n)'
  BY <1>2, <1>3, <1>4 DEF After
<1>6. w.kind # "reply" /\ w.n \in given .. offered' /\ Transmit(w, dirty, out)
  BY <1>1, <1>2, <1>4
<1> QED
  BY <1>2, <1>5, <1>6, ForwardIfWritten

LEMMA ForwardStep == NoReplies /\ OrderInv /\ [Next]_vars => Forward
<1> SUFFICES ASSUME NoReplies, OrderInv, [Next]_vars PROVE Forward
  OBVIOUS
<1>0. TypeInv /\ TypeInv' /\ KeptInv
  BY TypeStep DEF OrderInv, KeptInv
<1>1. CASE OfferLocked(Dp)
  BY <1>0, <1>1, ForwardByOffer
<1>2. CASE \E out \in Outcomes : Drain(out) \/ ReleaseDue(out) \/ Resend(out)
  BY <1>0, <1>2, ForwardByDrain, ForwardByRelease, ForwardByResend
<1>3. CASE OfferLocked(Ctl) \/ Reply
  BY <1>3 DEF OfferLocked, OfferRefused, OfferHeld, OfferWritten, Is, OrderInv, KeptInv, Reply,
              NoReplies
<1>4. CASE Attach \/ \E t \in Threads : Detach(t)
  <2>1. held' = Cleared /\ offered' = offered /\ tx' \in {tx, Nothing} /\ given' \in {given, 0}
    BY <1>4 DEF Attach, Detach
  <2>2. \A l \in Lines : held'[l] \in {held[l], <<>>}
    BY <1>0, <2>1, Clears DEF TypeInv
  <2> QED
    BY <2>1, <2>2, ForwardIfQuiet
<1>5. CASE UNCHANGED <<held, offered, tx, given>>
  BY <1>5, ForwardIfQuiet
<1>6. CASE \/ Input \/ SetOff \/ SessionEnds \/ Tick
           \/ PumpRead \/ NothingDue \/ ResendSkipped \/ (\E d \in Delays : SetDelay(d))
           \/ UNCHANGED vars
  <2>1. UNCHANGED <<held, offered, tx, given>>
    BY <1>6 DEF Input, OfferRead, SetOff, SessionEnds, Tick, PumpRead, NothingDue, ResendSkipped,
                SetDelay, vars
  <2> QED
    BY <1>5, <2>1
<1> QED
  BY <1>1, <1>2, <1>3, <1>4, <1>6
     DEF Next, DatapathGoesOn, WriterStep, ControlGoesOn, Threads

\* As long as the profile answers no subcommands, the sink is a register of the
\* newest state: whatever is held, repeated, put off or lost, the console never
\* goes back to a state older than one it has shown (L2CAPSink, DelayLine).
THEOREM SinkIsRegister ==
    ASSUME NoReplies
    PROVE  Spec => ImplementsRegister
<1>1. OrderInv /\ [Next]_vars => OrderInv' /\ [Register!Next]_<<offered, given>>
  BY KeptStep, ForwardStep DEF OrderInv, Forward, Reg
<1>2. Init => OrderInv /\ Register!Init
  BY OrderInit
<1> QED
  BY <1>1, <1>2, PTL DEF Spec, ImplementsRegister, Register!Spec
=============================================================================
