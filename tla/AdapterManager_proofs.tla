----------------------- MODULE AdapterManager_proofs -----------------------
(***************************************************************************)
(* For any finite set of adapters, any requests, any ceiling and any bound *)
(* on what the operator and the world do: a HID server is never started on *)
(* an address our own listener still holds, the router never refuses a     *)
(* channel a pass adds, and between two passes every channel that carries  *)
(* input has its server behind it.                                         *)
(*                                                                         *)
(* None of the three is inductive.  They rest on the pass being alone: the *)
(* task that holds _reconcile_lock is the one inside the pass (Alone).     *)
(* Then what may be half done is known from where that task is: a server   *)
(* that has left _hid_servers and still listens is the one it is stopping  *)
(* (Backed), and the channels are those its dropping has still to remove   *)
(* and those it chose (Bounded), of which there are at most MaxOutputs,    *)
(* because a sorted list cut at MAX_OUTPUTS exists (FirstExists).          *)
(***************************************************************************)
EXTENDS AdapterManager, TLAPS, FiniteSetTheorems, WellFoundedInduction

\* The steps inside _reconcile_lock, and those among them that have an adapter in
\* hand which the pass chose.
Dropping == {"drop", "stop"}
Visiting == {"bring up", "name", "start", "target"}
Passing == Dropping \cup Visiting \cup {"quiet", "silence", "each", "links"}
InHand == {"stop", "silence", "conceal", "arm", "offer", "disconnect", "wake"} \cup Visiting

Number == 0..Cardinality(Adapters)

States == [enabled : BOOLEAN, index : Number, phase : Phases,
           window : {"none", "open", "over"}, peer : BOOLEAN,
           configured : BOOLEAN, quieted : BOOLEAN, error : BOOLEAN]

Consistent == {s \in States : ~ (s.configured /\ s.quieted)}

Choices == [enabled : BOOLEAN, host : BOOLEAN, numbered : BOOLEAN]

TaskStates ==
    [at : Steps, job : {"none", "rescan"} \cup WebOps, adapter : Adapters \cup {None},
     todo : SUBSET Adapters, chosen : SUBSET Adapters, found : [Adapters -> Number],
     seen : SUBSET Adapters, size : Nat, gone : SUBSET Adapters]

WorldTyped ==
    /\ plugged \in [Adapters -> Number] /\ linked \subseteq Adapters
    /\ registry \subseteq Adapters /\ connectable \subseteq Adapters

StackTyped ==
    /\ channel \in [Adapters -> {"none", "null", "real"}]
    /\ servers \subseteq Adapters /\ bound \subseteq Adapters

TasksTyped ==
    /\ lock \in Tasks \cup {None}
    /\ task \in [Tasks -> TaskStates]
    /\ \A t \in Tasks : task[t].at \in InHand => task[t].adapter \in Adapters

StateTyped == state \in [Adapters -> Consistent]
SavedTyped == saved \in [Adapters -> Choices \cup {None}]

Typed == WorldTyped /\ StackTyped /\ TasksTyped /\ StateTyped /\ SavedTyped

Alone == \A t \in Tasks : lock = t <=> task[t].at \in Passing

Stopping(x) == \E t \in Tasks : At(t, "stop") /\ task[t].adapter = x

Backed ==
    /\ servers \subseteq bound
    /\ \A x \in bound \ servers : Stopping(x)
    /\ \A x \in Adapters : channel[x] = "real" => x \in servers \/ Stopping(x)

\* What a task in a pass knows of the adapter in hand.
Knows(t) ==
    /\ At(t, "stop") => task[t].adapter \in bound \ servers
    /\ At(t, "start") => task[t].adapter \notin bound
    /\ At(t, "target") => task[t].adapter \in servers

\* What it knows of the channels.
Bounded(t) ==
    /\ task[t].at \in Passing => Cardinality(task[t].chosen) <= MaxOutputs
    /\ task[t].at \in Dropping => Channels \ task[t].chosen \subseteq task[t].todo
    /\ task[t].at \in Passing \ Dropping => Channels \subseteq task[t].chosen
    /\ task[t].at \in Visiting \cup {"each"} => task[t].todo \subseteq task[t].chosen
    /\ task[t].at \in Visiting => task[t].adapter \in task[t].chosen

InPass == \A t \in Tasks : Knows(t) /\ Bounded(t)

Inv == Typed /\ Alone /\ Backed /\ InPass

-----------------------------------------------------------------------------
(* The choice of a pass.                                                   *)

LEMMA LeastNumber ==
    ASSUME NEW S \in SUBSET Nat, S # {}
    PROVE  \E n \in S : \A m \in S : n <= m
<1> DEFINE R == StrictSubsetOrdering(Nat)
           F == FiniteSubsetsOf(Nat)
           T == {0..n : n \in S}
<1>1. IsWellFoundedOn(R, F)
  BY FS_StrictSubsetOrderingWellFounded
<1>2. T \subseteq F /\ T # {}
  <2>1. \A n \in S : IsFiniteSet(0..n) /\ 0..n \subseteq Nat
    BY FS_Interval
  <2> QED BY <2>1 DEF FiniteSubsetsOf
<1>3. \E I \in T : \A J \in T : ~ (<<J, I>> \in R)
  <2> HIDE DEF R, F, T
  <2> QED BY <1>1, <1>2, WFMin
<1>4. PICK n \in S : \A J \in T : ~ (<<J, 0..n>> \in R)
  BY <1>3
<1>5. ASSUME NEW m \in S, m < n PROVE FALSE
  <2>1. 0..m \in T /\ 0..m \subseteq Nat /\ 0..n \subseteq Nat
    OBVIOUS
  <2>2. 0..m \subseteq 0..n /\ n \in 0..n /\ n \notin 0..m
    BY <1>5
  <2>3. <<0..m, 0..n>> \in R
    BY <2>1, <2>2 DEF StrictSubsetOrdering
  <2> QED BY <1>4, <2>1, <2>3
<1> QED BY <1>5

LEMMA Lowest ==
    ASSUME NEW S, S # {}, NEW index, \A x \in S : index[x] \in Nat
    PROVE  \E m \in S : \A y \in S : index[m] <= index[y]
<1> DEFINE N == {index[x] : x \in S}
<1>1. N \in SUBSET Nat /\ N # {}
  OBVIOUS
<1>2. PICK n \in N : \A k \in N : n <= k
  BY <1>1, LeastNumber
<1> QED BY <1>2

\* Members of S of lowest index.
Front(C, S, index) == C \in SUBSET S /\ \A x \in C, y \in S \ C : index[x] <= index[y]

\* A sorted list has a prefix of every length up to its own.
LEMMA Prefixes ==
    ASSUME NEW S, IsFiniteSet(S), NEW index, \A x \in S : index[x] \in Nat
    PROVE  \A k \in 0..Cardinality(S) : \E C : Front(C, S, index) /\ Cardinality(C) = k
<1> DEFINE Bad == {k \in 0..Cardinality(S) : ~ \E C : Front(C, S, index) /\ Cardinality(C) = k}
<1>1. Cardinality(S) \in Nat
  BY FS_CardinalityType
<1>2. SUFFICES ASSUME Bad # {} PROVE FALSE
  OBVIOUS
<1>3. PICK k \in Bad : \A j \in Bad : k <= j
  <2>1. Bad \in SUBSET Nat
    BY <1>1
  <2> QED BY <1>2, <2>1, LeastNumber
<1>4. CASE k = 0
  <2>1. Front({}, S, index) /\ Cardinality({}) = 0
    BY FS_EmptySet DEF Front
  <2> QED BY <1>3, <1>4, <2>1
<1>5. CASE k # 0
  <2>1. k - 1 \in 0..Cardinality(S) /\ k - 1 \notin Bad
    BY <1>1, <1>3, <1>5
  <2>2. PICK C : Front(C, S, index) /\ Cardinality(C) = k - 1
    BY <2>1
  <2>3. IsFiniteSet(C) /\ S \ C # {}
    <3>1. IsFiniteSet(C)
      BY <2>2, FS_Subset DEF Front
    <3>2. S # C
      BY <1>1, <1>3, <2>2
    <3> QED BY <2>2, <3>1, <3>2 DEF Front
  <2>4. PICK m \in S \ C : \A y \in S \ C : index[m] <= index[y]
    <3>1. \A x \in S \ C : index[x] \in Nat
      OBVIOUS
    <3> QED BY <2>3, <3>1, Lowest
  <2>5. Front(C \cup {m}, S, index)
    BY <2>2, <2>4 DEF Front
  <2>6. Cardinality(C \cup {m}) = k
    <3>1. Cardinality(C \cup {m}) = Cardinality(C) + 1
      BY <2>3, <2>4, FS_AddElement
    <3> QED BY <1>3, <2>2, <3>1
  <2> QED BY <1>3, <2>5, <2>6
<1> QED BY <1>4, <1>5

LEMMA FirstExists ==
    ASSUME NEW S, IsFiniteSet(S), NEW index, \A x \in S : index[x] \in Nat
    PROVE  First(S, index) \in SUBSET S /\ Cardinality(First(S, index)) <= MaxOutputs
<1> DEFINE n == IF Cardinality(S) < MaxOutputs THEN Cardinality(S) ELSE MaxOutputs
<1>1. n \in 0..Cardinality(S) /\ n <= MaxOutputs
  <2>1. Cardinality(S) \in Nat
    BY FS_CardinalityType
  <2>2. MaxOutputs \in Nat
    BY AdapterManagerAssumption
  <2> QED BY <2>1, <2>2
<1>2. \E C \in SUBSET S : Cardinality(C) = n /\ \A x \in C, y \in S \ C : index[x] <= index[y]
  BY <1>1, Prefixes DEF Front
<1>3. First(S, index) \in SUBSET S /\ Cardinality(First(S, index)) = n
  BY <1>2 DEF First
<1> QED BY <1>1, <1>3

LEMMA ChosenBounded ==
    ASSUME Typed
    PROVE  Chosen \in SUBSET registry /\ Cardinality(Chosen) <= MaxOutputs
<1> DEFINE S == {x \in registry : state[x].enabled}
           index == [x \in Adapters |-> state[x].index]
<1>1. IsFiniteSet(S) /\ S \subseteq registry
  BY AdapterManagerAssumption, FS_Subset DEF Typed, WorldTyped
<1>2. \A x \in S : index[x] \in Nat
  <2>1. Cardinality(Adapters) \in Nat
    BY AdapterManagerAssumption, FS_CardinalityType
  <2> QED BY <2>1 DEF Typed, WorldTyped, StateTyped, Consistent, States, Number
<1>3. First(S, index) \in SUBSET S /\ Cardinality(First(S, index)) <= MaxOutputs
  BY <1>1, <1>2, FirstExists
<1> QED BY <1>1, <1>3 DEF Chosen

\* The kernel has an index for a dongle that is plugged in: fewer are taken than
\* there are dongles.
LEMMA IndexExists ==
    ASSUME Typed, NEW x \in Adapters, plugged[x] = 0
    PROVE  \E i \in 1..Cardinality(Adapters) :
              /\ \A y \in Adapters : plugged[y] # i
              /\ \A j \in 1..(i - 1) : \E y \in Adapters : plugged[y] = j
<1> DEFINE n == Cardinality(Adapters)
           Unused == {i \in 1..n : \A y \in Adapters : plugged[y] # i}
<1>1. n \in Nat
  BY AdapterManagerAssumption, FS_CardinalityType
<1>2. Unused # {}
  <2> SUFFICES ASSUME \A i \in 1..n : \E y \in Adapters : plugged[y] = i
               PROVE  FALSE
    OBVIOUS
  <2> DEFINE f == [i \in 1..n |-> CHOOSE y \in Adapters : plugged[y] = i]
  <2>1. \A i \in 1..n : f[i] \in Adapters /\ plugged[f[i]] = i
    OBVIOUS
  <2>2. f \in [1..n -> Adapters \ {x}]
    BY <2>1
  <2>3. /\ IsFiniteSet(1..n) /\ Cardinality(1..n) = n
        /\ IsFiniteSet(Adapters \ {x}) /\ Cardinality(Adapters \ {x}) = n - 1
    <3>1. IsFiniteSet(1..n) /\ Cardinality(1..n) = n
      <4> HIDE DEF n
      <4>1. 1 \in Int /\ n \in Int
        BY <1>1
      <4>2. IsFiniteSet(1..n) /\ Cardinality(1..n) = IF 1 > n THEN 0 ELSE n - 1 + 1
        BY <4>1, FS_Interval
      <4> QED BY <1>1, <4>2
    <3>2. IsFiniteSet(Adapters \ {x}) /\ Cardinality(Adapters \ {x}) = n - 1
      BY AdapterManagerAssumption, FS_RemoveElement
    <3> QED BY <3>1, <3>2
  <2>4. \E i, j \in 1..n : i # j /\ f[i] = f[j]
    <3>1. n - 1 < n
      BY <1>1
    <3>2. Cardinality(Adapters \ {x}) < Cardinality(1..n)
      BY <2>3, <3>1
    <3> DEFINE D == 1..n
               V == Adapters \ {x}
    <3>3. f \in [D -> V] /\ IsFiniteSet(D) /\ IsFiniteSet(V) /\ Cardinality(V) < Cardinality(D)
      BY <2>2, <2>3, <3>2
    <3> HIDE DEF f, D, V
    <3>4. \E i, j \in D : i # j /\ f[i] = f[j]
      BY <3>3, FS_PigeonHole
    <3> QED BY <3>4 DEF D
  <2> QED BY <2>1, <2>4
<1>3. PICK i \in Unused : \A k \in Unused : i <= k
  <2>1. Unused \in SUBSET Nat
    BY <1>1
  <2> QED BY <1>2, <2>1, LeastNumber
<1>4. \A j \in 1..(i - 1) : \E y \in Adapters : plugged[y] = j
  BY <1>1, <1>3
<1> QED BY <1>3, <1>4

-----------------------------------------------------------------------------
(* Types.  What each action writes to an adapter's state is consistent.    *)

LEMMA Consts ==
    /\ Cardinality(Adapters) \in Nat /\ 0 \in Number
    /\ None \notin Adapters /\ None \notin Tasks /\ Watcher \in Tasks /\ Requests \subseteq Tasks
<1>1. Cardinality(Adapters) \in Nat
  BY AdapterManagerAssumption, FS_CardinalityType
<1>2. None \notin Adapters /\ None \notin Tasks /\ Watcher \in Tasks /\ Requests \subseteq Tasks
  BY AdapterManagerAssumption DEF Tasks
<1> QED BY <1>1, <1>2 DEF Number

LEMMA FreshType == Fresh \in Consistent
  BY Consts DEF Fresh, Consistent, States, Phases

LEMMA IdleType == Idle \in TaskStates
<1>1. [x \in Adapters |-> 0] \in [Adapters -> Number]
  BY Consts
<1> QED BY <1>1 DEF Idle, TaskStates, Steps

LEMMA Written ==
    ASSUME NEW s \in Consistent
    PROVE  /\ \A p \in Phases : Moved(s, p) \in Consistent
           /\ Cleared(s) \in Consistent
           /\ Armed(s) \in Consistent
           /\ \A up : Noted(s, up) \in Consistent /\ Corrected(s, up) \in Consistent
           /\ \A b \in BOOLEAN : /\ [s EXCEPT !.error = b] \in Consistent
                                 /\ [s EXCEPT !.enabled = b] \in Consistent
           /\ \A w \in {"none", "open", "over"} : [s EXCEPT !.window = w] \in Consistent
           /\ \A w \in {"none", "open", "over"}, b \in BOOLEAN :
                [s EXCEPT !.window = w, !.peer = b] \in Consistent
<1>1. \A p \in Phases : Moved(s, p) \in Consistent
  BY DEF Moved, Consistent, States
<1>2. Cleared(s) \in Consistent /\ Armed(s) \in Consistent
  BY DEF Cleared, Armed, Consistent, States, Phases
<1>3. \A w \in {"none", "open", "over"}, b \in BOOLEAN : [s EXCEPT !.window = w, !.peer = b] \in Consistent
  BY DEF Consistent, States
<1>4. \A w \in {"none", "open", "over"} : [s EXCEPT !.window = w] \in Consistent
  BY DEF Consistent, States
<1>5. \A b \in BOOLEAN : [s EXCEPT !.error = b] \in Consistent /\ [s EXCEPT !.enabled = b] \in Consistent
  BY DEF Consistent, States
<1>6. \A up : Noted(s, up) \in Consistent
  BY DEF Noted, Moved, Cleared, Consistent, States, Phases
<1>7. \A up : Corrected(s, up) \in Consistent
  BY <1>6 DEF Corrected
<1> QED BY <1>1, <1>2, <1>3, <1>4, <1>5, <1>6, <1>7

LEMMA FlaggedType ==
    ASSUME NEW s \in Consistent, NEW x, NEW b \in BOOLEAN
    PROVE  Flagged(s, x, b, ~ b) \in Consistent
<1> DEFINE r == IF x \in registry THEN s ELSE Fresh
<1>1. r \in Consistent
  BY FreshType
<1>2. [r EXCEPT !.configured = b, !.quieted = ~ b] \in Consistent
  <2> HIDE DEF r
  <2> QED BY <1>1 DEF Consistent, States
<1> QED BY <1>2 DEF Flagged

LEMMA WriteType ==
    ASSUME StateTyped, NEW t, NEW x, NEW s \in Consistent, Write(t, x, s)
    PROVE  StateTyped'
  BY DEF StateTyped, Write

LEMMA UpsertType ==
    ASSUME SavedTyped, NEW x \in Adapters, NEW enabled \in BOOLEAN, NEW host \in BOOLEAN,
           Upsert(x, enabled, host)
    PROVE  SavedTyped'
<1> DEFINE r == [enabled |-> enabled, host |-> host,
                 numbered |-> saved[x] # None /\ saved[x].numbered]
<1>1. r \in Choices
  <2>1. saved[x] # None => saved[x] \in Choices
    BY DEF SavedTyped
  <2> QED BY <2>1 DEF Choices
<1>2. saved' = [saved EXCEPT ![x] = r]
  BY DEF Upsert
<1> HIDE DEF r
<1> QED BY <1>1, <1>2 DEF SavedTyped

LEMMA HostType == ASSUME SavedTyped, NEW x \in Adapters PROVE Host(x) \in BOOLEAN
<1>1. saved[x] # None => saved[x] \in Choices
  BY DEF SavedTyped
<1> QED BY <1>1 DEF Host, Choices

\* A console's entry is forgotten where there is one.
LEMMA ForgetType ==
    ASSUME SavedTyped, NEW x \in Adapters, Host(x), saved' = [saved EXCEPT ![x].host = FALSE]
    PROVE  SavedTyped'
<1>1. saved[x] \in Choices
  BY DEF SavedTyped, Host
<1>2. [saved[x] EXCEPT !.host = FALSE] \in Choices
  BY <1>1 DEF Choices
<1>3. saved' = [saved EXCEPT ![x] = [saved[x] EXCEPT !.host = FALSE]]
  OBVIOUS
<1> HIDE DEF Choices
<1> QED BY <1>2, <1>3 DEF SavedTyped

-----------------------------------------------------------------------------
(* The world and the reports of it touch neither the tasks nor the stack.  *)

Outside(x) == World(x) \/ Hear(x) \/ WindowEnds(x)

LEMMA OutsideStep ==
    ASSUME Inv, NEW x \in Adapters, Outside(x)
    PROVE  Inv'
<1> USE DEF Inv, Typed
<1>1. CASE Plug(x)
  <2>1. WorldTyped'
    <3> DEFINE P(i) == /\ \A y \in Adapters : plugged[y] # i
                       /\ \A j \in 1..(i - 1) : \E y \in Adapters : plugged[y] = j
               i0 == CHOOSE i \in 1..Cardinality(Adapters) : P(i)
    <3>1. /\ plugged[x] = 0 /\ plugged' = [plugged EXCEPT ![x] = i0]
          /\ UNCHANGED <<linked, registry>> /\ connectable' = connectable \ {x}
      BY <1>1 DEF Plug
    <3>2. \E i \in 1..Cardinality(Adapters) : P(i)
      BY <3>1, IndexExists
    <3> HIDE DEF P
    <3>3. i0 \in 1..Cardinality(Adapters)
      BY <3>2
    <3>4. i0 \in Number
      BY <3>3, Consts DEF Number
    <3> HIDE DEF i0
    <3> QED BY <3>1, <3>4 DEF WorldTyped
  <2>2. UNCHANGED <<registry, state, saved, stack, lock, task>>
    BY <1>1 DEF Plug
  <2> QED BY <2>1, <2>2 DEF stack, StackTyped, TasksTyped, StateTyped, SavedTyped, Alone,
                 Backed, Stopping, InPass, Knows, Bounded, At, Channels
<1>2. CASE \/ Unplug(x) \/ LinkUp(x) \/ LinkDown(x)
           \/ NoteLink(x) \/ OnHostConnected(x) \/ OnHostGone(x) \/ WindowEnds(x)
  <2>1. UNCHANGED <<stack, lock, task>>
    BY <1>2 DEF Unplug, LinkUp, LinkDown, NoteLink, OnHostConnected, OnHostGone, WindowEnds
  <2>2. WorldTyped'
    <3>1. CASE Unplug(x)
      BY <3>1, Consts DEF Unplug, WorldTyped
    <3>2. CASE LinkUp(x)
      BY <3>2 DEF LinkUp, WorldTyped
    <3>3. CASE LinkDown(x)
      BY <3>3 DEF LinkDown, WorldTyped
    <3>4. CASE \/ NoteLink(x) \/ OnHostConnected(x) \/ OnHostGone(x) \/ WindowEnds(x)
      BY <3>4 DEF NoteLink, OnHostConnected, OnHostGone, WindowEnds, WorldTyped, world
    <3> QED BY <1>2, <3>1, <3>2, <3>3, <3>4
  <2>3. StateTyped'
    <3>1. CASE Unplug(x) \/ LinkUp(x) \/ LinkDown(x)
      BY <3>1 DEF Unplug, LinkUp, LinkDown, StateTyped
    <3>2. state[x] \in Consistent
      BY DEF StateTyped
    <3>3. CASE NoteLink(x)
      <4>1. \/ UNCHANGED state
            \/ \E y \in Adapters : state' = [state EXCEPT ![y] = Noted(@, Head(reports[x].mgmt))]
        BY <3>3 DEF NoteLink, WorldTyped
      <4>2. CASE \E y \in Adapters : state' = [state EXCEPT ![y] = Noted(@, Head(reports[x].mgmt))]
        <5>1. PICK y \in Adapters : state' = [state EXCEPT ![y] = Noted(@, Head(reports[x].mgmt))]
          BY <4>2
        <5>2. state[y] \in Consistent
          BY DEF StateTyped
        <5> QED BY <5>1, <5>2, Written DEF StateTyped
      <4> QED BY <4>1, <4>2 DEF StateTyped
    <3>4. CASE OnHostGone(x)
      BY <3>2, <3>4, Written DEF OnHostGone, StateTyped
    <3>5. CASE OnHostConnected(x)
      <4>1. [Moved(state[x], "linked") EXCEPT !.window = "none", !.peer = TRUE] \in Consistent
        <5>1. Moved(state[x], "linked") \in Consistent
          BY <3>2, Written DEF Phases
        <5> QED BY <5>1, Written
      <4> QED BY <3>5, <4>1 DEF OnHostConnected, StateTyped
    <3>6. CASE WindowEnds(x)
      <4>1. [state[x] EXCEPT !.window = "over"] \in Consistent
        BY <3>2, Written
      <4> QED BY <3>6, <4>1 DEF WindowEnds, StateTyped
    <3> QED BY <1>2, <3>1, <3>3, <3>4, <3>5, <3>6
  <2>4. SavedTyped'
    <3>1. CASE OnHostConnected(x)
      BY <3>1, UpsertType DEF OnHostConnected, SavedTyped
    <3>2. CASE ~ OnHostConnected(x)
      BY <1>2, <3>2 DEF Unplug, LinkUp, LinkDown, NoteLink, OnHostGone, WindowEnds, SavedTyped
    <3> QED BY <3>1, <3>2
  <2> QED BY <2>1, <2>2, <2>3, <2>4 DEF stack, StackTyped, TasksTyped, Alone, Backed,
                 Stopping, InPass, Knows, Bounded, At, Channels
<1> QED BY <1>1, <1>2 DEF Outside, World, Hear

-----------------------------------------------------------------------------
(* A task moves; the others stay where they are.                           *)

Moves(t) == \A u \in Tasks \ {t} :
    /\ task'[u].at = task[u].at /\ task'[u].adapter = task[u].adapter
    /\ task'[u].todo = task[u].todo /\ task'[u].chosen = task[u].chosen

LEMMA TaskBecomes ==
    ASSUME TasksTyped, NEW t \in Tasks, NEW r \in TaskStates,
           r.at \in InHand => r.adapter \in Adapters,
           task' = [task EXCEPT ![t] = r], lock' \in Tasks \cup {None}
    PROVE  TasksTyped' /\ Moves(t) /\ task'[t] = r
  BY DEF TasksTyped, Moves

LEMMA RegistrySize == ASSUME Typed PROVE Cardinality(registry) \in Nat
<1>1. IsFiniteSet(registry)
  BY AdapterManagerAssumption, FS_Subset DEF Typed, WorldTyped
<1> QED BY <1>1, FS_CardinalityType

LEMMA LinkedType == ASSUME Typed PROVE linked \in SUBSET Adapters
  BY DEF Typed, WorldTyped

LEMMA TasksStep ==
    ASSUME Typed, NEW t \in Tasks, TaskStep(t) \/ Enumerate(t)
    PROVE  TasksTyped' /\ Moves(t)
<1> DEFINE p == task[t]
           Allowed(r) == r \in TaskStates /\ (r.at \in InHand => r.adapter \in Adapters)
           Becomes(r) == task' = [task EXCEPT ![t] = r]
<1>1. /\ Allowed(p) /\ TasksTyped /\ t \in Tasks /\ Idle \in TaskStates
      /\ lock \in Tasks \cup {None} /\ None \in Tasks \cup {None}
  BY IdleType DEF Typed, TasksTyped
<1>2. ASSUME NEW r, Allowed(r), Becomes(r), lock' \in {lock, t, None}
      PROVE  TasksTyped' /\ Moves(t)
  BY <1>1, <1>2, TaskBecomes
<1> USE DEF TaskStates, Steps, InHand, Visiting, At, Goto
<1>3. CASE Enumerate(t)
  <2>1. \A found \in {plugged, Idle.found} :
          Allowed([Idle EXCEPT !.at = "sync", !.job = "rescan", !.found = found])
    BY <1>1 DEF Typed, WorldTyped, Idle
  <2>2. /\ \E found \in {plugged, Idle.found} :
             Becomes([Idle EXCEPT !.at = "sync", !.job = "rescan", !.found = found])
        /\ lock' \in {lock, t, None}
    BY <1>3 DEF Enumerate
  <2> QED BY <1>2, <2>1, <2>2
<1>4. CASE Begin(t)
  <2>1. Allowed([p EXCEPT !.at = "drop", !.chosen = Chosen, !.gone = {}, !.todo = Channels \ Chosen])
    BY <1>1, ChosenBounded DEF Typed, WorldTyped, Channels
  <2>2. /\ Becomes([p EXCEPT !.at = "drop", !.chosen = Chosen, !.gone = {}, !.todo = Channels \ Chosen])
        /\ lock' \in {lock, t, None}
    BY <1>4 DEF Begin
  <2> QED BY <1>2, <2>1, <2>2
<1>5. CASE Drop(t)
  <2>1. \A x \in p.todo : Allowed([p EXCEPT !.at = "stop", !.adapter = x])
    BY <1>1
  <2>2. \A x \in p.todo : Allowed([p EXCEPT !.todo = @ \ {x}])
    BY <1>1
  <2>3. /\ \/ (\E x \in p.todo : Becomes([p EXCEPT !.at = "stop", !.adapter = x]))
           \/ (\E x \in p.todo : Becomes([p EXCEPT !.todo = @ \ {x}]))
        /\ lock' \in {lock, t, None}
    BY <1>5 DEF Drop
  <2> QED BY <1>2, <2>1, <2>2, <2>3
<1>6. CASE Stopped(t)
  <2>1. Allowed([p EXCEPT !.at = "drop", !.todo = @ \ {p.adapter}])
    BY <1>1
  <2>2. /\ Becomes([p EXCEPT !.at = "drop", !.todo = @ \ {p.adapter}])
        /\ lock' \in {lock, t, None}
    BY <1>6 DEF Stopped
  <2> QED BY <1>2, <2>1, <2>2
<1>7. CASE Dropped(t)
  <2>1. Allowed([p EXCEPT !.at = "quiet", !.todo = registry \ p.chosen, !.size = Cardinality(registry)])
    BY <1>1, RegistrySize DEF Typed, WorldTyped
  <2>2. /\ Becomes([p EXCEPT !.at = "quiet", !.todo = registry \ p.chosen, !.size = Cardinality(registry)])
        /\ lock' \in {lock, t, None}
    BY <1>7 DEF Dropped
  <2> QED BY <1>2, <2>1, <2>2
<1>8. CASE Abort(t)
  <2>1. Allowed([Idle EXCEPT !.at = "dead"])
    BY <1>1 DEF Idle
  <2>2. Allowed([Idle EXCEPT !.at = "idle"])
    BY <1>1 DEF Idle
  <2>3. /\ \/ Becomes([Idle EXCEPT !.at = "dead"])
           \/ Becomes([Idle EXCEPT !.at = "idle"])
        /\ lock' \in {lock, t, None}
    BY <1>8 DEF Abort
  <2> QED BY <1>2, <2>1, <2>2, <2>3
<1>9. CASE Quiet(t)
  <2>1. \A x \in p.todo : Allowed([p EXCEPT !.at = "silence", !.adapter = x])
    BY <1>1
  <2>2. \A x \in p.todo : Allowed([p EXCEPT !.todo = @ \ {x}])
    BY <1>1
  <2>3. /\ \/ (\E x \in p.todo : Becomes([p EXCEPT !.at = "silence", !.adapter = x]))
           \/ (\E x \in p.todo : Becomes([p EXCEPT !.todo = @ \ {x}]))
        /\ lock' \in {lock, t, None}
    BY <1>9 DEF Quiet
  <2> QED BY <1>2, <2>1, <2>2, <2>3
<1>10. CASE Silence(t)
  <2>1. Allowed([p EXCEPT !.at = "quiet", !.todo = @ \ {p.adapter}])
    BY <1>1
  <2>2. /\ Becomes([p EXCEPT !.at = "quiet", !.todo = @ \ {p.adapter}])
        /\ lock' \in {lock, t, None}
    BY <1>10 DEF Silence
  <2> QED BY <1>2, <2>1, <2>2
<1>11. CASE EnsureConnectable(t)
  <2>1. Allowed([p EXCEPT !.at = "each", !.todo = p.chosen])
    BY <1>1
  <2>2. /\ Becomes([p EXCEPT !.at = "each", !.todo = p.chosen])
        /\ lock' \in {lock, t, None}
    BY <1>11 DEF EnsureConnectable
  <2> QED BY <1>2, <2>1, <2>2
<1>12. CASE Configure(t)
  <2>1. \A x \in p.todo : Allowed([p EXCEPT !.at = "bring up", !.adapter = x])
    BY <1>1
  <2>2. \A x \in p.todo : Allowed([p EXCEPT !.todo = @ \ {x}])
    BY <1>1
  <2>3. /\ \/ (\E x \in p.todo : Becomes([p EXCEPT !.at = "bring up", !.adapter = x]))
           \/ (\E x \in p.todo : Becomes([p EXCEPT !.todo = @ \ {x}]))
        /\ lock' \in {lock, t, None}
    BY <1>12 DEF Configure
  <2> QED BY <1>2, <2>1, <2>2, <2>3
<1>13. CASE BringUpFails(t) \/ StartFails(t) \/ Listen(t)
  <2>1. Allowed([p EXCEPT !.at = "each", !.todo = @ \ {p.adapter}])
    BY <1>1
  <2>2. /\ Becomes([p EXCEPT !.at = "each", !.todo = @ \ {p.adapter}])
        /\ lock' \in {lock, t, None}
    BY <1>13 DEF BringUpFails, StartFails, Listen, NextAdapter
  <2> QED BY <1>2, <2>1, <2>2
<1>14. CASE BringUp(t)
  <2>1. Allowed([p EXCEPT !.at = "name"])
    BY <1>1, <1>14 DEF BringUp
  <2>2. /\ Becomes([p EXCEPT !.at = "name"])
        /\ lock' \in {lock, t, None}
    BY <1>14 DEF BringUp
  <2> QED BY <1>2, <2>1, <2>2
<1>15. CASE Name(t)
  <2>1. Allowed([p EXCEPT !.at = "each", !.todo = @ \ {p.adapter}])
    BY <1>1, <1>15 DEF Name
  <2>2. Allowed([p EXCEPT !.at = "start"])
    BY <1>1, <1>15 DEF Name
  <2>3. /\ \/ Becomes([p EXCEPT !.at = "each", !.todo = @ \ {p.adapter}])
           \/ Becomes([p EXCEPT !.at = "start"])
        /\ lock' \in {lock, t, None}
    BY <1>15 DEF Name, NextAdapter
  <2> QED BY <1>2, <2>1, <2>2, <2>3
<1>16. CASE StartHID(t)
  <2>1. Allowed([p EXCEPT !.at = "target"])
    BY <1>1, <1>16 DEF StartHID
  <2>2. /\ Becomes([p EXCEPT !.at = "target"])
        /\ lock' \in {lock, t, None}
    BY <1>16 DEF StartHID
  <2> QED BY <1>2, <2>1, <2>2
<1>17. CASE ReadLinks(t)
  <2>1. Allowed([p EXCEPT !.at = "links", !.seen = linked, !.todo = p.chosen \cap Present])
    BY <1>1, LinkedType DEF Present
  <2>2. /\ Becomes([p EXCEPT !.at = "links", !.seen = linked, !.todo = p.chosen \cap Present])
        /\ lock' \in {lock, t, None}
    BY <1>17 DEF ReadLinks
  <2> QED BY <1>2, <2>1, <2>2
<1>18. CASE ApplyLinks(t)
  <2>1. Allowed([Idle EXCEPT !.at = "expire"])
    BY <1>1 DEF Idle
  <2>2. Allowed(Idle)
    BY <1>1 DEF Idle
  <2>3. /\ \/ Becomes([Idle EXCEPT !.at = "expire"])
           \/ Becomes(Idle)
        /\ lock' \in {lock, t, None}
    BY <1>18 DEF ApplyLinks
  <2> QED BY <1>2, <2>1, <2>2, <2>3
<1>19. CASE Expire(t)
  <2>1. Allowed(Idle)
    BY <1>1 DEF Idle
  <2>2. \A x \in Adapters : Allowed([p EXCEPT !.at = "conceal", !.adapter = x])
    BY <1>1 DEF Idle
  <2>3. /\ \/ Becomes(Idle)
           \/ (\E x \in Adapters : Becomes([p EXCEPT !.at = "conceal", !.adapter = x]))
        /\ lock' \in {lock, t, None}
    BY <1>19 DEF Expire, Over, Typed, WorldTyped
  <2> QED BY <1>2, <2>1, <2>2, <2>3
<1>20. CASE Conceal(t)
  <2>1. Allowed(Idle)
    BY <1>1 DEF Idle
  <2>2. Allowed([Idle EXCEPT !.at = "expire"])
    BY <1>1 DEF Idle
  <2>3. /\ \/ Becomes(Idle)
           \/ Becomes([Idle EXCEPT !.at = "expire"])
        /\ lock' \in {lock, t, None}
    BY <1>20 DEF Conceal
  <2> QED BY <1>2, <2>1, <2>2, <2>3
<1>21. CASE ArmPairing(t)
  <2>1. Allowed([p EXCEPT !.at = "offer"])
    BY <1>1, <1>21 DEF ArmPairing
  <2>2. /\ Becomes([p EXCEPT !.at = "offer"])
        /\ lock' \in {lock, t, None}
    BY <1>21 DEF ArmPairing
  <2> QED BY <1>2, <2>1, <2>2
<1>22. CASE Offer(t) \/ AllDone(t) \/ Woken(t)
  <2>1. Allowed(Idle)
    BY <1>1 DEF Idle
  <2>2. /\ Becomes(Idle)
        /\ lock' \in {lock, t, None}
    BY <1>22 DEF Offer, AllDone, Woken
  <2> QED BY <1>2, <2>1, <2>2
<1>23. CASE EachOfAll(t)
  <2> DEFINE Visit(x) == [p EXCEPT !.at = "disconnect", !.adapter = x,
                                   !.todo = @ \ {x}, !.gone = @ \ {x}]
             Pass(x) == [p EXCEPT !.todo = @ \ {x}]
  <2>1. \A x \in p.todo : Allowed(Visit(x)) /\ Allowed(Pass(x))
    BY <1>1
  <2>2. lock' = lock
    BY <1>23 DEF EachOfAll
  <2>3. PICK x \in p.todo :
          \/ task' = [task EXCEPT ![t].at = "disconnect", ![t].adapter = x,
                                  ![t].todo = @ \ {x}, ![t].gone = @ \ {x}]
          \/ task' = [task EXCEPT ![t].todo = @ \ {x}]
    BY <1>23 DEF EachOfAll
  <2>4. CASE task' = [task EXCEPT ![t].at = "disconnect", ![t].adapter = x,
                                  ![t].todo = @ \ {x}, ![t].gone = @ \ {x}]
    <3>1. Becomes(Visit(x))
      BY <2>4
    <3> HIDE DEF Allowed, Becomes, Visit, Pass
    <3> QED BY <1>2, <2>1, <2>2, <3>1
  <2>5. CASE task' = [task EXCEPT ![t].todo = @ \ {x}]
    <3>1. Becomes(Pass(x))
      BY <2>5
    <3> HIDE DEF Allowed, Becomes, Visit, Pass
    <3> QED BY <1>2, <2>1, <2>2, <3>1
  <2> QED BY <2>3, <2>4, <2>5
<1>24. CASE \E forget \in BOOLEAN : Disconnected(t, forget)
  <2>1. Allowed(Idle)
    BY <1>1 DEF Idle
  <2>2. Allowed([p EXCEPT !.at = "all"])
    BY <1>1 DEF Idle
  <2>3. /\ \/ Becomes(Idle)
           \/ Becomes([p EXCEPT !.at = "all"])
        /\ lock' \in {lock, t, None}
    BY <1>24 DEF Disconnected
  <2> QED BY <1>2, <2>1, <2>2, <2>3
<1>25. CASE Sync(t)
  <2> DEFINE removed == registry \ {x \in Adapters : p.found[x] # 0}
             left(u) == [task[u] EXCEPT !.gone = IF task[u].at = "idle" THEN {} ELSE @ \cup removed]
  <2>1. /\ task' = [u \in Tasks |-> IF u = t THEN [p EXCEPT !.at = "lock"] ELSE left(u)]
        /\ lock' = lock
    BY <1>25 DEF Sync
  <2>2. Allowed([p EXCEPT !.at = "lock"])
    BY <1>1
  <2>3. ASSUME NEW u \in Tasks
        PROVE  /\ Allowed(left(u)) /\ left(u).at = task[u].at /\ left(u).adapter = task[u].adapter
               /\ left(u).todo = task[u].todo /\ left(u).chosen = task[u].chosen
    <3>1. task[u] \in TaskStates /\ (task[u].at \in InHand => task[u].adapter \in Adapters)
      BY DEF Typed, TasksTyped
    <3>2. removed \subseteq Adapters
      BY DEF Typed, WorldTyped
    <3> HIDE DEF removed
    <3> QED BY <3>1, <3>2
  <2> HIDE DEF left, TaskStates, Steps
  <2>4. TasksTyped'
    BY <1>1, <2>1, <2>2, <2>3 DEF TasksTyped
  <2>5. Moves(t)
    BY <2>1, <2>3 DEF Moves
  <2> QED BY <2>4, <2>5
<1> QED BY <1>3, <1>4, <1>5, <1>6, <1>7, <1>8, <1>9, <1>10, <1>11, <1>12, <1>13,
           <1>14, <1>15, <1>16, <1>17, <1>18, <1>19, <1>20, <1>21, <1>22, <1>23, <1>24, <1>25
        DEF TaskStep

LEMMA RestStep ==
    ASSUME Typed, NEW t \in Tasks, TaskStep(t) \/ Enumerate(t)
    PROVE  WorldTyped' /\ StackTyped' /\ StateTyped' /\ SavedTyped'
<1> USE DEF At
<1> DEFINE x == task[t].adapter
<1>1. /\ WorldTyped /\ StackTyped /\ StateTyped /\ SavedTyped
      /\ task[t].at \in InHand => x \in Adapters
  BY DEF Typed, TasksTyped
<1>2. \A y \in Adapters : state[y] \in Consistent
  BY <1>1 DEF StateTyped
<1>3. CASE \/ Enumerate(t) \/ Begin(t) \/ Dropped(t) \/ Abort(t) \/ ReadLinks(t)
           \/ EachOfAll(t) \/ AllDone(t)
  <2>1. UNCHANGED <<world, registry, state, saved, stack, connectable>>
    BY <1>3 DEF Enumerate, Begin, Dropped, Abort, ReadLinks, EachOfAll, AllDone
  <2> QED BY <1>1, <2>1 DEF world, stack, WorldTyped, StackTyped, StateTyped, SavedTyped
<1>4. CASE Drop(t) \/ Stopped(t)
  <2>1. UNCHANGED <<plugged, registry, state, saved, connectable>>
    BY <1>4 DEF Drop, Stopped, Unlink, world
  <2>2. linked' \subseteq linked
    BY <1>4 DEF Drop, Stopped, Unlink, world
  <2>3. StackTyped'
    BY <1>1, <1>4 DEF Drop, Stopped, StackTyped
  <2> QED BY <1>1, <2>1, <2>2, <2>3 DEF WorldTyped, StateTyped, SavedTyped
<1>5. CASE Sync(t)
  <2>1. task[t].found \in [Adapters -> Number]
    BY DEF Typed, TasksTyped, TaskStates
  <2>2. StateTyped'
    <3>1. ASSUME NEW s \in Consistent, NEW i \in Number, NEW b \in BOOLEAN
          PROVE  [s EXCEPT !.index = i, !.enabled = b] \in Consistent
      BY DEF Consistent, States
    <3> DEFINE found == task[t].found
               present == {y \in Adapters : found[y] # 0}
               kept(y) == IF y \in registry THEN state[y] ELSE Fresh
               enabled(y) == IF saved[y] # None THEN saved[y].enabled
                             ELSE IF \A z \in Adapters : saved[z] = None
                             THEN y \in First(present, found)
                             ELSE kept(y).enabled
    <3>2. state' = [y \in Adapters |->
                      IF y \in present
                      THEN [kept(y) EXCEPT !.index = found[y], !.enabled = enabled(y)]
                      ELSE state[y]]
      BY <1>5 DEF Sync
    <3>3. \A y \in Adapters : kept(y) \in Consistent /\ kept(y).enabled \in BOOLEAN
      BY <1>2, FreshType DEF Consistent, States
    <3>4. \A y \in Adapters : enabled(y) \in BOOLEAN
      <4>1. \A y \in Adapters : saved[y] # None => saved[y].enabled \in BOOLEAN
        BY <1>1 DEF SavedTyped, Choices
      <4> HIDE DEF kept, present, found
      <4> TAKE y \in Adapters
      <4>2. CASE saved[y] # None
        BY <4>1, <4>2
      <4>3. CASE saved[y] = None /\ \A z \in Adapters : saved[z] = None
        <5>1. enabled(y) = (y \in First(present, found))
          BY <4>3
        <5> HIDE DEF enabled
        <5> QED BY <5>1
      <4>4. CASE saved[y] = None /\ ~ \A z \in Adapters : saved[z] = None
        BY <3>3, <4>4
      <4> QED BY <4>2, <4>3, <4>4
    <3>5. \A y \in Adapters : found[y] \in Number
      BY <2>1
    <3> HIDE DEF found, kept, enabled, present
    <3>6. \A y \in Adapters : [kept(y) EXCEPT !.index = found[y], !.enabled = enabled(y)] \in Consistent
      BY <3>1, <3>3, <3>4, <3>5
    <3> QED BY <1>2, <3>2, <3>6 DEF StateTyped
  <2>3. WorldTyped' /\ StackTyped' /\ SavedTyped'
    BY <1>1, <1>5 DEF Sync, WorldTyped, StackTyped, SavedTyped, world
  <2> QED BY <2>2, <2>3
<1>6. CASE Quiet(t)
  <2>1. UNCHANGED <<world, registry, saved, stack, connectable>>
    BY <1>6 DEF Quiet
  <2>2. \A y \in Adapters : ~ state[y].quieted => [state[y] EXCEPT !.configured = TRUE] \in Consistent
    BY <1>2 DEF Consistent, States
  <2>3. StateTyped'
    <3>1. CASE UNCHANGED state
      BY <1>1, <3>1 DEF StateTyped
    <3>2. ASSUME NEW y \in Adapters, ~ state[y].quieted,
                 state' = [state EXCEPT ![y].configured = TRUE]
          PROVE  StateTyped'
      <4>1. state' = [state EXCEPT ![y] = [state[y] EXCEPT !.configured = TRUE]]
        BY <3>2
      <4> QED BY <1>1, <2>2, <3>2, <4>1 DEF StateTyped
    <3>3. task[t].todo \subseteq Adapters
      BY DEF Typed, TasksTyped, TaskStates
    <3> QED BY <1>6, <3>1, <3>2, <3>3 DEF Quiet
  <2> QED BY <1>1, <2>1, <2>3 DEF world, stack, WorldTyped, StackTyped, SavedTyped
<1>7. CASE Silence(t)
  <2>1. x \in Adapters
    BY <1>1, <1>7 DEF Silence, InHand
  <2> DEFINE silenced == IF x \in registry \ task[t].gone
                         THEN [Moved(state[x], "quiet") EXCEPT !.window = "none", !.peer = FALSE]
                         ELSE state[x]
  <2>2. silenced \in Consistent
    <3>1. Moved(state[x], "quiet") \in Consistent
      BY <1>2, <2>1, Written DEF Phases
    <3>2. [Moved(state[x], "quiet") EXCEPT !.window = "none", !.peer = FALSE] \in Consistent
      BY <3>1, Written
    <3> QED BY <1>2, <2>1, <3>2
  <2>3. Flagged(silenced, x, FALSE, TRUE) \in Consistent
    <3> HIDE DEF silenced
    <3>1. Flagged(silenced, x, FALSE, ~ FALSE) \in Consistent
      BY <2>2, FlaggedType
    <3> QED BY <3>1 DEF Flagged
  <2>4. state' = [state EXCEPT ![x] = Flagged(silenced, x, FALSE, TRUE)]
    BY <1>7 DEF Silence
  <2>5. StateTyped'
    <3> HIDE DEF silenced
    <3> QED BY <1>1, <2>3, <2>4 DEF StateTyped
  <2> QED BY <1>1, <1>7, <2>1, <2>5 DEF Silence, world, stack, WorldTyped, StackTyped, SavedTyped
<1>8. CASE EnsureConnectable(t)
  BY <1>1, <1>8 DEF EnsureConnectable, Present, world, stack, WorldTyped, StackTyped,
                    StateTyped, SavedTyped
<1>9. CASE Configure(t)
  <2>1. task[t].todo \subseteq Adapters
    BY DEF Typed, TasksTyped, TaskStates
  <2>2. \A y \in Adapters : Moved(state[y], "configuring") \in Consistent
    BY <1>2, Written DEF Phases
  <2>3. StateTyped'
    <3>1. CASE UNCHANGED state
      BY <1>1, <3>1 DEF StateTyped
    <3>2. ASSUME NEW y \in Adapters, Write(t, y, Moved(state[y], "configuring")) PROVE StateTyped'
      BY <1>1, <2>2, <3>2, WriteType
    <3> QED BY <1>9, <2>1, <3>1, <3>2 DEF Configure
  <2> QED BY <1>1, <1>9, <2>3 DEF Configure, world, stack, WorldTyped, StackTyped, SavedTyped
<1>10. CASE BringUpFails(t) \/ StartFails(t)
  <2>1. x \in Adapters
    BY <1>1, <1>10 DEF BringUpFails, StartFails, InHand, Visiting
  <2>2. [Moved(state[x], "degraded") EXCEPT !.error = TRUE] \in Consistent
    <3>1. Moved(state[x], "degraded") \in Consistent
      BY <1>2, <2>1, Written DEF Phases
    <3> QED BY <3>1, Written
  <2>3. StateTyped'
    BY <1>1, <1>10, <2>2, WriteType DEF BringUpFails, StartFails
  <2> QED BY <1>1, <1>10, <2>3 DEF BringUpFails, StartFails, world, stack, WorldTyped,
                                   StackTyped, SavedTyped
<1>11. CASE BringUp(t)
  <2>1. x \in Adapters
    BY <1>1, <1>11 DEF BringUp, InHand, Visiting
  <2>2. Host(x) \in BOOLEAN
    BY <1>1, <2>1, HostType
  <2>3. [enabled |-> TRUE, host |-> Host(x), numbered |-> TRUE] \in Choices
    BY <2>2 DEF Choices
  <2>4. SavedTyped'
    <3>1. CASE UNCHANGED saved
      BY <1>1, <3>1 DEF SavedTyped
    <3>2. CASE saved' = [saved EXCEPT ![x] = [enabled |-> TRUE, host |-> Host(x), numbered |-> TRUE]]
      <4> HIDE DEF Choices
      <4> QED BY <1>1, <2>3, <3>2 DEF SavedTyped
    <3> QED BY <1>11, <3>1, <3>2 DEF BringUp
  <2> QED BY <1>1, <1>11, <2>4 DEF BringUp, world, stack, WorldTyped, StackTyped, StateTyped
<1>12. CASE Name(t)
  <2>1. x \in Adapters
    BY <1>1, <1>12 DEF Name, InHand, Visiting
  <2> DEFINE flagged == Flagged(state[x], x, TRUE, FALSE)
  <2>2. flagged \in Consistent /\ Moved(flagged, "degraded") \in Consistent
    <3>1. Flagged(state[x], x, TRUE, ~ TRUE) \in Consistent
      BY <1>2, <2>1, FlaggedType
    <3>2. flagged \in Consistent
      BY <3>1 DEF Flagged
    <3> HIDE DEF flagged
    <3> QED BY <3>2, Written DEF Phases
  <2>3. \E s \in Consistent : state' = [state EXCEPT ![x] = s]
    BY <1>12, <2>2 DEF Name
  <2>4. StateTyped'
    BY <1>1, <2>3 DEF StateTyped
  <2>5. StackTyped'
    BY <1>1, <1>12 DEF Name, StackTyped
  <2> QED BY <1>1, <1>12, <2>1, <2>4, <2>5 DEF Name, world, WorldTyped, SavedTyped
<1>13. CASE StartHID(t) \/ Listen(t)
  <2>1. x \in Adapters
    BY <1>1, <1>13 DEF StartHID, Listen, InHand, Visiting
  <2>2. [state[x] EXCEPT !.error = FALSE] \in Consistent /\ Moved(state[x], "listening") \in Consistent
    BY <1>2, <2>1, Written DEF Phases
  <2>3. StateTyped'
    BY <1>1, <1>13, <2>2, WriteType DEF StartHID, Listen
  <2>4. StackTyped'
    BY <1>1, <1>13, <2>1 DEF StartHID, Listen, StackTyped
  <2> QED BY <1>1, <1>13, <2>3, <2>4 DEF StartHID, Listen, world, WorldTyped, SavedTyped
<1>14. CASE ApplyLinks(t)
  <2>1. \A y \in Adapters : \A up : Corrected(state[y], up) \in Consistent
    BY <1>2, Written
  <2>2. StateTyped'
    BY <1>2, <1>14, <2>1 DEF ApplyLinks, StateTyped
  <2> QED BY <1>1, <1>14, <2>2 DEF ApplyLinks, world, stack, WorldTyped, StackTyped, SavedTyped
<1>15. CASE Expire(t)
  <2>1. \A y \in Adapters : Cleared(state[y]) \in Consistent
    BY <1>2, Written
  <2>2. StateTyped'
    BY <1>1, <1>15, <2>1 DEF Expire, Over, StateTyped, WorldTyped
  <2> QED BY <1>1, <1>15, <2>2 DEF Expire, world, stack, WorldTyped, StackTyped, SavedTyped
<1>16. CASE Conceal(t) \/ Woken(t)
  <2>1. x \in Adapters
    BY <1>1, <1>16 DEF Conceal, Woken, InHand
  <2> QED BY <1>1, <1>16, <2>1 DEF Conceal, Woken, world, stack, WorldTyped, StackTyped,
                                   StateTyped, SavedTyped
<1>17. CASE ArmPairing(t)
  <2>1. Armed(state[x]) \in Consistent
    BY <1>1, <1>2, <1>17, Written DEF ArmPairing, InHand
  <2>2. StateTyped'
    BY <1>1, <1>17, <2>1, WriteType DEF ArmPairing
  <2> QED BY <1>1, <1>17, <2>2 DEF ArmPairing, world, stack, WorldTyped, StackTyped, SavedTyped
<1>18. CASE Offer(t)
  <2>1. x \in Adapters
    BY <1>1, <1>18 DEF Offer, InHand
  <2>2. SavedTyped'
    <3>1. CASE UNCHANGED saved
      BY <1>1, <3>1 DEF SavedTyped
    <3>2. CASE Host(x) /\ saved' = [saved EXCEPT ![x].host = FALSE]
      BY <1>1, <2>1, <3>2, ForgetType
    <3> QED BY <1>18, <3>1, <3>2 DEF Offer
  <2> QED BY <1>1, <1>18, <2>1, <2>2 DEF Offer, Unlink, stack, WorldTyped, StackTyped, StateTyped
<1>19. ASSUME NEW forget \in BOOLEAN, Disconnected(t, forget)
       PROVE  WorldTyped' /\ StackTyped' /\ StateTyped' /\ SavedTyped'
  <2>1. x \in Adapters
    BY <1>1, <1>19 DEF Disconnected, InHand
  <2>2. SavedTyped'
    <3>1. CASE UNCHANGED saved
      BY <1>1, <3>1 DEF SavedTyped
    <3>2. CASE Host(x) /\ saved' = [saved EXCEPT ![x].host = FALSE]
      BY <1>1, <2>1, <3>2, ForgetType
    <3> QED BY <1>19, <3>1, <3>2 DEF Disconnected
  <2>3. StateTyped'
    <3>1. Noted(state[x], FALSE) \in Consistent
      BY <1>2, <2>1, Written
    <3> QED BY <1>1, <1>19, <3>1, WriteType DEF Disconnected
  <2> QED BY <1>1, <1>19, <2>1, <2>2, <2>3 DEF Disconnected, Unlink, stack, WorldTyped, StackTyped
<1> QED BY <1>3, <1>4, <1>5, <1>6, <1>7, <1>8, <1>9, <1>10, <1>11, <1>12, <1>13, <1>14,
           <1>15, <1>16, <1>17, <1>18, <1>19 DEF TaskStep

LEMMA TypedStep ==
    ASSUME Typed, NEW t \in Tasks, TaskStep(t) \/ Enumerate(t)
    PROVE  Typed' /\ Moves(t)
  BY TasksStep, RestStep DEF Typed

-----------------------------------------------------------------------------
(* The pass is alone: a task that does not hold the lock changes at most   *)
(* which channels there still are, and nobody else is in the pass of the   *)
(* one that does.                                                          *)

Outsiders(t) == \A u \in Tasks \ {t} : lock' = u <=> lock = u

LEMMA AloneStep ==
    ASSUME Alone, NEW t \in Tasks, Moves(t), Outsiders(t),
           lock' = t <=> task'[t].at \in Passing
    PROVE  Alone'
  BY DEF Alone, Moves, Outsiders

\* A step that stops and starts nothing, and gives no adapter a channel.
LEMMA ShrinkStep ==
    ASSUME Inv, Typed', NEW t \in Tasks, Moves(t), Outsiders(t),
           lock' = t <=> task'[t].at \in Passing,
           UNCHANGED <<servers, bound>>,
           \A x \in Adapters : channel'[x] \in {channel[x], "none"},
           ~ At(t, "stop"), task'[t].at # "stop", Knows(t)', Bounded(t)'
    PROVE  Inv'
<1>1. Alone'
  BY AloneStep DEF Inv
<1>2. \A x : Stopping(x) => Stopping(x)'
  BY DEF Stopping, At, Moves
<1>3. Backed'
  BY <1>2 DEF Inv, Backed
<1>4. Channels' \subseteq Channels
  BY DEF Channels
<1>5. ASSUME NEW u \in Tasks \ {t} PROVE Knows(u)' /\ Bounded(u)'
  <2>1. Knows(u) /\ Bounded(u)
    BY DEF Inv, InPass
  <2>2. /\ task'[u].at = task[u].at /\ task'[u].adapter = task[u].adapter
        /\ task'[u].todo = task[u].todo /\ task'[u].chosen = task[u].chosen
    BY DEF Moves
  <2>3. Knows(u)'
    BY <2>1, <2>2 DEF Knows, At
  <2>4. Bounded(u)'
    BY <1>4, <2>1, <2>2 DEF Bounded
  <2> QED BY <2>3, <2>4
<1> QED BY <1>1, <1>3, <1>5 DEF Inv, InPass

\* A step of the pass.
LEMMA PassStep ==
    ASSUME Inv, Typed', NEW t \in Tasks, Moves(t), task[t].at \in Passing, lock' = lock,
           task'[t].at \in Passing, Knows(t)', Bounded(t)', Backed'
    PROVE  Inv'
<1>1. Alone'
  BY AloneStep DEF Inv, Alone, Outsiders
<1>2. lock = t
  BY DEF Inv, Alone
<1>3. ASSUME NEW u \in Tasks \ {t} PROVE Knows(u)' /\ Bounded(u)'
  <2>1. task'[u].at \notin Passing
    BY <1>2 DEF Inv, Alone, Moves
  <2> QED BY <2>1 DEF Knows, Bounded, At, Passing, Dropping, Visiting
<1> QED BY <1>1, <1>3 DEF Inv, InPass

\* What the task that holds the lock knows of the others.
LEMMA InsideAlone ==
    ASSUME Inv, NEW t \in Tasks, task[t].at \in Passing
    PROVE  /\ lock = t
           /\ \A u \in Tasks \ {t} : task[u].at \notin Passing
           /\ \A x : Stopping(x) <=> At(t, "stop") /\ task[t].adapter = x
           /\ Knows(t) /\ Bounded(t)
<1>1. lock = t /\ \A u \in Tasks \ {t} : task[u].at \notin Passing
  BY DEF Inv, Alone
<1> QED BY <1>1 DEF Inv, InPass, Stopping, At, Passing, Dropping

LEMMA StaysOut ==
    ASSUME Inv, Typed', NEW t \in Tasks, Moves(t), task[t].at \notin Passing,
           task'[t].at \notin Passing, lock' = lock, UNCHANGED <<servers, bound>>,
           \A x \in Adapters : channel'[x] \in {channel[x], "none"}
    PROVE  Inv'
<1>1. Knows(t)' /\ Bounded(t)'
  BY DEF Knows, Bounded, At, Passing, Dropping, Visiting
<1>2. ~ At(t, "stop") /\ task'[t].at # "stop"
  BY DEF At, Passing, Dropping
<1>3. lock' = t <=> task'[t].at \in Passing
  BY DEF Inv, Alone
<1> QED BY <1>1, <1>2, <1>3, ShrinkStep DEF Outsiders

-----------------------------------------------------------------------------
(* The steps of the pass.                                                  *)

LEMMA BeginStep == ASSUME Inv, Typed', NEW t \in Tasks, Moves(t), Begin(t) PROVE Inv'
<1>1. /\ task[t].at = "lock" /\ lock = None /\ lock' = t
      /\ task'[t].at = "drop" /\ task'[t].chosen = Chosen /\ task'[t].todo = Channels \ Chosen
      /\ UNCHANGED <<channel, servers, bound>>
  BY DEF Begin, At, stack, Inv, Typed, TasksTyped, TaskStates
<1>2. Channels' = Channels
  BY <1>1 DEF Channels
<1>3. Knows(t)' /\ Bounded(t)'
  BY <1>1, <1>2, ChosenBounded DEF Inv, Knows, Bounded, At, Passing, Dropping, Visiting
<1>4. Outsiders(t)
  BY <1>1, Consts DEF Outsiders
<1> QED BY <1>1, <1>3, <1>4, ShrinkStep DEF At, Passing, Dropping

LEMMA DropStep == ASSUME Inv, Typed', NEW t \in Tasks, Moves(t), Drop(t) PROVE Inv'
<1>1. task[t].at = "drop" /\ lock' = lock /\ task[t] \in TaskStates
  BY DEF Drop, At, Inv, Typed, TasksTyped
<1>2. task[t].at \in Passing
  BY <1>1 DEF Passing, Dropping
<1>3. Knows(t) /\ Bounded(t) /\ \A x : ~ Stopping(x)
  BY <1>1, <1>2, InsideAlone DEF At
<1>4. PICK x \in task[t].todo :
         IF x \in servers
         THEN /\ servers' = servers \ {x}
              /\ task' = [task EXCEPT ![t].at = "stop", ![t].adapter = x]
              /\ UNCHANGED <<channel, bound>>
         ELSE /\ channel' = [channel EXCEPT ![x] = "none"]
              /\ task' = [task EXCEPT ![t].todo = @ \ {x}]
              /\ UNCHANGED <<servers, bound>>
  BY DEF Drop
<1>5. CASE x \in servers
  <2>1. /\ task'[t].at = "stop" /\ task'[t].adapter = x
        /\ task'[t].todo = task[t].todo /\ task'[t].chosen = task[t].chosen
    BY <1>1, <1>4, <1>5 DEF Inv, Typed, TasksTyped, TaskStates
  <2>2. x \in bound' \ servers' /\ Channels' = Channels
    BY <1>4, <1>5 DEF Inv, Backed, Channels
  <2>3. Knows(t)' /\ Bounded(t)'
    BY <1>1, <1>3, <2>1, <2>2 DEF Knows, Bounded, At, Passing, Dropping, Visiting
  <2>4. \A y : Stopping(y)' <=> y = x
    <3>1. Stopping(x)'
      BY <2>1 DEF Stopping, At
    <3>2. \A u \in Tasks \ {t} : task'[u].at # "stop"
      BY <1>1, <1>2, InsideAlone DEF Moves, Passing, Dropping
    <3> QED BY <2>1, <3>1, <3>2 DEF Stopping, At
  <2>5. Backed'
    BY <1>3, <1>4, <1>5, <2>4 DEF Inv, Backed
  <2> QED BY <1>1, <1>2, <2>1, <2>3, <2>5, PassStep DEF Passing, Dropping
<1>6. CASE x \notin servers
  <2>1. /\ task'[t].at = "drop" /\ task'[t].todo = task[t].todo \ {x}
        /\ task'[t].chosen = task[t].chosen
    BY <1>1, <1>4, <1>6 DEF Inv, Typed, TasksTyped, TaskStates
  <2>2. Channels' \subseteq Channels \ {x} /\ \A y \in Adapters : channel'[y] \in {channel[y], "none"}
    BY <1>4, <1>6 DEF Inv, Typed, StackTyped, Channels
  <2>3. Knows(t)' /\ Bounded(t)'
    BY <1>1, <1>3, <2>1, <2>2 DEF Knows, Bounded, At, Passing, Dropping, Visiting
  <2>4. UNCHANGED <<servers, bound>>
    BY <1>4, <1>6
  <2>5. Outsiders(t) /\ (lock' = t <=> task'[t].at \in Passing)
    BY <1>1, <1>2, <2>1, InsideAlone DEF Outsiders
  <2> QED BY <1>1, <2>1, <2>2, <2>3, <2>4, <2>5, ShrinkStep DEF At
<1> QED BY <1>5, <1>6

LEMMA StoppedStep == ASSUME Inv, Typed', NEW t \in Tasks, Moves(t), Stopped(t) PROVE Inv'
<1> DEFINE x == task[t].adapter
<1>1. /\ task[t].at = "stop" /\ lock' = lock /\ x \in Adapters
      /\ bound' = bound \ {x} /\ servers' = servers /\ channel' = [channel EXCEPT ![x] = "none"]
      /\ task'[t].at = "drop" /\ task'[t].todo = task[t].todo \ {x}
      /\ task'[t].chosen = task[t].chosen
  BY DEF Stopped, At, Inv, Typed, TasksTyped, TaskStates, InHand
<1>2. task[t].at \in Passing /\ task'[t].at \in Passing
  BY <1>1 DEF Passing, Dropping
<1>3. Knows(t) /\ Bounded(t) /\ x \notin servers /\ \A y : Stopping(y) <=> y = x
  BY <1>1, <1>2, InsideAlone DEF Knows, At
<1>4. Channels' = Channels \ {x}
  BY <1>1 DEF Inv, Typed, StackTyped, Channels
<1>5. Knows(t)' /\ Bounded(t)'
  BY <1>1, <1>3, <1>4 DEF Knows, Bounded, At, Passing, Dropping, Visiting
<1>6. Backed'
  BY <1>1, <1>3 DEF Inv, Typed, StackTyped, Backed
<1> QED BY <1>1, <1>2, <1>5, <1>6, PassStep

\* Steps of the pass, after its dropping, that leave the stack alone.
LEMMA CarryOn ==
    ASSUME Inv, Typed', NEW t \in Tasks, Moves(t), lock' = lock, UNCHANGED stack,
           task[t].at \in Passing \ Dropping, task'[t].at \in Passing \ Dropping,
           task'[t].chosen = task[t].chosen, Knows(t)',
           task'[t].at \in Visiting \cup {"each"} => task'[t].todo \subseteq task'[t].chosen,
           task'[t].at \in Visiting => task'[t].adapter \in task'[t].chosen
    PROVE  Inv'
<1>1. Knows(t) /\ Bounded(t) /\ \A x : ~ Stopping(x)
  BY InsideAlone DEF Dropping, At
<1>2. Channels' = Channels /\ UNCHANGED <<channel, servers, bound>>
  BY DEF Channels, stack
<1>3. Bounded(t)'
  BY <1>1, <1>2 DEF Bounded
<1>4. Backed'
  BY <1>1, <1>2 DEF Inv, Backed
<1> QED BY <1>3, <1>4, PassStep

LEMMA DroppedStep == ASSUME Inv, Typed', NEW t \in Tasks, Moves(t), Dropped(t) PROVE Inv'
<1>1. /\ task[t].at = "drop" /\ task[t].todo = {} /\ lock' = lock /\ UNCHANGED stack
      /\ task'[t].at = "quiet" /\ task'[t].chosen = task[t].chosen
  BY DEF Dropped, At, Inv, Typed, TasksTyped, TaskStates
<1>2. task[t].at \in Passing /\ task'[t].at \in Passing
  BY <1>1 DEF Passing, Dropping
<1>3. Knows(t) /\ Bounded(t) /\ lock = t
  BY <1>2, InsideAlone
<1>4. Channels' = Channels /\ UNCHANGED <<channel, servers, bound>>
  BY <1>1 DEF Channels, stack
<1>5. Knows(t)' /\ Bounded(t)'
  BY <1>1, <1>3, <1>4 DEF Knows, Bounded, At, Passing, Dropping, Visiting
<1> QED BY <1>1, <1>2, <1>3, <1>4, <1>5, ShrinkStep DEF At, Outsiders

\* The pass is over, or ends in an exception.
LEMMA EndStep == ASSUME Inv, Typed', NEW t \in Tasks, Moves(t), Abort(t) \/ ApplyLinks(t) PROVE Inv'
<1>1. /\ task[t].at \in {"quiet", "links"} /\ lock' = None /\ UNCHANGED stack
      /\ task'[t].at \in {"idle", "dead", "expire"}
  BY DEF Abort, ApplyLinks, At, Idle, Inv, Typed, TasksTyped
<1>2. task[t].at \in Passing /\ task'[t].at \notin Passing /\ UNCHANGED <<channel, servers, bound>>
  BY <1>1 DEF Passing, Dropping, Visiting, stack
<1>3. Knows(t)' /\ Bounded(t)'
  BY <1>1 DEF Knows, Bounded, At, Passing, Dropping, Visiting
<1>4. Outsiders(t) /\ ~ (lock' = t)
  BY <1>1, <1>2, InsideAlone, Consts DEF Outsiders
<1> QED BY <1>1, <1>2, <1>3, <1>4, ShrinkStep DEF At

LEMMA SilencingStep ==
    ASSUME Inv, Typed', NEW t \in Tasks, Moves(t),
           Quiet(t) \/ Silence(t) \/ EnsureConnectable(t) \/ ReadLinks(t)
    PROVE  Inv'
<1>1. task[t] \in TaskStates
  BY DEF Inv, Typed, TasksTyped
<1>2. /\ task[t].at \in {"quiet", "silence", "each"} /\ lock' = lock /\ UNCHANGED stack
      /\ task'[t].at \in {"quiet", "silence", "each", "links"} /\ task'[t].chosen = task[t].chosen
      /\ task'[t].at = "each" => task'[t].todo = task[t].chosen
  <2>1. CASE Quiet(t)
    BY <1>1, <2>1 DEF Quiet, At, Inv, Typed, TasksTyped, TaskStates
  <2>2. CASE Silence(t)
    BY <1>1, <2>2 DEF Silence, At, Inv, Typed, TasksTyped, TaskStates
  <2>3. CASE EnsureConnectable(t)
    BY <1>1, <2>3 DEF EnsureConnectable, At, Inv, Typed, TasksTyped, TaskStates
  <2>4. CASE ReadLinks(t)
    BY <1>1, <2>4 DEF ReadLinks, At, Inv, Typed, TasksTyped, TaskStates
  <2> QED BY <2>1, <2>2, <2>3, <2>4
<1>3. Knows(t)'
  BY <1>2 DEF Knows, At
<1>4. task[t].at \in Passing \ Dropping /\ task'[t].at \in Passing \ Dropping
  BY <1>2 DEF Passing, Dropping
<1> QED BY <1>2, <1>3, <1>4, CarryOn DEF Visiting

LEMMA ConfigureStep ==
    ASSUME Inv, Typed', NEW t \in Tasks, Moves(t), Configure(t) \/ BringUpFails(t) \/ BringUp(t)
    PROVE  Inv'
<1>1. task[t] \in TaskStates
  BY DEF Inv, Typed, TasksTyped
<1>2. /\ task[t].at \in {"each", "bring up"} /\ lock' = lock /\ UNCHANGED stack
  BY DEF Configure, BringUpFails, BringUp, At
<1>3. task[t].at \in Passing \ Dropping
  BY <1>2 DEF Passing, Dropping, Visiting
<1>4. /\ task[t].todo \subseteq task[t].chosen
      /\ task[t].at = "bring up" => task[t].adapter \in task[t].chosen
  BY <1>2, <1>3, InsideAlone DEF Bounded, Visiting
<1>5. /\ task'[t].at \in {"each", "bring up", "name"} /\ task'[t].chosen = task[t].chosen
      /\ task'[t].todo \subseteq task[t].todo
      /\ task'[t].at # "each" => task'[t].adapter \in task[t].chosen
  <2>1. CASE Configure(t)
    <3>1. PICK x \in task[t].todo :
             \/ task' = [task EXCEPT ![t].todo = @ \ {x}]
             \/ task' = [task EXCEPT ![t].at = "bring up", ![t].adapter = x]
      BY <2>1 DEF Configure
    <3>2. task[t].at = "each" /\ task \in [Tasks -> TaskStates]
      BY <2>1 DEF Configure, At, Inv, Typed, TasksTyped
    <3>3. CASE task' = [task EXCEPT ![t].todo = @ \ {x}]
      BY <1>1, <3>2, <3>3 DEF TaskStates
    <3>4. CASE task' = [task EXCEPT ![t].at = "bring up", ![t].adapter = x]
      BY <1>1, <1>4, <3>2, <3>4 DEF TaskStates
    <3> QED BY <3>1, <3>3, <3>4
  <2>2. CASE BringUpFails(t)
    BY <1>1, <2>2 DEF BringUpFails, NextAdapter, At, Inv, Typed, TasksTyped, TaskStates
  <2>3. CASE BringUp(t)
    BY <1>1, <1>4, <2>3 DEF BringUp, Goto, At, Inv, Typed, TasksTyped, TaskStates
  <2> QED BY <2>1, <2>2, <2>3
<1>6. Knows(t)' /\ task'[t].at \in Passing \ Dropping
  BY <1>5 DEF Knows, At, Passing, Dropping, Visiting
<1> QED BY <1>2, <1>3, <1>4, <1>5, <1>6, CarryOn DEF Visiting

\* The steps that give the adapter in hand its server and its channel.
LEMMA AddingStep ==
    ASSUME Inv, Typed', NEW t \in Tasks, Moves(t),
           Name(t) \/ StartHID(t) \/ StartFails(t) \/ Listen(t)
    PROVE  Inv'
<1> DEFINE x == task[t].adapter
<1>1. task[t] \in TaskStates /\ lock' = lock /\ task[t].at \in {"name", "start", "target"}
  BY DEF Name, StartHID, StartFails, Listen, At, Inv, Typed, TasksTyped
<1>2. task[t].at \in Passing \ Dropping
  BY <1>1 DEF Passing, Dropping, Visiting
<1>3. /\ Knows(t) /\ Channels \subseteq task[t].chosen /\ task[t].todo \subseteq task[t].chosen
      /\ x \in task[t].chosen /\ Cardinality(task[t].chosen) <= MaxOutputs
      /\ \A y : ~ Stopping(y)
  BY <1>1, <1>2, InsideAlone DEF Bounded, Visiting, Dropping, At
<1>4. x \in Adapters /\ servers = bound /\ \A y \in Adapters : channel[y] = "real" => y \in servers
  BY <1>1, <1>3 DEF Inv, Typed, TasksTyped, StackTyped, Backed, InHand, Visiting
<1>5. /\ task'[t].at \in {"each", "start", "target"} /\ task'[t].chosen = task[t].chosen
      /\ task'[t].todo \subseteq task[t].todo
      /\ task'[t].at # "each" => task'[t].adapter = x
      /\ task'[t].at = "start" => x \notin bound'
      /\ task'[t].at = "target" => x \in servers'
      /\ servers' = bound' /\ servers \subseteq servers'
      /\ \A y \in Adapters : /\ channel'[y] = channel[y] \/ y = x
                             /\ channel'[y] = "real" => y \in servers'
  <2>1. CASE Name(t)
    <3>1. /\ task \in [Tasks -> TaskStates] /\ channel \in [Adapters -> {"none", "null", "real"}]
          /\ UNCHANGED <<servers, bound>>
      BY <2>1 DEF Name, Inv, Typed, TasksTyped, StackTyped
    <3>2. CASE x \in servers
      <4>1. /\ task' = [task EXCEPT ![t].at = "each", ![t].todo = @ \ {x}]
            /\ channel' = [channel EXCEPT ![x] = "null"]
        BY <2>1, <3>2 DEF Name, NextAdapter
      <4> QED BY <1>1, <1>4, <3>1, <4>1 DEF TaskStates
    <3>3. CASE x \notin servers
      <4>1. task' = [task EXCEPT ![t].at = "start"] /\ UNCHANGED channel
        BY <2>1, <3>3 DEF Name, Goto
      <4> QED BY <1>1, <1>4, <3>1, <3>3, <4>1 DEF TaskStates
    <3> QED BY <3>2, <3>3
  <2>2. CASE StartHID(t)
    BY <1>1, <1>4, <2>2 DEF StartHID, Goto, Inv, Typed, TasksTyped, StackTyped, TaskStates
  <2>3. CASE StartFails(t)
    BY <1>1, <1>4, <2>3 DEF StartFails, NextAdapter, Inv, Typed, TasksTyped, StackTyped, TaskStates
  <2>4. CASE Listen(t)
    BY <1>1, <1>3, <1>4, <2>4 DEF Listen, NextAdapter, Knows, At, Inv, Typed, TasksTyped,
                                  StackTyped, TaskStates
  <2> QED BY <2>1, <2>2, <2>3, <2>4
<1>6. \A y : ~ Stopping(y)'
  <2>1. \A u \in Tasks \ {t} : task'[u].at # "stop"
    BY <1>2, InsideAlone DEF Moves, Passing, Dropping
  <2>2. task'[t].at # "stop"
    BY <1>5
  <2> QED BY <2>1, <2>2 DEF Stopping, At
<1>7. Channels' \subseteq Channels \cup {x}
  BY <1>5 DEF Channels
<1>8. Knows(t)'
  BY <1>5 DEF Knows, At
<1>9. Bounded(t)'
  BY <1>3, <1>5, <1>7 DEF Bounded, Passing, Dropping, Visiting
<1>10. Backed'
  BY <1>6, <1>5 DEF Backed
<1>11. task'[t].at \in Passing
  BY <1>5 DEF Passing, Dropping, Visiting
<1> QED BY <1>1, <1>2, <1>8, <1>9, <1>10, <1>11, PassStep

-----------------------------------------------------------------------------
(* The steps outside the pass.                                             *)

LEMMA OutOfPass ==
    ASSUME Inv, Typed', NEW t \in Tasks, Moves(t),
           \/ Enumerate(t) \/ Sync(t) \/ Expire(t) \/ Conceal(t) \/ ArmPairing(t) \/ Offer(t)
           \/ EachOfAll(t) \/ AllDone(t) \/ Woken(t)
           \/ \E forget \in BOOLEAN : Disconnected(t, forget)
    PROVE  Inv'
<1> USE DEF At, Goto
<1> DEFINE Out == {"idle", "sync", "lock", "expire", "conceal", "arm", "offer", "disconnect", "all", "wake"}
<1>1. task \in [Tasks -> TaskStates]
  BY DEF Inv, Typed, TasksTyped
<1>2. /\ task[t].at \in Out /\ task'[t].at \in Out /\ lock' = lock /\ UNCHANGED <<servers, bound>>
      /\ \A x \in Adapters : channel'[x] \in {channel[x], "none"}
  <2> USE <1>1 DEF TaskStates
  <2>1. CASE Enumerate(t)
    BY <2>1 DEF Enumerate, stack, Idle
  <2>2. CASE Sync(t)
    BY <2>2 DEF Sync
  <2>3. CASE Expire(t) \/ Conceal(t) \/ ArmPairing(t)
    BY <2>3 DEF Expire, Conceal, ArmPairing, stack, Idle
  <2>4. CASE Offer(t) \/ AllDone(t) \/ Woken(t)
    BY <2>4 DEF Offer, AllDone, Woken, stack, Idle
  <2>5. CASE EachOfAll(t)
    <3>1. /\ task[t].at = "all" /\ UNCHANGED <<stack, lock>>
          /\ \E x \in task[t].todo :
               \/ task' = [task EXCEPT ![t].at = "disconnect", ![t].adapter = x,
                                       ![t].todo = @ \ {x}, ![t].gone = @ \ {x}]
               \/ task' = [task EXCEPT ![t].todo = @ \ {x}]
      BY <2>5 DEF EachOfAll
    <3> QED BY <3>1 DEF stack
  <2>6. CASE \E forget \in BOOLEAN : Disconnected(t, forget)
    <3>1. /\ task[t].at = "disconnect" /\ UNCHANGED <<stack, lock>>
          /\ \/ task' = [task EXCEPT ![t] = Idle]
             \/ task' = [task EXCEPT ![t] = [@ EXCEPT !.at = "all"]]
      BY <2>6 DEF Disconnected
    <3> QED BY <3>1 DEF stack, Idle
  <2> QED BY <2>1, <2>2, <2>3, <2>4, <2>5, <2>6
<1>3. task[t].at \notin Passing /\ task'[t].at \notin Passing
  BY <1>2 DEF Passing, Dropping, Visiting
<1> QED BY <1>2, <1>3, StaysOut

LEMMA TaskStepStep == ASSUME Inv, NEW t \in Tasks, TaskStep(t) \/ Enumerate(t) PROVE Inv'
<1>1. Typed' /\ Moves(t)
  BY TypedStep DEF Inv
<1>2. CASE Begin(t) \/ Drop(t) \/ Stopped(t) \/ Dropped(t) \/ Abort(t) \/ ApplyLinks(t)
  BY <1>1, <1>2, BeginStep, DropStep, StoppedStep, DroppedStep, EndStep
<1>3. CASE \/ Quiet(t) \/ Silence(t) \/ EnsureConnectable(t) \/ ReadLinks(t)
           \/ Configure(t) \/ BringUpFails(t) \/ BringUp(t)
  BY <1>1, <1>3, SilencingStep, ConfigureStep
<1>4. CASE Name(t) \/ StartHID(t) \/ StartFails(t) \/ Listen(t)
  BY <1>1, <1>4, AddingStep
<1>5. CASE \/ Enumerate(t) \/ Sync(t) \/ Expire(t) \/ Conceal(t) \/ ArmPairing(t) \/ Offer(t)
           \/ EachOfAll(t) \/ AllDone(t) \/ Woken(t)
           \/ \E forget \in BOOLEAN : Disconnected(t, forget)
  BY <1>1, <1>5, OutOfPass
<1> QED BY <1>2, <1>3, <1>4, <1>5 DEF TaskStep

\* A request that finds its adapter is let in; nothing of the stack changes.
LEMMA Asked ==
    ASSUME Inv, NEW t \in Tasks, NEW a \in {"lock", "conceal", "arm", "disconnect", "wake", "all"},
           NEW op \in WebOps, task[t].at = "idle", UNCHANGED <<stack, lock>>,
           WorldTyped', StateTyped', SavedTyped',
           \/ \E x \in Adapters :
                task' = [task EXCEPT ![t] = [Idle EXCEPT !.at = a, !.job = op, !.adapter = x]]
           \/ a = "all" /\ task' = [task EXCEPT ![t] = [Idle EXCEPT !.at = a, !.job = op,
                                                                    !.todo = registry]]
    PROVE  Inv'
<1>1. /\ \A x \in Adapters : [Idle EXCEPT !.at = a, !.job = op, !.adapter = x] \in TaskStates
      /\ [Idle EXCEPT !.at = a, !.job = op, !.todo = registry] \in TaskStates
  <2>1. Idle \in TaskStates /\ registry \subseteq Adapters
    BY IdleType DEF Inv, Typed, WorldTyped
  <2> QED BY <2>1 DEF TaskStates, Steps
<1>2. PICK r \in TaskStates : /\ task' = [task EXCEPT ![t] = r] /\ r.at = a
                              /\ r.at \in InHand => r.adapter \in Adapters
  BY <1>1 DEF Idle, InHand, Visiting
<1>3. TasksTyped' /\ Moves(t) /\ task'[t] = r
  BY <1>2, TaskBecomes DEF Inv, Typed, TasksTyped
<1>4. Typed' /\ UNCHANGED <<channel, servers, bound>>
  BY <1>3 DEF Inv, Typed, stack, StackTyped
<1>5. task[t].at \notin Passing /\ task'[t].at \notin Passing
  BY <1>2, <1>3 DEF Passing, Dropping, Visiting
<1> QED BY <1>3, <1>4, <1>5, StaysOut

LEMMA RequestStep == ASSUME Inv, NEW t \in Requests, NEW x \in Adapters, Request(t, x) PROVE Inv'
<1> USE DEF Ask, At
<1>1. /\ t \in Tasks /\ WorldTyped /\ StateTyped /\ SavedTyped /\ state[x] \in Consistent
      /\ Host(x) \in BOOLEAN
  BY Consts, HostType DEF Inv, Typed, StateTyped
<1>2. ASSUME NEW enabled \in BOOLEAN, SetEnabled(t, x, enabled) PROVE Inv'
  <2> DEFINE op == IF enabled THEN "enable" ELSE "disable"
  <2>1. /\ Ask(t, op, x, "lock") /\ Upsert(x, enabled, Host(x))
        /\ state' = [state EXCEPT ![x].enabled = enabled]
        /\ UNCHANGED <<world, registry, stack, connectable, lock>>
    BY <1>2 DEF SetEnabled
  <2>2. SavedTyped'
    BY <1>1, <2>1, UpsertType
  <2>3. [state[x] EXCEPT !.enabled = enabled] \in Consistent
    BY <1>1, Written
  <2>4. StateTyped'
    BY <1>1, <2>1, <2>3 DEF StateTyped
  <2>5. WorldTyped'
    BY <1>1, <2>1 DEF world, WorldTyped
  <2> HIDE DEF op
  <2> QED BY <1>1, <2>1, <2>2, <2>4, <2>5, Asked
<1>3. CASE SetProfile(t, x)
  <2>1. UNCHANGED <<world, registry, state, stack, connectable, lock, task>> /\ SavedTyped'
    BY <1>1, <1>3, UpsertType DEF SetProfile
  <2> QED BY <1>1, <2>1 DEF Inv, Typed, world, stack, WorldTyped, StackTyped, TasksTyped, StateTyped,
               Alone, Backed, Stopping, InPass, Knows, Bounded, Channels
<1>4. CASE Unpair(t, x)
  <2>1. /\ Ask(t, "unpair", x, "conceal") /\ state' = [state EXCEPT ![x] = Cleared(@)]
        /\ UNCHANGED <<world, registry, saved, stack, connectable, lock>>
    BY <1>4 DEF Unpair
  <2>2. Cleared(state[x]) \in Consistent
    BY <1>1, Written
  <2>3. StateTyped' /\ SavedTyped' /\ WorldTyped'
    BY <1>1, <2>1, <2>2 DEF StateTyped, SavedTyped, WorldTyped, world
  <2> QED BY <1>1, <2>1, <2>3, Asked
<1>5. CASE Pair(t, x) \/ Disconnect(t, x) \/ Wake(t, x)
  <2>1. PICK op \in {"pair", "disconnect", "wake"}, a \in {"arm", "disconnect", "wake"} :
           /\ Ask(t, op, x, a)
           /\ UNCHANGED <<world, registry, state, saved, stack, connectable, lock>>
    BY <1>5 DEF Pair, Disconnect, Wake
  <2>2. StateTyped' /\ SavedTyped' /\ WorldTyped'
    BY <1>1, <2>1 DEF StateTyped, SavedTyped, WorldTyped, world
  <2> QED BY <1>1, <2>1, <2>2, Asked
<1> QED BY <1>2, <1>3, <1>4, <1>5 DEF Request

LEMMA AllStep ==
    ASSUME Inv, NEW t \in Requests, NEW op \in {"sleep all", "reset all"}, All(t, op)
    PROVE  Inv'
<1>1. /\ t \in Tasks /\ op \in WebOps /\ task[t].at = "idle" /\ UNCHANGED <<stack, lock>>
      /\ task' = [task EXCEPT ![t] = [Idle EXCEPT !.at = "all", !.job = op, !.todo = registry]]
  BY Consts DEF All, At
<1>2. WorldTyped' /\ StateTyped' /\ SavedTyped'
  BY DEF All, Inv, Typed, world, WorldTyped, StateTyped, SavedTyped
<1> QED BY <1>1, <1>2, Asked

-----------------------------------------------------------------------------
LEMMA Initially == Init => Inv
<1> SUFFICES ASSUME Init PROVE Inv
  OBVIOUS
<1>1. /\ state = [x \in Adapters |-> Fresh] /\ task = [t \in Tasks |-> Idle] /\ lock = None
      /\ plugged = [x \in Adapters |-> 0] /\ linked = {} /\ registry = {} /\ connectable = {}
      /\ saved = [x \in Adapters |-> None] /\ channel = [x \in Adapters |-> "none"]
      /\ servers = {} /\ bound = {}
  BY DEF Init
<1>2. Typed
  BY <1>1, Consts, FreshType, IdleType DEF Typed, WorldTyped, StackTyped, TasksTyped, StateTyped,
        SavedTyped, Idle, InHand, Visiting
<1>3. \A t \in Tasks : task[t].at = "idle"
  BY <1>1 DEF Idle
<1>4. Alone /\ InPass
  BY <1>1, <1>3, Consts DEF Alone, InPass, Knows, Bounded, At, Passing, Dropping, Visiting
<1>5. Backed
  BY <1>1 DEF Backed
<1> QED BY <1>2, <1>4, <1>5 DEF Inv

LEMMA Preserved == Inv /\ [Next]_vars => Inv'
<1> SUFFICES ASSUME Inv, [Next]_vars PROVE Inv'
  OBVIOUS
<1>1. CASE UNCHANGED vars
  BY <1>1 DEF vars, world, stack, Inv, Typed, WorldTyped, StackTyped, TasksTyped, StateTyped,
        SavedTyped, Alone, Backed, Stopping, InPass, Knows, Bounded, At, Channels
<1>2. CASE \E x \in Adapters : World(x) \/ Hear(x) \/ WindowEnds(x)
  BY <1>2, OutsideStep DEF Outside
<1>3. CASE \E t \in Tasks : TaskStep(t) \/ Enumerate(t)
  BY <1>3, TaskStepStep
<1>4. CASE \E t \in Requests, x \in Adapters : Request(t, x)
  BY <1>4, RequestStep
<1>5. CASE \E t \in Requests, op \in {"sleep all", "reset all"} : All(t, op)
  BY <1>5, AllStep
<1> QED BY <1>1, <1>2, <1>3, <1>4, <1>5 DEF Next

LEMMA Invariance == Spec => []Inv
  BY Initially, Preserved, PTL DEF Spec

\* Every variable keeps its type; a dongle is never marked configured and
\* silenced at once (AdapterState's two FlagSets).
THEOREM TypeCorrect == Spec => []TypeOK
<1>1. Inv => TypeOK
  BY DEF Inv, Typed, WorldTyped, StackTyped, TasksTyped, StateTyped, SavedTyped, TypeOK,
         Consistent, States, Choices, TaskStates, Number
<1> QED BY <1>1, Invariance, PTL

\* However many tasks reconcile, and whatever is unplugged, stopped or refused
\* under them, HIDServer.start never meets our own listener on its adapter: the
\* lock keeps a stop and the start after it apart.
THEOREM AddressFree == Spec => []NeverOwnAddressInUse
<1>1. Inv => NeverOwnAddressInUse
  BY DEF Inv, InPass, Knows, NeverOwnAddressInUse
<1> QED BY <1>1, Invariance, PTL

\* Whenever a pass is about to add a channel, the router has a place for it: what
\* the pass did not choose is gone by then, and only the pass adds.
THEOREM PlaceFree == Spec => []NeverRefused
<1>1. Inv => NeverRefused
  <2> SUFFICES ASSUME Inv, NEW t \in Tasks, task[t].at \in {"name", "start", "target"}
               PROVE  Cardinality(Channels \ {task[t].adapter}) < MaxOutputs
    BY DEF NeverRefused
  <2> DEFINE x == task[t].adapter
             C == task[t].chosen
  <2>1. task[t].at \in Passing \ Dropping /\ task[t].at \in Visiting
    BY DEF Passing, Dropping, Visiting
  <2>2. Channels \subseteq C /\ x \in C /\ Cardinality(C) <= MaxOutputs /\ C \in SUBSET Adapters
    BY <2>1 DEF Inv, Typed, TasksTyped, TaskStates, InPass, Bounded
  <2>3. IsFiniteSet(C) /\ Cardinality(C) \in Nat
    BY <2>2, AdapterManagerAssumption, FS_Subset, FS_CardinalityType
  <2>4. IsFiniteSet(C \ {x}) /\ Cardinality(C \ {x}) = Cardinality(C) - 1
    BY <2>2, <2>3, FS_RemoveElement
  <2>5. Cardinality(Channels \ {x}) <= Cardinality(C \ {x})
    <3>1. Channels \ {x} \in SUBSET (C \ {x})
      BY <2>2
    <3> QED BY <2>4, <3>1, FS_Subset
  <2>6. Cardinality(Channels \ {x}) \in Nat
    <3>1. Channels \ {x} \in SUBSET Adapters
      BY DEF Channels
    <3> QED BY <3>1, AdapterManagerAssumption, FS_Subset, FS_CardinalityType
  <2>7. MaxOutputs \in Nat
    BY AdapterManagerAssumption
  <2> HIDE DEF x, C
  <2>8. Cardinality(Channels \ {x}) < MaxOutputs
    BY <2>2, <2>3, <2>4, <2>5, <2>6, <2>7
  <2> QED BY <2>8 DEF x
<1> QED BY <1>1, Invariance, PTL

\* Between two passes a channel with a real sink has a HID server in _hid_servers,
\* bound to its adapter, whatever was unplugged, disabled or failed on the way.
THEOREM AlwaysBacked == Spec => []BackedByServer
<1>1. Inv => BackedByServer
  <2> SUFFICES ASSUME Inv, lock = None, NEW x \in Adapters, channel[x] = "real"
               PROVE  x \in servers \cap bound
    BY DEF BackedByServer
  <2>1. ~ Stopping(x)
    BY Consts DEF Inv, Alone, Stopping, At, Passing, Dropping
  <2> QED BY <2>1 DEF Inv, Backed
<1> QED BY <1>1, Invariance, PTL
=============================================================================
