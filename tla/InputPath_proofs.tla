-------------------------- MODULE InputPath_proofs --------------------------
(***************************************************************************)
(* For any number of adapters, clients, slots and threads.                 *)
(*                                                                         *)
(* The router: the lookup table and the channels agree whenever the lock   *)
(* is free, the table is one-to-one at every instant, and the router       *)
(* implements AdapterTable.  RoutesAgree says nothing while the lock is    *)
(* held.  The strengthening says, for the method that holds it, which      *)
(* adapters may disagree with the table and how: they are the one the      *)
(* method was given, or ones it has emptied.                               *)
(*                                                                         *)
(* The input path: the server's handlers only ever move the router as its  *)
(* own specification allows, so what is shown of the router holds of the   *)
(* whole server; and a report goes to an adapter its client was assigned   *)
(* to since the packet arrived.  ReportsFollowOwner speaks of one moment.  *)
(* Its strengthening follows the packet from its arrival: owned holds all  *)
(* its client's adapters, and from the check on the one it is bound for.   *)
(*                                                                         *)
(* The sessions: while the operator neither assigns adapters nor ends      *)
(* sessions, no adapter stays with a client that has none.  The            *)
(* strengthening knows the clients that are on their way out, and that     *)
(* the datapath calls the router for a live client or for one of those.    *)
(***************************************************************************)
EXTENDS InputPath, TLAPS, FiniteSetTheorems

(* The router.                                                             *)

Holding == {"client", "slot", "rebuild"}

\* Who holds the lock is in the middle of a method, and nobody else is.
LockInv == \A t \in Threads : lock = t <=> call[t].at \in Holding

\* A call under way has the arguments its method reads.
ArgsOK(c) ==
    /\ c.at # "idle" => c.op \in Ops
    /\ c.at \in {"resolve", "free", "client", "slot"} => c.op = "assign"
    /\ c.todo # {} => c.op = "assign"
    /\ c.op \in {"assign", "unassign_client"} => c.client \in Clients
    /\ c.op = "assign" => c.slot \in Slots
    /\ c.op \in Ops \ {"unassign_client"} /\ c.at \in {"lock"} \cup Holding
         => c.adapter \in Adapters

ArgsInv == \A t \in Threads : ArgsOK(call[t])

Settled(y) == \A k \in Keys : routes[k] = y <=> y \in channels /\ Owner(y) = k

Vacant(y) == y \notin channels \/ Owner(y) = <<None, None>>

\* y was emptied by the method under way, and only K's entries still name it.
Released(y, K) == Vacant(y) /\ \A k \in Keys : routes[k] = y => k \in K

MidAssign(c) ==
    LET k == <<c.client, c.slot>>
    IN  /\ c.adapter \in channels
        /\ \A y \in Adapters \ {c.adapter} :
             /\ Settled(y) \/ Released(y, {k})
             /\ ~ (y \in channels /\ Owner(y) = k)
        /\ c.at = "slot" => assigned_client[c.adapter] = c.client
        /\ c.at = "rebuild" => Owner(c.adapter) = k

MidOne(c) == /\ Vacant(c.adapter)
             /\ \A y \in Adapters \ {c.adapter} : Settled(y)

MidClient(c) ==
    \A y \in Adapters :
        \/ Settled(y) /\ ~ (y \in channels /\ assigned_client[y] = c.client)
        \/ Released(y, {c.client} \X Slots)

Mid(c) == /\ c.op = "assign" => MidAssign(c)
          /\ c.op \in {"add", "remove", "unassign"} => MidOne(c)
          /\ c.op = "unassign_client" => MidClient(c)

MidInv == \A t \in Threads : call[t].at \in Holding => Mid(call[t])

FreeInv == lock = None => \A y \in Adapters : Settled(y)

IInv == TypeOK /\ LockInv /\ ArgsInv /\ MidInv /\ FreeInv

-----------------------------------------------------------------------------
LEMMA LowestIn == \A S \in SUBSET Slots : S # {} => Lowest(S) \in S
  BY RouterAssumption DEF Lowest

CallSet == [op : Ops \cup {"none"}, adapter : Adapters \cup {None},
            client : Clients \cup {None}, slot : Slots \cup {None},
            todo : SUBSET Slots, at : Steps]

\* What follows a call is no call or the next slot of auto_assign.
LEMMA AfterType ==
    ASSUME NEW c \in CallSet, ArgsOK(c)
    PROVE  /\ After(c) \in CallSet
           /\ After(c).at \notin Holding
           /\ ArgsOK(After(c))
<1>1. CASE c.todo = {}
  BY <1>1 DEF After, NoCall, Call, CallSet, Ops, Steps, Holding, ArgsOK
<1>2. CASE c.todo # {}
  <2>1. Lowest(c.todo) \in Slots
    BY <1>2, LowestIn DEF CallSet
  <2>2. c.client \in Clients
    BY <1>2 DEF ArgsOK
  <2> QED BY <1>2, <2>1, <2>2 DEF After, AutoCall, Call, CallSet, Ops, Steps, Holding, ArgsOK
<1> QED BY <1>1, <1>2

\* A step that only moves a call about, outside the lock.
LEMMA Quiet ==
    ASSUME IInv, NEW t \in Threads, NEW c \in CallSet,
           call' = [call EXCEPT ![t] = c],
           call[t].at \notin Holding, c.at \notin Holding, ArgsOK(c),
           UNCHANGED <<channels, fields, routes, lock>>
    PROVE  IInv'
<1> USE DEF IInv
<1>1. /\ call' \in [Threads -> CallSet]
      /\ call'[t] = c
      /\ \A u \in Threads \ {t} : call'[u] = call[u]
  BY DEF TypeOK, CallSet
<1>2. TypeOK'
  BY <1>1 DEF TypeOK, CallSet, fields
<1>3. LockInv' /\ ArgsInv'
  BY <1>1 DEF LockInv, ArgsInv
<1>4. FreeInv'
  BY DEF FreeInv, Settled, Owner, fields
<1>5. MidInv'
  <2> SUFFICES ASSUME NEW u \in Threads, call'[u].at \in Holding
               PROVE  Mid(call[u])'
    BY DEF MidInv
  <2>1. u # t /\ call'[u] = call[u] /\ Mid(call[u])
    BY <1>1 DEF MidInv
  <2> QED BY <2>1 DEF Mid, MidAssign, MidOne, MidClient, Settled, Released, Vacant, Owner, fields
<1> QED BY <1>2, <1>3, <1>4, <1>5

\* A step of the method that holds the lock, or has just taken it.
LEMMA Held ==
    ASSUME IInv, NEW t \in Threads, NEW c \in CallSet,
           lock \in {None, t}, lock' = t,
           call' = [call EXCEPT ![t] = c], c.at \in Holding, ArgsOK(c),
           UNCHANGED routes, channels' \subseteq Adapters,
           assigned_client' \in [Adapters -> Clients \cup {None}],
           assigned_slot' \in [Adapters -> Slots \cup {None}],
           Mid(c)'
    PROVE  IInv'
<1> USE DEF IInv
<1>1. /\ call' \in [Threads -> CallSet]
      /\ call'[t] = c
      /\ \A u \in Threads \ {t} : call'[u] = call[u]
  BY DEF TypeOK, CallSet
<1>2. \A u \in Threads \ {t} : call[u].at \notin Holding
  BY RouterAssumption DEF LockInv
<1>3. TypeOK'
  BY <1>1 DEF TypeOK, CallSet
<1>4. LockInv' /\ ArgsInv'
  BY <1>1, <1>2, RouterAssumption DEF LockInv, ArgsInv
<1>5. FreeInv'
  BY RouterAssumption DEF FreeInv
<1>6. MidInv'
  <2> SUFFICES ASSUME NEW u \in Threads, call'[u].at \in Holding
               PROVE  Mid(call[u])'
    BY DEF MidInv
  <2>1. u = t /\ call'[u] = c
    BY <1>1, <1>2
  <2> QED BY <2>1
<1> QED BY <1>3, <1>4, <1>5, <1>6

LEMMA GotoType ==
    ASSUME IInv, NEW t \in Threads, NEW at \in Steps \ {"idle"},
           call[t].op = "assign" \/ at \in {"lock", "rebuild"},
           call[t].at \in {"lock"} \cup Holding,
           Goto(t, at)
    PROVE  /\ [call[t] EXCEPT !.at = at] \in CallSet
           /\ call' = [call EXCEPT ![t] = [call[t] EXCEPT !.at = at]]
           /\ ArgsOK([call[t] EXCEPT !.at = at])
<1>1. call[t] \in CallSet /\ ArgsOK(call[t])
  BY DEF IInv, TypeOK, CallSet, ArgsInv
<1>2. /\ [call[t] EXCEPT !.at = at] \in CallSet
      /\ call' = [call EXCEPT ![t] = [call[t] EXCEPT !.at = at]]
  BY <1>1 DEF CallSet, Goto
<1>3. ArgsOK([call[t] EXCEPT !.at = at])
  BY <1>1 DEF ArgsOK, CallSet, Holding
<1> QED BY <1>2, <1>3

\* A call that returns without having taken the lock, or found nothing to do.
LEMMA ReturnStep ==
    ASSUME IInv, NEW t \in Threads, call[t].at \notin Holding, Return(t),
           UNCHANGED <<channels, fields, routes, lock>>
    PROVE  IInv'
<1>1. call[t] \in CallSet /\ ArgsOK(call[t])
  BY DEF IInv, TypeOK, CallSet, ArgsInv
<1>2. call' = [call EXCEPT ![t] = After(call[t])]
  BY DEF Return
<1> QED BY <1>1, <1>2, AfterType, Quiet

LEMMA InvokeStep ==
    ASSUME IInv, NEW t \in Threads, NEW c \in Calls, Invoke(t, c)
    PROVE  IInv'
<1>1. c \in CallSet /\ c.at \notin Holding /\ ArgsOK(c)
  <2>1. ASSUME NEW d \in Clients, NEW S \in (SUBSET Slots) \ {{}}, c = AutoCall(d, S)
        PROVE  c \in CallSet /\ c.at \notin Holding /\ ArgsOK(c)
    <3>1. Lowest(S) \in Slots
      BY LowestIn
    <3> QED BY <2>1, <3>1 DEF AutoCall, Call, CallSet, Ops, Steps, Holding, ArgsOK
  <2>2. ASSUME NEW x \in Adapters, NEW d \in Clients, NEW s \in Slots,
               c = Call("assign", x, d, s, "lock")
        PROVE  c \in CallSet /\ c.at \notin Holding /\ ArgsOK(c)
    BY <2>2 DEF Call, CallSet, Ops, Steps, Holding, ArgsOK
  <2>3. ASSUME NEW x \in Adapters, NEW op \in {"add", "remove", "unassign"},
               c = Call(op, x, None, None, "lock")
        PROVE  c \in CallSet /\ c.at \notin Holding /\ ArgsOK(c)
    BY <2>3 DEF Call, CallSet, Ops, Steps, Holding, ArgsOK
  <2>4. ASSUME NEW d \in Clients, c = Call("unassign_client", None, d, None, "lock")
        PROVE  c \in CallSet /\ c.at \notin Holding /\ ArgsOK(c)
    BY <2>4 DEF Call, CallSet, Ops, Steps, Holding, ArgsOK
  <2> QED BY <2>1, <2>2, <2>3, <2>4 DEF Calls
<1> QED BY <1>1, Quiet DEF Invoke, Holding

LEMMA AutoResolveStep ==
    ASSUME IInv, NEW t \in Threads, AutoResolve(t)
    PROVE  IInv'
<1>1. CASE Return(t)
  BY <1>1, ReturnStep DEF AutoResolve, Holding
<1>2. CASE Goto(t, "free")
  <2> DEFINE c == [call[t] EXCEPT !.at = "free"]
  <2>1. call[t] \in CallSet /\ ArgsOK(call[t])
    BY DEF IInv, TypeOK, CallSet, ArgsInv
  <2>2. c \in CallSet /\ call' = [call EXCEPT ![t] = c]
    BY <1>2, <2>1 DEF CallSet, Goto, Steps
  <2>3. ArgsOK(c) /\ c.at \notin Holding
    BY <2>1 DEF ArgsOK, CallSet, Holding, AutoResolve
  <2> QED BY <2>2, <2>3, Quiet DEF AutoResolve, Holding
<1> QED BY <1>1, <1>2 DEF AutoResolve

LEMMA AutoPickStep ==
    ASSUME IInv, NEW t \in Threads, AutoPick(t)
    PROVE  IInv'
<1>1. call[t] \in CallSet /\ ArgsOK(call[t])
  BY DEF IInv, TypeOK, CallSet, ArgsInv
<1>2. CASE Free = {}
  <2>1. NoCall \in CallSet /\ ArgsOK(NoCall) /\ NoCall.at \notin Holding
    BY DEF NoCall, Call, CallSet, Ops, Steps, ArgsOK, Holding
  <2> QED BY <1>2, <2>1, Quiet DEF AutoPick, Holding
<1>3. ASSUME NEW x \in Free, call' = [call EXCEPT ![t].adapter = x, ![t].at = "lock"]
      PROVE  IInv'
  <2> DEFINE c == [call[t] EXCEPT !.adapter = x, !.at = "lock"]
  <2>1. x \in Adapters
    BY DEF Free, IInv, TypeOK
  <2>2. c \in CallSet /\ call' = [call EXCEPT ![t] = c]
    BY <1>1, <1>3, <2>1 DEF CallSet, Steps
  <2>3. ArgsOK(c) /\ c.at \notin Holding
    BY <1>1, <2>1 DEF ArgsOK, CallSet, Holding, AutoPick
  <2> QED BY <2>2, <2>3, Quiet DEF AutoPick, Holding
<1> QED BY <1>2, <1>3 DEF AutoPick

-----------------------------------------------------------------------------
(* The methods that write.                                                 *)

LEMMA AddStep ==
    ASSUME IInv, NEW t \in Threads, AddChannel(t)
    PROVE  IInv'
<1> PICK x : x = call[t].adapter OBVIOUS
<1> PICK c : c = [call[t] EXCEPT !.at = "rebuild"] OBVIOUS
<1>1. call[t].at = "lock" /\ call[t].op = "add" /\ lock = None
  BY DEF AddChannel, Acquire
<1>2. CASE NothingToDo(t)
  BY <1>1, <1>2, ReturnStep DEF NothingToDo, Holding
<1>3. CASE ~ (Cardinality(channels) >= MaxOutputs /\ x \notin channels)
  <2>1. /\ channels' = channels \cup {x}
        /\ assigned_client' = [assigned_client EXCEPT ![x] = None]
        /\ assigned_slot' = [assigned_slot EXCEPT ![x] = None]
        /\ lock' = t /\ Goto(t, "rebuild") /\ UNCHANGED routes
    BY <1>3 DEF AddChannel
  <2>2. x \in Adapters /\ \A y \in Adapters : Settled(y)
    BY <1>1 DEF IInv, ArgsInv, ArgsOK, FreeInv, Ops
  <2>3. c \in CallSet /\ call' = [call EXCEPT ![t] = c] /\ ArgsOK(c)
    BY <1>1, <2>1, GotoType DEF Steps, Holding
  <2>4. c.adapter = x /\ c.op = "add" /\ c.at = "rebuild"
    BY <1>1 DEF IInv, TypeOK
  <2>5. MidOne(c)'
    <3>1. Vacant(x)'
      BY <2>1, <2>2 DEF Vacant, Owner, IInv, TypeOK
    <3>2. ASSUME NEW y \in Adapters \ {x} PROVE Settled(y)'
      BY <2>1, <2>2 DEF Settled, Owner, IInv, TypeOK
    <3> QED BY <2>4, <3>1, <3>2 DEF MidOne
  <2>6. Mid(c)'
    BY <2>4, <2>5 DEF Mid
  <2>7. /\ channels' \subseteq Adapters
        /\ assigned_client' \in [Adapters -> Clients \cup {None}]
        /\ assigned_slot' \in [Adapters -> Slots \cup {None}]
    BY <2>1, <2>2 DEF IInv, TypeOK
  <2> QED BY <1>1, <2>1, <2>3, <2>4, <2>6, <2>7, Held DEF Holding
<1> QED BY <1>2, <1>3 DEF AddChannel

LEMMA RemoveStep ==
    ASSUME IInv, NEW t \in Threads, RemoveChannel(t)
    PROVE  IInv'
<1> PICK x : x = call[t].adapter OBVIOUS
<1> PICK c : c = [call[t] EXCEPT !.at = "rebuild"] OBVIOUS
<1>1. call[t].at = "lock" /\ call[t].op = "remove" /\ lock = None
  BY DEF RemoveChannel, Acquire
<1>2. CASE NothingToDo(t)
  BY <1>1, <1>2, ReturnStep DEF NothingToDo, Holding
<1>3. CASE x \in channels
  <2>1. /\ channels' = channels \ {x} /\ UNCHANGED <<fields, routes>>
        /\ lock' = t /\ Goto(t, "rebuild")
    BY <1>3 DEF RemoveChannel
  <2>2. \A y \in Adapters : Settled(y)
    BY <1>1 DEF IInv, FreeInv
  <2>3. c \in CallSet /\ call' = [call EXCEPT ![t] = c] /\ ArgsOK(c)
    BY <1>1, <2>1, GotoType DEF Steps, Holding
  <2>4. c.adapter = x /\ c.op = "remove" /\ c.at = "rebuild"
    BY <1>1 DEF IInv, TypeOK
  <2>5. MidOne(c)'
    <3>1. Vacant(x)'
      BY <2>1 DEF Vacant
    <3>2. ASSUME NEW y \in Adapters \ {x} PROVE Settled(y)'
      BY <2>1, <2>2 DEF Settled, Owner, fields
    <3> QED BY <2>4, <3>1, <3>2 DEF MidOne
  <2>6. Mid(c)'
    BY <2>4, <2>5 DEF Mid
  <2>7. /\ channels' \subseteq Adapters
        /\ assigned_client' \in [Adapters -> Clients \cup {None}]
        /\ assigned_slot' \in [Adapters -> Slots \cup {None}]
    BY <2>1 DEF IInv, TypeOK, fields
  <2> QED BY <1>1, <2>1, <2>3, <2>4, <2>6, <2>7, Held DEF Holding
<1> QED BY <1>2, <1>3 DEF RemoveChannel

\* What Clear does to a channel: empties it, or leaves it as it was.
LEMMA ClearEffect ==
    ASSUME IInv, NEW S, Clear(S)
    PROVE  /\ assigned_client' \in [Adapters -> Clients \cup {None}]
           /\ assigned_slot' \in [Adapters -> Slots \cup {None}]
           /\ \A y \in Adapters : Owner(y)' = IF y \in S THEN <<None, None>> ELSE Owner(y)
  BY DEF Clear, Owner, IInv, TypeOK

LEMMA UnassignStep ==
    ASSUME IInv, NEW t \in Threads, Unassign(t)
    PROVE  IInv'
<1> PICK x : x = call[t].adapter OBVIOUS
<1> PICK c : c = [call[t] EXCEPT !.at = "rebuild"] OBVIOUS
<1>1. call[t].at = "lock" /\ call[t].op = "unassign" /\ lock = None
  BY DEF Unassign, Acquire
<1>2. CASE NothingToDo(t)
  BY <1>1, <1>2, ReturnStep DEF NothingToDo, Holding
<1>3. CASE x \in channels
  <2>1. /\ Clear({x}) /\ UNCHANGED <<channels, routes>>
        /\ lock' = t /\ Goto(t, "rebuild")
    BY <1>3 DEF Unassign
  <2>2. x \in Adapters /\ \A y \in Adapters : Settled(y)
    BY <1>1, <1>3 DEF IInv, FreeInv, TypeOK
  <2>3. c \in CallSet /\ call' = [call EXCEPT ![t] = c] /\ ArgsOK(c)
    BY <1>1, <2>1, GotoType DEF Steps, Holding
  <2>4. c.adapter = x /\ c.op = "unassign" /\ c.at = "rebuild"
    BY <1>1 DEF IInv, TypeOK
  <2>5. MidOne(c)'
    <3>1. Vacant(x)'
      BY <2>1, <2>2, ClearEffect DEF Vacant
    <3>2. ASSUME NEW y \in Adapters \ {x} PROVE Settled(y)'
      BY <2>1, <2>2, ClearEffect DEF Settled
    <3> QED BY <2>4, <3>1, <3>2 DEF MidOne
  <2>6. Mid(c)'
    BY <2>4, <2>5 DEF Mid
  <2>7. channels' \subseteq Adapters
    BY <2>1 DEF IInv, TypeOK
  <2> QED BY <1>1, <2>1, <2>3, <2>4, <2>6, <2>7, ClearEffect, Held DEF Holding
<1> QED BY <1>2, <1>3 DEF Unassign

LEMMA UnassignClientStep ==
    ASSUME IInv, NEW t \in Threads, UnassignClient(t)
    PROVE  IInv'
<1> PICK d : d = call[t].client OBVIOUS
<1> PICK c : c = [call[t] EXCEPT !.at = "rebuild"] OBVIOUS
<1>1. call[t].at = "lock" /\ call[t].op = "unassign_client" /\ lock = None
  BY DEF UnassignClient, Acquire
<1>2. CASE NothingToDo(t)
  BY <1>1, <1>2, ReturnStep DEF NothingToDo, Holding
<1>3. CASE Driven(d) # {}
  <2>1. /\ Clear(Driven(d)) /\ UNCHANGED <<channels, routes>>
        /\ lock' = t /\ Goto(t, "rebuild")
    BY <1>3 DEF UnassignClient
  <2>2. d \in Clients /\ \A y \in Adapters : Settled(y)
    BY <1>1 DEF IInv, FreeInv, ArgsInv, ArgsOK
  <2>3. c \in CallSet /\ call' = [call EXCEPT ![t] = c] /\ ArgsOK(c)
    BY <1>1, <2>1, GotoType DEF Steps, Holding
  <2>4. c.client = d /\ c.op = "unassign_client" /\ c.at = "rebuild"
    BY <1>1 DEF IInv, TypeOK
  <2>5. MidClient(c)'
    <3> SUFFICES ASSUME NEW y \in Adapters
                 PROVE  \/ Settled(y)' /\ ~ (y \in channels' /\ assigned_client'[y] = d)
                        \/ Released(y, {d} \X Slots)'
      BY <2>4 DEF MidClient
    <3>1. CASE y \in Driven(d)
      <4>1. Owner(y)' = <<None, None>>
        BY <2>1, <3>1, ClearEffect
      <4>2. ASSUME NEW k \in Keys, routes'[k] = y PROVE k \in {d} \X Slots
        <5>1. Owner(y) = k /\ assigned_client[y] = d
          BY <2>1, <2>2, <3>1, <4>2 DEF Settled, Driven
        <5> QED BY <5>1, <2>2 DEF Owner, Keys
      <4> QED BY <4>1, <4>2 DEF Released, Vacant
    <3>2. CASE y \notin Driven(d)
      <4>1. Owner(y)' = Owner(y) /\ assigned_client'[y] = assigned_client[y]
        BY <2>1, <3>2, ClearEffect DEF Clear
      <4>2. Settled(y)'
        BY <2>1, <2>2, <4>1 DEF Settled
      <4> QED BY <2>1, <3>2, <4>1, <4>2 DEF Driven
    <3> QED BY <3>1, <3>2
  <2>6. Mid(c)'
    BY <2>4, <2>5 DEF Mid
  <2>7. channels' \subseteq Adapters
    BY <2>1 DEF IInv, TypeOK
  <2> QED BY <1>1, <2>1, <2>3, <2>4, <2>6, <2>7, ClearEffect, Held DEF Holding
<1> QED BY <1>2, <1>3 DEF UnassignClient

LEMMA AssignBeginStep ==
    ASSUME IInv, NEW t \in Threads, AssignBegin(t)
    PROVE  IInv'
<1> PICK x : x = call[t].adapter OBVIOUS
<1> PICK k : k = <<call[t].client, call[t].slot>> OBVIOUS
<1> PICK c : c = [call[t] EXCEPT !.at = "client"] OBVIOUS
<1>1. call[t].at = "lock" /\ call[t].op = "assign" /\ lock = None
  BY DEF AssignBegin, Acquire
<1>2. CASE NothingToDo(t)
  BY <1>1, <1>2, ReturnStep DEF NothingToDo, Holding
<1>3. CASE x \in channels
  <2>1. /\ Clear(Conflicting(x, k)) /\ UNCHANGED <<channels, routes>>
        /\ lock' = t /\ Goto(t, "client")
    BY <1>3 DEF AssignBegin
  <2>2. k \in Keys /\ \A y \in Adapters : Settled(y)
    BY <1>1 DEF IInv, FreeInv, ArgsInv, ArgsOK, Keys
  <2>3. c \in CallSet /\ call' = [call EXCEPT ![t] = c] /\ ArgsOK(c)
    BY <1>1, <2>1, GotoType DEF Steps, Holding
  <2>4. /\ c.adapter = x /\ <<c.client, c.slot>> = k
        /\ c.op = "assign" /\ c.at = "client"
    BY <1>1 DEF IInv, TypeOK
  <2>5. ASSUME NEW y \in Adapters \ {x}
        PROVE  /\ Settled(y)' \/ Released(y, {k})'
               /\ ~ (y \in channels' /\ Owner(y)' = k)
    <3>0. None \notin Clients
      BY RouterAssumption
    <3>1. CASE y \in Conflicting(x, k)
      <4>1. Owner(y)' = <<None, None>>
        BY <2>1, <3>1, ClearEffect
      <4>2. ASSUME NEW j \in Keys, routes'[j] = y PROVE j = k
        <5>1. Owner(y) = j
          BY <2>1, <2>2, <4>2 DEF Settled
        <5> QED BY <5>1, <3>1 DEF Conflicting
      <4>3. <<None, None>> # k
        BY <2>2, <3>0 DEF Keys
      <4> QED BY <4>1, <4>2, <4>3 DEF Released, Vacant
    <3>2. CASE y \notin Conflicting(x, k)
      <4>1. Owner(y)' = Owner(y)
        BY <2>1, <3>2, ClearEffect
      <4>2. Settled(y)'
        BY <2>1, <2>2, <4>1 DEF Settled
      <4> QED BY <2>1, <3>2, <4>1, <4>2 DEF Conflicting
    <3> QED BY <3>1, <3>2
  <2>6. Mid(c)'
    <3>1. MidAssign(c)'
      BY <1>3, <2>1, <2>4, <2>5 DEF MidAssign
    <3> QED BY <2>4, <3>1 DEF Mid
  <2>7. channels' \subseteq Adapters
    BY <2>1 DEF IInv, TypeOK
  <2> QED BY <1>1, <2>1, <2>3, <2>4, <2>6, <2>7, ClearEffect, Held DEF Holding
<1> QED BY <1>2, <1>3 DEF AssignBegin

\* What is known of the assign that is half way through.
LEMMA AssignUnderWay ==
    ASSUME IInv, NEW t \in Threads, call[t].at \in {"client", "slot"}
    PROVE  /\ lock = t
           /\ call[t].op = "assign"
           /\ call[t].client \in Clients /\ call[t].slot \in Slots
           /\ call[t].adapter \in Adapters
           /\ MidAssign(call[t])
  BY DEF IInv, LockInv, ArgsInv, ArgsOK, MidInv, Mid, Holding, Ops

LEMMA AssignClientStep ==
    ASSUME IInv, NEW t \in Threads, AssignClient(t)
    PROVE  IInv'
<1> PICK x : x = call[t].adapter OBVIOUS
<1> PICK c : c = [call[t] EXCEPT !.at = "slot"] OBVIOUS
<1>1. /\ call[t].at = "client"
      /\ assigned_client' = [assigned_client EXCEPT ![x] = call[t].client]
      /\ Goto(t, "slot") /\ UNCHANGED <<channels, assigned_slot, routes, lock>>
  BY DEF AssignClient
<1>2. /\ lock = t /\ call[t].op = "assign" /\ call[t].client \in Clients
      /\ x \in Adapters /\ MidAssign(call[t])
  BY <1>1, AssignUnderWay
<1>3. c \in CallSet /\ call' = [call EXCEPT ![t] = c] /\ ArgsOK(c)
  BY <1>1, <1>2, GotoType DEF Steps, Holding
<1>4. /\ c.adapter = x /\ c.client = call[t].client /\ c.slot = call[t].slot
      /\ c.op = "assign" /\ c.at = "slot"
  BY <1>2 DEF IInv, TypeOK
<1>5. \A y \in Adapters \ {x} : Owner(y)' = Owner(y)
  BY <1>1 DEF Owner, IInv, TypeOK
<1>6. Mid(c)'
  <2>1. assigned_client'[x] = c.client
    BY <1>1, <1>2, <1>4 DEF IInv, TypeOK
  <2>2. \A y \in Adapters \ {x} :
          /\ Settled(y) => Settled(y)'
          /\ Released(y, {<<c.client, c.slot>>}) => Released(y, {<<c.client, c.slot>>})'
    BY <1>1, <1>5 DEF Settled, Released, Vacant
  <2>3. MidAssign(c)'
    BY <1>1, <1>2, <1>4, <1>5, <2>1, <2>2 DEF MidAssign
  <2> QED BY <1>4, <2>3 DEF Mid
<1>7. /\ channels' \subseteq Adapters
      /\ assigned_client' \in [Adapters -> Clients \cup {None}]
      /\ assigned_slot' \in [Adapters -> Slots \cup {None}]
  BY <1>1, <1>2 DEF IInv, TypeOK
<1> QED BY <1>1, <1>2, <1>3, <1>4, <1>6, <1>7, Held DEF Holding

LEMMA AssignSlotStep ==
    ASSUME IInv, NEW t \in Threads, AssignSlot(t)
    PROVE  IInv'
<1> PICK x : x = call[t].adapter OBVIOUS
<1> PICK c : c = [call[t] EXCEPT !.at = "rebuild"] OBVIOUS
<1>1. /\ call[t].at = "slot"
      /\ assigned_slot' = [assigned_slot EXCEPT ![x] = call[t].slot]
      /\ Goto(t, "rebuild") /\ UNCHANGED <<channels, assigned_client, routes, lock>>
  BY DEF AssignSlot
<1>2. /\ lock = t /\ call[t].op = "assign" /\ call[t].slot \in Slots
      /\ x \in Adapters /\ MidAssign(call[t])
  BY <1>1, AssignUnderWay
<1>3. c \in CallSet /\ call' = [call EXCEPT ![t] = c] /\ ArgsOK(c)
  BY <1>1, <1>2, GotoType DEF Steps, Holding
<1>4. /\ c.adapter = x /\ c.client = call[t].client /\ c.slot = call[t].slot
      /\ c.op = "assign" /\ c.at = "rebuild"
  BY <1>2 DEF IInv, TypeOK
<1>5. \A y \in Adapters \ {x} : Owner(y)' = Owner(y)
  BY <1>1 DEF Owner, IInv, TypeOK
<1>6. Mid(c)'
  <2>1. Owner(c.adapter)' = <<c.client, c.slot>>
    <3>1. assigned_client'[x] = call[t].client
      BY <1>1, <1>2 DEF MidAssign
    <3>2. assigned_slot'[x] = call[t].slot
      BY <1>1, <1>2 DEF IInv, TypeOK
    <3> QED BY <1>4, <3>1, <3>2 DEF Owner
  <2>2. \A y \in Adapters \ {x} :
          /\ Settled(y) => Settled(y)'
          /\ Released(y, {<<c.client, c.slot>>}) => Released(y, {<<c.client, c.slot>>})'
    BY <1>1, <1>5 DEF Settled, Released, Vacant
  <2>3. c.adapter \in channels'
    BY <1>1, <1>2, <1>4 DEF MidAssign
  <2>4. \A y \in Adapters \ {c.adapter} :
          /\ Settled(y)' \/ Released(y, {<<c.client, c.slot>>})'
          /\ ~ (y \in channels' /\ Owner(y)' = <<c.client, c.slot>>)
    BY <1>1, <1>2, <1>4, <1>5, <2>2 DEF MidAssign
  <2>5. MidAssign(c)'
    BY <1>4, <2>1, <2>3, <2>4 DEF MidAssign
  <2> QED BY <1>4, <2>5 DEF Mid
<1>7. /\ channels' \subseteq Adapters
      /\ assigned_client' \in [Adapters -> Clients \cup {None}]
      /\ assigned_slot' \in [Adapters -> Slots \cup {None}]
  BY <1>1, <1>2 DEF IInv, TypeOK
<1> QED BY <1>1, <1>2, <1>3, <1>4, <1>6, <1>7, Held DEF Holding

-----------------------------------------------------------------------------
(* Publishing the new table.                                               *)

\* When a method is about to rebuild, no two channels have the same owner.
LEMMA Distinct ==
    ASSUME IInv, NEW t \in Threads, call[t].at = "rebuild",
           NEW y \in channels, NEW z \in channels, NEW k \in Keys,
           Owner(y) = k, Owner(z) = k
    PROVE  y = z
<1>1. call[t].op \in Ops \ {"assign"} \/ call[t].op = "assign"
  BY DEF IInv, ArgsInv, ArgsOK
<1>2. Mid(call[t]) /\ y \in Adapters /\ z \in Adapters
  BY DEF IInv, MidInv, Holding, TypeOK
<1>3. \A v \in channels : Owner(v) = k => ~ Vacant(v)
  BY RouterAssumption DEF Vacant, Keys
<1>4. Settled(y) /\ Settled(z) => y = z
  BY DEF Settled
<1>5. CASE call[t].op = "assign"
  <2>1. \A v \in Adapters \ {call[t].adapter} :
          /\ Settled(v) \/ Vacant(v)
          /\ v \in channels => Owner(v) # <<call[t].client, call[t].slot>>
    BY <1>2, <1>5 DEF Mid, MidAssign, Released
  <2>2. Owner(call[t].adapter) = <<call[t].client, call[t].slot>>
    BY <1>2, <1>5 DEF Mid, MidAssign
  <2> QED BY <1>2, <1>3, <1>4, <2>1, <2>2
<1>6. CASE call[t].op \in {"add", "remove", "unassign"}
  BY <1>2, <1>3, <1>4, <1>6 DEF Mid, MidOne
<1>7. CASE call[t].op = "unassign_client"
  <2>1. \A v \in Adapters : Settled(v) \/ Vacant(v)
    BY <1>2, <1>7 DEF Mid, MidClient, Released
  <2> QED BY <1>2, <1>3, <1>4, <2>1
<1> QED BY <1>1, <1>5, <1>6, <1>7 DEF Ops

\* So the new table names, for every controller, the one channel it owns.
LEMMA RebuiltRight ==
    ASSUME IInv, NEW t \in Threads, call[t].at = "rebuild"
    PROVE  /\ Rebuilt \in [Keys -> Adapters \cup {None}]
           /\ \A k \in Keys, y \in Adapters :
                 Rebuilt[k] = y <=> y \in channels /\ Owner(y) = k
<1>1. ASSUME NEW k \in Keys
      PROVE  /\ Rebuilt[k] \in Adapters \cup {None}
             /\ \A y \in Adapters : Rebuilt[k] = y <=> y \in channels /\ Owner(y) = k
  <2>1. CASE \E x \in channels : Owner(x) = k
    <3>1. Rebuilt[k] \in channels /\ Owner(Rebuilt[k]) = k
      BY <2>1 DEF Rebuilt
    <3> QED BY <3>1, Distinct DEF IInv, TypeOK
  <2>2. CASE ~ \E x \in channels : Owner(x) = k
    <3>1. Rebuilt[k] = None
      BY <2>2 DEF Rebuilt
    <3> QED BY <2>2, <3>1, RouterAssumption
  <2> QED BY <2>1, <2>2
<1> QED BY <1>1 DEF Rebuilt

LEMMA RebuildStep ==
    ASSUME IInv, NEW t \in Threads, Rebuild(t)
    PROVE  IInv'
<1> PICK c : c = After(call[t]) OBVIOUS
<1>1. /\ call[t].at = "rebuild" /\ routes' = Rebuilt /\ lock' = None
      /\ call' = [call EXCEPT ![t] = c] /\ UNCHANGED <<channels, fields>>
  BY DEF Rebuild, Return
<1>2. c \in CallSet /\ c.at \notin Holding /\ ArgsOK(c)
  BY AfterType DEF IInv, TypeOK, CallSet, ArgsInv
<1>3. /\ call' \in [Threads -> CallSet] /\ call'[t] = c
      /\ \A u \in Threads \ {t} : call'[u] = call[u]
  BY <1>1, <1>2 DEF IInv, TypeOK, CallSet
<1>4. \A u \in Threads : call'[u].at \notin Holding
  BY <1>1, <1>2, <1>3 DEF IInv, LockInv, Holding
<1>5. TypeOK'
  BY <1>1, <1>3, RebuiltRight DEF IInv, TypeOK, CallSet, fields
<1>6. LockInv' /\ ArgsInv' /\ MidInv'
  BY <1>1, <1>2, <1>3, <1>4, RouterAssumption DEF IInv, LockInv, ArgsInv, MidInv
<1>7. FreeInv'
  <2>1. ASSUME NEW y \in Adapters PROVE Settled(y)'
    BY <1>1, RebuiltRight DEF Settled, Owner, fields
  <2> QED BY <2>1 DEF FreeInv
<1> QED BY <1>5, <1>6, <1>7 DEF IInv

-----------------------------------------------------------------------------
LEMMA Initially == Init => IInv
<1> SUFFICES ASSUME Init PROVE IInv
  OBVIOUS
<1>1. NoCall \in CallSet /\ ArgsOK(NoCall) /\ NoCall.at \notin Holding
  BY DEF NoCall, Call, CallSet, Ops, Steps, ArgsOK, Holding
<1>2. \A t \in Threads : call[t] = NoCall
  BY DEF Init
<1>3. TypeOK
  BY <1>1, <1>2 DEF Init, TypeOK, CallSet
<1>4. LockInv /\ ArgsInv /\ MidInv
  BY <1>1, <1>2, RouterAssumption DEF Init, LockInv, ArgsInv, MidInv
<1>5. FreeInv
  BY RouterAssumption DEF Init, FreeInv, Settled
<1> QED BY <1>3, <1>4, <1>5 DEF IInv

LEMMA Unchanged == IInv /\ UNCHANGED routerVars => IInv'
<1> SUFFICES ASSUME IInv, UNCHANGED routerVars PROVE IInv'
  OBVIOUS
<1>1. TypeOK' /\ LockInv' /\ ArgsInv'
  BY DEF IInv, routerVars, TypeOK, LockInv, ArgsInv
<1>2. MidInv' /\ FreeInv'
  BY DEF IInv, routerVars, MidInv, FreeInv, Mid, MidAssign, MidOne, MidClient,
         Settled, Released, Vacant, Owner
<1> QED BY <1>1, <1>2 DEF IInv

LEMMA Step == IInv /\ [Next]_routerVars => IInv'
<1> SUFFICES ASSUME IInv, NEW t \in Threads, AnyCall(t) \/ RouterStep(t) PROVE IInv'
  BY Unchanged DEF Next
<1>1. CASE AnyCall(t)
  BY <1>1, InvokeStep DEF AnyCall
<1>2. CASE RouterStep(t)
  BY <1>2, AutoResolveStep, AutoPickStep, AddStep, RemoveStep, AssignBeginStep,
     AssignClientStep, AssignSlotStep, UnassignStep, UnassignClientStep, RebuildStep
     DEF RouterStep
<1> QED BY <1>1, <1>2

LEMMA Inductive == Spec => []IInv
  BY Initially, Step, PTL DEF Spec

\* Every variable of the router keeps its type, in every step of every method.
THEOREM TypeCorrect == Spec => []TypeOK
  BY Inductive, PTL DEF IInv

\* Whenever no method holds the lock, a controller's entry in the lookup table
\* is the one channel whose fields name that controller.
THEOREM Agreement == Spec => []RoutesAgree
<1>1. IInv => RoutesAgree
  BY DEF IInv, FreeInv, Settled, RoutesAgree
<1> QED BY <1>1, Inductive, PTL

-----------------------------------------------------------------------------
(* The refinement: publishing the table is the one step AdapterTable sees. *)

\* What the table says of an adapter the method under way has not touched.
LEMMA PublishedAssign ==
    ASSUME IInv, NEW t \in Threads, call[t].at = "rebuild", call[t].op = "assign",
           routes' = Rebuilt
    PROVE  \E x \in Adapters, k \in Keys : Table!Give(x, k)
<1> PICK x : x = call[t].adapter OBVIOUS
<1> PICK k : k = <<call[t].client, call[t].slot>> OBVIOUS
<1>1. /\ x \in Adapters /\ x \in channels /\ k \in Keys /\ Owner(x) = k
      /\ \A y \in Adapters \ {x} : Settled(y) \/ Released(y, {k})
  BY DEF IInv, ArgsInv, ArgsOK, MidInv, Mid, MidAssign, Holding, Ops, Keys
<1>2. ASSUME NEW j \in Keys
      PROVE  Rebuilt[j] = IF j = k THEN x ELSE IF routes[j] = x THEN None ELSE routes[j]
  <2>1. /\ Rebuilt[j] \in Adapters \cup {None}
        /\ \A y \in Adapters : Rebuilt[j] = y <=> y \in channels /\ Owner(y) = j
    BY RebuiltRight
  <2>2. CASE j = k
    BY <1>1, <2>1, <2>2
  <2>3. CASE j # k /\ routes[j] = x
    <3>1. \A y \in Adapters \ {x} : ~ (y \in channels /\ Owner(y) = j)
      BY <1>1, <2>3, RouterAssumption DEF Settled, Released, Vacant, Keys
    <3> QED BY <1>1, <2>1, <2>3, <3>1
  <2>4. CASE j # k /\ routes[j] # x
    <3>1. routes[j] \in Adapters \cup {None}
      BY DEF IInv, TypeOK
    <3>2. ASSUME routes[j] \in Adapters PROVE Rebuilt[j] = routes[j]
      <4>1. Settled(routes[j])
        BY <1>1, <2>4, <3>2 DEF Released
      <4> QED BY <2>1, <3>2, <4>1 DEF Settled
    <3>3. ASSUME routes[j] = None PROVE Rebuilt[j] = None
      <4>1. \A y \in Adapters \ {x} : ~ (y \in channels /\ Owner(y) = j)
        BY <1>1, <3>3, RouterAssumption DEF Settled, Released, Vacant, Keys
      <4> QED BY <1>1, <2>1, <2>4, <4>1
    <3> QED BY <2>4, <3>1, <3>2, <3>3
  <2> QED BY <2>2, <2>3, <2>4
<1>3. Rebuilt = [j \in Keys |-> IF j = k THEN x ELSE IF routes[j] = x THEN None ELSE routes[j]]
  BY <1>2 DEF Rebuilt
<1>4. Table!Give(x, k)
  BY <1>3 DEF Table!Give, Table!Keys, Keys
<1> QED BY <1>1, <1>4

LEMMA PublishedOne ==
    ASSUME IInv, NEW t \in Threads, call[t].at = "rebuild",
           call[t].op \in {"add", "remove", "unassign"}, routes' = Rebuilt
    PROVE  \E x \in Adapters : Table!Release(x)
<1> PICK x : x = call[t].adapter OBVIOUS
<1>1. x \in Adapters /\ Vacant(x) /\ \A y \in Adapters \ {x} : Settled(y)
  BY DEF IInv, ArgsInv, ArgsOK, MidInv, Mid, MidOne, Holding, Ops
<1>2. ASSUME NEW j \in Keys
      PROVE  Rebuilt[j] = IF routes[j] = x THEN None ELSE routes[j]
  <2>1. /\ Rebuilt[j] \in Adapters \cup {None}
        /\ routes[j] \in Adapters \cup {None}
        /\ \A y \in Adapters : Rebuilt[j] = y <=> y \in channels /\ Owner(y) = j
    BY RebuiltRight DEF IInv, TypeOK
  <2>2. Rebuilt[j] # x
    BY <1>1, <2>1, RouterAssumption DEF Vacant, Keys
  <2>3. \A y \in Adapters \ {x} : Rebuilt[j] = y <=> routes[j] = y
    BY <1>1, <2>1 DEF Settled
  <2> QED BY <2>1, <2>2, <2>3, RouterAssumption
<1>3. Rebuilt = [j \in Keys |-> IF routes[j] = x THEN None ELSE routes[j]]
  BY <1>2 DEF Rebuilt
<1>4. Table!Release(x)
  BY <1>3 DEF Table!Release, Table!Keys, Keys
<1> QED BY <1>1, <1>4

LEMMA PublishedClient ==
    ASSUME IInv, NEW t \in Threads, call[t].at = "rebuild",
           call[t].op = "unassign_client", routes' = Rebuilt
    PROVE  \E c \in Clients : Table!ReleaseClient(c)
<1> PICK c : c = call[t].client OBVIOUS
<1>1. /\ c \in Clients
      /\ \A y \in Adapters :
           \/ Settled(y) /\ ~ (y \in channels /\ assigned_client[y] = c)
           \/ Released(y, {c} \X Slots)
  BY DEF IInv, ArgsInv, ArgsOK, MidInv, Mid, MidClient, Holding
<1>2. ASSUME NEW j \in Keys
      PROVE  Rebuilt[j] = IF j[1] = c THEN None ELSE routes[j]
  <2>1. /\ Rebuilt[j] \in Adapters \cup {None}
        /\ routes[j] \in Adapters \cup {None}
        /\ \A y \in Adapters : Rebuilt[j] = y <=> y \in channels /\ Owner(y) = j
    BY RebuiltRight DEF IInv, TypeOK
  <2>2. PICK d \in Clients, s \in Slots : j = <<d, s>>
    BY DEF Keys
  <2>3. \A y \in Adapters : y \in channels /\ Owner(y) = j =>
           assigned_client[y] = d /\ d # None
    BY <2>2, RouterAssumption DEF Owner
  <2>4. CASE d = c
    <3>1. \A y \in Adapters : ~ (y \in channels /\ Owner(y) = j)
      BY <1>1, <2>2, <2>3, <2>4, RouterAssumption DEF Released, Vacant, Keys
    <3> QED BY <2>1, <2>2, <2>4, <3>1
  <2>5. CASE d # c
    <3>1. \A y \in Adapters : Rebuilt[j] = y <=> routes[j] = y
      <4> TAKE y \in Adapters
      <4>1. CASE Settled(y)
        BY <2>1, <4>1 DEF Settled
      <4>2. CASE Released(y, {c} \X Slots)
        BY <2>1, <2>2, <2>5, <4>2, RouterAssumption DEF Released, Vacant, Keys
      <4> QED BY <1>1, <4>1, <4>2
    <3> QED BY <2>1, <2>2, <2>5, <3>1
  <2> QED BY <2>4, <2>5
<1>3. Rebuilt = [j \in Keys |-> IF j[1] = c THEN None ELSE routes[j]]
  BY <1>2 DEF Rebuilt
<1>4. Table!ReleaseClient(c)
  BY <1>3 DEF Table!ReleaseClient, Table!Keys, Keys
<1> QED BY <1>1, <1>4

\* A reader without the lock sees a table that changes in whole steps, each the
\* effect of one call: assign's conflicting entries go with the new one.
THEOREM Implements == Spec => ImplementsAdapterTable
<1>1. Init => Table!Init
  BY DEF Init, Table!Init, Table!Keys, Keys
<1>2. IInv /\ [Next]_routerVars => [Table!Next]_routes
  <2> SUFFICES ASSUME IInv, [Next]_routerVars, routes' # routes PROVE Table!Next
    OBVIOUS
  <2>1. PICK t \in Threads : Rebuild(t)
    BY DEF Next, routerVars, AnyCall, Invoke, RouterStep, AutoResolve, AutoPick, AddChannel,
           RemoveChannel, AssignBegin, AssignClient, AssignSlot, Unassign, UnassignClient,
           NothingToDo
  <2>2. call[t].at = "rebuild" /\ routes' = Rebuilt /\ call[t].op \in Ops
    BY <2>1 DEF Rebuild, IInv, ArgsInv, ArgsOK
  <2> QED BY <2>2, PublishedAssign, PublishedOne, PublishedClient DEF Table!Next, Table!Keys, Keys, Ops
<1> QED BY <1>1, <1>2, Inductive, PTL DEF Spec, Table!Spec, ImplementsAdapterTable

\* At every instant, in the middle of assign or remove_channel too, a lock-free
\* reader finds an adapter under one controller at most.
THEOREM OneToOneAlways == Spec => []TableOneToOne
<1>1. Init => TableOneToOne
  BY RouterAssumption DEF Init, TableOneToOne, Table!OneToOne, Table!Keys, Keys
<1>2. IInv /\ TableOneToOne /\ [Next]_routerVars => TableOneToOne'
  <2> SUFFICES ASSUME IInv, TableOneToOne, [Next]_routerVars, routes' # routes
               PROVE  TableOneToOne'
    BY DEF TableOneToOne, Table!OneToOne
  <2>1. PICK t \in Threads : Rebuild(t)
    BY DEF Next, routerVars, AnyCall, Invoke, RouterStep, AutoResolve, AutoPick, AddChannel,
           RemoveChannel, AssignBegin, AssignClient, AssignSlot, Unassign, UnassignClient,
           NothingToDo
  <2>2. /\ \A k \in Keys : routes'[k] \in Adapters \cup {None}
        /\ \A k \in Keys, y \in Adapters : routes'[k] = y => Owner(y) = k
    BY <2>1, RebuiltRight DEF Rebuild
  <2> QED BY <2>2 DEF TableOneToOne, Table!OneToOne, Table!Keys, Keys
<1> QED BY <1>1, <1>2, Inductive, PTL DEF Spec

\* add_channel tests the ceiling under the lock it adds under, so the server
\* never has more channels than MAX_OUTPUTS.
THEOREM CeilingHeld == Spec => []Ceiling
<1>1. Init => Ceiling
  BY FS_EmptySet, RouterAssumption DEF Init, Ceiling
<1>2. IInv /\ Ceiling /\ [Next]_routerVars => Ceiling'
  <2> SUFFICES ASSUME IInv, Ceiling, [Next]_routerVars, channels' # channels
               PROVE  Ceiling'
    BY DEF Ceiling
  <2>1. IsFiniteSet(channels) /\ Cardinality(channels) \in Nat
    BY FS_Subset, FS_CardinalityType, RouterAssumption DEF IInv, TypeOK
  <2>2. PICK t \in Threads : AddChannel(t) \/ RemoveChannel(t)
    BY DEF Next, routerVars, AnyCall, Invoke, RouterStep, AutoResolve, AutoPick, AssignBegin,
           AssignClient, AssignSlot, Unassign, UnassignClient, Rebuild, NothingToDo
  <2>3. CASE AddChannel(t)
    <3> PICK x : x = call[t].adapter OBVIOUS
    <3>1. /\ channels' = channels \cup {x}
          /\ ~ (Cardinality(channels) >= MaxOutputs /\ x \notin channels)
      BY <2>3 DEF AddChannel, NothingToDo
    <3>2. Cardinality(channels \cup {x}) =
            IF x \in channels THEN Cardinality(channels) ELSE Cardinality(channels) + 1
      BY <2>1, FS_AddElement
    <3>3. Cardinality(channels \cup {x}) <= MaxOutputs
      BY <2>1, <3>1, <3>2, RouterAssumption DEF Ceiling
    <3> QED BY <3>1, <3>3 DEF Ceiling
  <2>4. CASE RemoveChannel(t)
    <3>1. channels' \subseteq channels
      BY <2>4 DEF RemoveChannel, NothingToDo
    <3>2. Cardinality(channels') \in Nat /\ Cardinality(channels') <= Cardinality(channels)
      BY <2>1, <3>1, FS_Subset, FS_CardinalityType
    <3> QED BY <2>1, <3>2, RouterAssumption DEF Ceiling
  <2> QED BY <2>2, <2>3, <2>4
<1> QED BY <1>1, <1>2, Inductive, PTL DEF Spec

-----------------------------------------------------------------------------
(* The input path.                                                         *)

JobArgs ==
    LET d == job[Datapath]
    IN  /\ d.kind \in {"auth", "input"} => d.client \in Clients
        /\ d.kind = "input" => d.slot \in Slots
        /\ d.kind = "input" /\ d.at \in {"client", "slot", "write"} => d.adapter \in Adapters

Tracked ==
    LET d == job[Datapath]
    IN  d.kind = "input" =>
          /\ \A x \in Adapters : assigned_client[x] = d.client => x \in owned
          /\ d.at \in {"slot", "write"} => d.adapter \in owned

PathInv == IInv /\ PathTypeOK /\ JobArgs /\ Tracked

-----------------------------------------------------------------------------
LEMMA ThreadsNamed == Datapath \in Threads /\ Loop \in Threads /\ Datapath # Loop
  BY InputPathAssumption

LEMMA LowestSlot == Lowest(Slots) \in Slots
  BY LowestIn, InputPathAssumption

\* Each call the handlers make is one the router's specification allows.
LEMMA CallsAllowed ==
    /\ \A x \in Adapters, c \in Clients, s \in Slots : Call("assign", x, c, s, "lock") \in Calls
    /\ \A x \in Adapters : /\ Call("add", x, None, None, "lock") \in Calls
                           /\ Call("remove", x, None, None, "lock") \in Calls
                           /\ Call("unassign", x, None, None, "lock") \in Calls
    /\ \A c \in Clients : Call("unassign_client", None, c, None, "lock") \in Calls
    /\ \A c \in Clients, S \in (SUBSET Slots) \ {{}} : AutoCall(c, S) \in Calls
  BY DEF Calls

LEMMA Invoked ==
    ASSUME NEW t \in Threads, NEW c \in Calls, Invoke(t, c)
    PROVE  [Next]_routerVars
  BY DEF Next, AnyCall

LEMMA RouterMoves == PathInv /\ [PathNext]_vars => [Next]_routerVars
<1> SUFFICES ASSUME PathInv, [PathNext]_vars
             PROVE  [Next]_routerVars
  OBVIOUS
<1> USE ThreadsNamed
<1>1. CASE Packet
  <2>1. CASE \E c \in Clients, s \in Slots, p \in BOOLEAN : ReceiveInput(c, s, p)
    BY <2>1 DEF ReceiveInput
  <2>2. CASE \E c \in Clients : ReceiveAuth(c)
    BY <2>2 DEF ReceiveAuth
  <2>3. CASE \E c \in Clients : ReceiveDisconnect(c)
    BY <2>3, CallsAllowed, Invoked DEF ReceiveDisconnect, UnassignClientCall
  <2>4. CASE \E c \in Clients, S \in (SUBSET Slots) \ {{}} : SetControllers(c, S)
    BY <2>4, CallsAllowed, Invoked DEF SetControllers
  <2> QED BY <1>1, <2>1, <2>2, <2>3, <2>4 DEF Packet
<1>2. CASE Timeout
  BY <1>2 DEF Timeout, Reap
<1>3. CASE DatapathStep
  <2>1. CASE Resolve \/ CheckClient \/ CheckSlot \/ WriteReport \/ DropDisconnected \/ ReapRelease
    BY <2>1 DEF Resolve, CheckClient, CheckSlot, WriteReport, DropDisconnected,
                ForgetSession, ReapRelease
  <2>2. CASE CreateSession
    <3>1. job[Datapath].client \in Clients
      BY <2>2 DEF CreateSession, At, PathInv, JobArgs
    <3>2. CASE AutoApprove
      <4>1. Invoke(Datapath, AutoCall(job[Datapath].client, {Lowest(Slots)}))
        BY <2>2, <3>2 DEF CreateSession
      <4>2. {Lowest(Slots)} \in (SUBSET Slots) \ {{}}
        BY LowestSlot
      <4> QED BY <3>1, <4>1, <4>2, CallsAllowed, Invoked
    <3>3. CASE ~ AutoApprove
      BY <2>2, <3>3 DEF CreateSession
    <3> QED BY <3>2, <3>3
  <2>3. CASE \E c \in Clients : ReapUnassign(c)
    BY <2>3, CallsAllowed, Invoked DEF ReapUnassign, UnassignClientCall
  <2> QED BY <1>3, <2>1, <2>2, <2>3 DEF DatapathStep
<1>4. CASE Request
  <2>1. CASE \E c \in Clients : WebApprove(c)
    BY <2>1 DEF WebApprove
  <2>2. CASE \E c \in Clients : WebDeny(c)
    BY <2>2, CallsAllowed, Invoked DEF WebDeny, UnassignClientCall
  <2>3. CASE \E x \in Adapters, c \in Clients, s \in Slots : WebAssign(x, c, s)
    BY <2>3, CallsAllowed, Invoked DEF WebAssign
  <2>4. CASE \E x \in Adapters : WebUnassign(x) \/ PlugIn(x) \/ Unplug(x)
    BY <2>4, CallsAllowed, Invoked DEF WebUnassign, PlugIn, Unplug
  <2>5. CASE OpenGate \/ CloseGate \/ WebPassword
    BY <2>5 DEF OpenGate, CloseGate, WebPassword
  <2> QED BY <1>4, <2>1, <2>2, <2>3, <2>4, <2>5 DEF Request
<1>5. CASE LoopStep
  <2>1. CASE DropDenied \/ DropOne \/ GateClosed \/ SetPassword
             \/ \E kind \in {"accepting", "password"} : ListSessions(kind)
    BY <2>1 DEF DropDenied, ForgetSession, DropOne, GateClosed, SetPassword, ListSessions
  <2>2. CASE \E kind \in {"accepting", "password"}, c \in Clients : NextSession(kind, c)
    BY <2>2, CallsAllowed, Invoked DEF NextSession, UnassignClientCall
  <2> QED BY <1>5, <2>1, <2>2 DEF LoopStep
<1>6. CASE \E t \in Threads : InRouter(t)
  BY <1>6 DEF InRouter, Next
<1>7. CASE Consoles
  BY <1>7 DEF Consoles, ConsoleConnects, ConsoleGone
<1>8. CASE UNCHANGED vars
  BY <1>8 DEF vars
<1> QED BY <1>1, <1>2, <1>3, <1>4, <1>5, <1>6, <1>7, <1>8 DEF PathNext

-----------------------------------------------------------------------------
\* The rest of the invariant.  RestType is PathTypeOK without the router's part.
RestType ==
    /\ sessions \subseteq Clients /\ approved \subseteq Clients
    /\ accepting \in BOOLEAN /\ linked \subseteq Adapters
    /\ console \in [Adapters -> Keys \cup {Neutral}]
    /\ job \in [Threads -> JobSet]
    /\ owned \subseteq Adapters

PathPart == RestType /\ JobArgs /\ Tracked

\* A step that does not touch the datapath's handler nor any assignment.
LEMMA Elsewhere ==
    ASSUME JobArgs, Tracked, job'[Datapath] = job[Datapath],
           UNCHANGED <<assigned_client, owned>>
    PROVE  JobArgs' /\ Tracked'
  BY DEF JobArgs, Tracked

\* The datapath's handler ends, or turns into one that is not for an input.
LEMMA NotAnInput ==
    ASSUME job'[Datapath].kind \notin {"auth", "input"}
    PROVE  JobArgs' /\ Tracked'
  BY DEF JobArgs, Tracked

LEMMA NoJobType == NoJob \in JobSet /\ NoJob.kind = "none"
  BY DEF NoJob, Job, JobSet

LEMMA PacketStep == PathInv /\ (Packet \/ Timeout) => PathPart'
<1> SUFFICES ASSUME PathInv, Packet \/ Timeout PROVE PathPart'
  OBVIOUS
<1> USE ThreadsNamed DEF PathInv, PathTypeOK, PathPart, RestType
<1>1. CASE \E c \in Clients, s \in Slots, p \in BOOLEAN : ReceiveInput(c, s, p)
  <2> PICK c \in Clients, s \in Slots, p \in BOOLEAN : ReceiveInput(c, s, p)
    BY <1>1
  <2> DEFINE b == Job("input", "resolve", c)
             n == [b EXCEPT !.slot = s, !.pressed = p]
  <2>1. b \in JobSet /\ b.kind = "input" /\ b.at = "resolve" /\ b.client = c
    BY DEF Job, JobSet
  <2>2. n \in JobSet /\ n.kind = "input" /\ n.at = "resolve" /\ n.client = c /\ n.slot = s
    <3> HIDE DEF b
    <3> QED BY <2>1 DEF JobSet
  <2>3. job' = [job EXCEPT ![Datapath] = n]
    BY DEF ReceiveInput, Start
  <2> HIDE DEF n
  <2>4. RestType'
    BY <2>2, <2>3 DEF ReceiveInput
  <2>5. JobArgs' /\ Tracked'
    BY <2>2, <2>3 DEF ReceiveInput, JobArgs, Tracked, routerVars, fields
  <2> QED BY <2>4, <2>5
<1>2. CASE \E c \in Clients : ReceiveAuth(c) \/ ReceiveDisconnect(c)
  <2> PICK c \in Clients : ReceiveAuth(c) \/ ReceiveDisconnect(c)
    BY <1>2
  <2>1. PICK kind \in {"auth", "disconnect"}, at \in {"create", "drop"} :
          job' = [job EXCEPT ![Datapath] =
                   [kind |-> kind, at |-> at, client |-> c, slot |-> None,
                    pressed |-> FALSE, adapter |-> None, rest |-> {}]]
    BY DEF ReceiveAuth, ReceiveDisconnect, Start, Job
  <2>2. RestType'
    BY <2>1 DEF ReceiveAuth, ReceiveDisconnect, JobSet
  <2>3. JobArgs' /\ Tracked'
    BY <2>1 DEF JobArgs, Tracked
  <2> QED BY <2>2, <2>3
<1>3. CASE \E c \in Clients, S \in (SUBSET Slots) \ {{}} : SetControllers(c, S)
  <2>1. UNCHANGED <<sessions, approved, accepting, linked, console, job, owned, assigned_client>>
    BY <1>3 DEF SetControllers, Invoke, fields
  <2> QED BY <2>1, Elsewhere
<1>4. CASE \E S \in SUBSET sessions : Reap(S)
  <2> PICK S \in SUBSET sessions : Reap(S)
    BY <1>4
  <2> DEFINE b == Job("reap", "unassign", None)
             n == [b EXCEPT !.rest = S]
  <2>1. b \in JobSet /\ b.kind = "reap"
    BY DEF Job, JobSet
  <2>2. n \in JobSet /\ n.kind = "reap"
    <3> HIDE DEF b
    <3> QED BY <2>1 DEF JobSet
  <2>3. job' = [job EXCEPT ![Datapath] = n]
    BY DEF Reap, Start
  <2> HIDE DEF n
  <2>4. RestType'
    BY <2>2, <2>3 DEF Reap
  <2> QED BY <2>2, <2>3, <2>4, NotAnInput
<1> QED BY <1>1, <1>2, <1>3, <1>4 DEF Packet, Timeout

LEMMA InputStep == PathInv /\ (Resolve \/ CheckClient \/ CheckSlot \/ WriteReport) => PathPart'
<1> SUFFICES ASSUME PathInv, Resolve \/ CheckClient \/ CheckSlot \/ WriteReport PROVE PathPart'
  OBVIOUS
<1> USE ThreadsNamed DEF PathInv, PathTypeOK, PathPart, RestType
<1> DEFINE j == job[Datapath]
<1>0. /\ j \in JobSet /\ j.kind = "input"
      /\ j.client \in Clients /\ j.slot \in Slots
  BY DEF Resolve, CheckClient, CheckSlot, WriteReport, At, JobArgs
<1>f. CASE Finish(Datapath) /\ UNCHANGED <<sessions, approved, accepting, linked, console, owned>>
  <2>1. job' = [job EXCEPT ![Datapath] = NoJob]
    BY <1>f DEF Finish
  <2>2. RestType'
    BY <1>f, <2>1, NoJobType
  <2> QED BY <2>1, <2>2, NoJobType, NotAnInput
<1>1. CASE Resolve
  <2> DEFINE x == routes[<<j.client, j.slot>>]
  <2>1. x \in Adapters \cup {None}
    BY <1>0 DEF TypeOK, Keys
  <2>2. CASE x = None
    BY <1>1, <1>f, <2>2 DEF Resolve
  <2>3. CASE x # None
    <3>1. job' = [job EXCEPT ![Datapath].adapter = x, ![Datapath].at = "client"]
      BY <1>1, <2>3 DEF Resolve
    <3>2. job' \in [Threads -> JobSet]
      BY <1>0, <2>1, <2>3, <3>1 DEF JobSet
    <3>3. RestType'
      BY <1>1, <3>2 DEF Resolve
    <3>4. JobArgs' /\ Tracked'
      BY <1>0, <1>1, <2>1, <2>3, <3>1 DEF Resolve, JobArgs, Tracked, JobSet, routerVars, fields
    <3> QED BY <3>3, <3>4
  <2> QED BY <2>2, <2>3
<1>2. CASE CheckClient \/ CheckSlot
  <2>1. CASE Finish(Datapath)
    BY <1>2, <1>f, <2>1 DEF CheckClient, CheckSlot
  <2>2. CASE ~ Finish(Datapath)
    <3>1. PICK at \in {"slot", "write"} : job' = [job EXCEPT ![Datapath].at = at]
      BY <1>2, <2>2 DEF CheckClient, CheckSlot, Advance
    <3>2. job' \in [Threads -> JobSet]
      BY <1>0, <3>1 DEF JobSet
    <3>3. RestType'
      BY <1>2, <3>2 DEF CheckClient, CheckSlot
    <3>4. j.adapter \in Adapters /\ j.adapter \in owned
      BY <1>0, <1>2, <2>2 DEF CheckClient, CheckSlot, At, JobArgs, Tracked
    <3>5. JobArgs' /\ Tracked'
      BY <1>0, <1>2, <3>1, <3>4 DEF CheckClient, CheckSlot, JobArgs, Tracked, JobSet, routerVars, fields
    <3> QED BY <3>3, <3>5
  <2> QED BY <2>1, <2>2
<1>3. CASE WriteReport
  <2>1. job' = [job EXCEPT ![Datapath] = NoJob]
    BY <1>3 DEF WriteReport, Finish
  <2>2. console' \in [Adapters -> Keys \cup {Neutral}]
    BY <1>0, <1>3 DEF WriteReport, Keys
  <2>3. RestType'
    BY <1>3, <2>1, <2>2, NoJobType DEF WriteReport
  <2> QED BY <2>1, <2>3, NoJobType, NotAnInput
<1> QED BY <1>1, <1>2, <1>3

\* The datapath's other handlers, from their first step on.
LEMMA DatapathRest ==
    PathInv /\ (CreateSession \/ DropDisconnected \/ ReapRelease
                  \/ \E c \in Clients : ReapUnassign(c)) => PathPart'
<1> SUFFICES ASSUME PathInv, CreateSession \/ DropDisconnected \/ ReapRelease
                              \/ \E c \in Clients : ReapUnassign(c)
             PROVE  PathPart'
  OBVIOUS
<1> USE ThreadsNamed DEF PathInv, PathTypeOK, PathPart, RestType
<1>1. CASE CreateSession \/ DropDisconnected
  <2>1. job' = [job EXCEPT ![Datapath] = NoJob]
    BY <1>1 DEF CreateSession, DropDisconnected, ForgetSession, Finish
  <2>2. job[Datapath].client \in Clients \/ DropDisconnected
    BY <1>1 DEF CreateSession, At, JobArgs
  <2>3. RestType'
    BY <1>1, <2>1, <2>2, NoJobType DEF CreateSession, DropDisconnected, ForgetSession
  <2> QED BY <2>1, <2>3, NoJobType, NotAnInput
<1>2. CASE ReapRelease
  <2> DEFINE j == job[Datapath]
  <2>1. j \in JobSet /\ j.kind = "reap"
    BY <1>2 DEF ReapRelease, At
  <2>2. \/ job' = [job EXCEPT ![Datapath] = NoJob]
        \/ job' = [job EXCEPT ![Datapath].rest = j.rest \ {j.client}, ![Datapath].at = "unassign"]
    BY <1>2 DEF ReapRelease, Finish
  <2>3. job' \in [Threads -> JobSet] /\ job'[Datapath].kind \in {"none", "reap"}
    <3>1. CASE job' = [job EXCEPT ![Datapath] = NoJob]
      BY <3>1, NoJobType
    <3>2. CASE job' = [job EXCEPT ![Datapath].rest = j.rest \ {j.client}, ![Datapath].at = "unassign"]
      BY <2>1, <3>2 DEF JobSet
    <3> QED BY <2>2, <3>1, <3>2
  <2>4. console' \in [Adapters -> Keys \cup {Neutral}]
    BY <1>2 DEF ReapRelease
  <2>5. RestType'
    BY <1>2, <2>3, <2>4 DEF ReapRelease
  <2> QED BY <2>3, <2>5, NotAnInput
<1>3. CASE \E c \in Clients : ReapUnassign(c)
  <2> PICK c \in Clients : ReapUnassign(c)
    BY <1>3
  <2>1. job[Datapath] \in JobSet /\ job[Datapath].kind = "reap"
    BY DEF ReapUnassign, At
  <2>2. job' \in [Threads -> JobSet] /\ job'[Datapath].kind = "reap"
    BY <2>1 DEF ReapUnassign, JobSet
  <2>3. RestType'
    BY <2>2 DEF ReapUnassign
  <2> QED BY <2>2, <2>3, NotAnInput
<1> QED BY <1>1, <1>2, <1>3

\* The asyncio thread touches neither the datapath's job nor an assignment.
LEMMA LoopType ==
    ASSUME PathInv, UNCHANGED <<console, owned, assigned_client>>,
           sessions' \subseteq sessions \cup Clients, approved' \subseteq approved \cup Clients,
           accepting' \in BOOLEAN, linked' \subseteq linked \cup Adapters,
           job' \in [Threads -> JobSet], job'[Datapath] = job[Datapath]
    PROVE  PathPart'
<1>1. RestType'
  BY DEF PathInv, PathTypeOK, RestType
<1> QED BY <1>1, Elsewhere DEF PathInv, PathPart

LEMMA RequestStep == PathInv /\ Request => PathPart'
<1> SUFFICES ASSUME PathInv, Request PROVE PathPart'
  OBVIOUS
<1> USE ThreadsNamed
<1>0. /\ job \in [Threads -> JobSet] /\ accepting \in BOOLEAN
      /\ sessions \subseteq Clients /\ approved \subseteq Clients
  BY DEF PathInv, PathTypeOK
<1>1. CASE \E c \in Clients : WebApprove(c)
  BY <1>0, <1>1, LoopType DEF WebApprove, routerVars, fields
<1>2. CASE \E c \in Clients : WebDeny(c)
  <2> PICK c \in Clients : WebDeny(c)
    BY <1>2
  <2>1. Job("deny", "drop", c) \in JobSet
    BY DEF Job, JobSet
  <2>2. job' \in [Threads -> JobSet] /\ job'[Datapath] = job[Datapath]
    BY <1>0, <2>1 DEF WebDeny, Start
  <2> QED BY <1>0, <2>2, LoopType DEF WebDeny, UnassignClientCall, Invoke, fields
<1>3. CASE \/ \E x \in Adapters, c \in Clients, s \in Slots : WebAssign(x, c, s)
           \/ \E x \in Adapters : WebUnassign(x) \/ PlugIn(x) \/ Unplug(x)
  BY <1>0, <1>3, LoopType DEF WebAssign, WebUnassign, PlugIn, Unplug, Invoke, fields
<1>4. CASE OpenGate \/ CloseGate \/ WebPassword
  <2>1. Job("accepting", "list", None) \in JobSet /\ Job("password", "list", None) \in JobSet
    BY DEF Job, JobSet
  <2>2. job' \in [Threads -> JobSet] /\ job'[Datapath] = job[Datapath]
    BY <1>0, <1>4, <2>1 DEF OpenGate, CloseGate, WebPassword, Start
  <2> QED BY <1>0, <1>4, <2>2, LoopType DEF OpenGate, CloseGate, WebPassword, routerVars, fields
<1> QED BY <1>1, <1>2, <1>3, <1>4 DEF Request

LEMMA LoopStepStep == PathInv /\ LoopStep => PathPart'
<1> SUFFICES ASSUME PathInv, LoopStep PROVE PathPart'
  OBVIOUS
<1> USE ThreadsNamed
<1>0. /\ job \in [Threads -> JobSet] /\ accepting \in BOOLEAN
      /\ sessions \subseteq Clients /\ approved \subseteq Clients
      /\ job[Loop] \in JobSet
  BY DEF PathInv, PathTypeOK
<1>1. CASE DropDenied \/ GateClosed \/ SetPassword
  <2>1. job' = [job EXCEPT ![Loop] = NoJob]
    BY <1>1 DEF DropDenied, ForgetSession, GateClosed, SetPassword, Finish
  <2> QED BY <1>0, <1>1, <2>1, NoJobType, LoopType
          DEF DropDenied, ForgetSession, GateClosed, SetPassword, routerVars, fields
<1>2. CASE DropOne
  <2>1. job' = [job EXCEPT ![Loop].at = "next"]
    BY <1>2 DEF DropOne, Advance
  <2>2. job' \in [Threads -> JobSet] /\ job'[Datapath] = job[Datapath]
    BY <1>0, <2>1 DEF JobSet
  <2> QED BY <1>0, <1>2, <2>2, LoopType DEF DropOne, routerVars, fields
<1>3. CASE \E kind \in {"accepting", "password"} : ListSessions(kind)
  <2>1. job' = [job EXCEPT ![Loop].rest = sessions, ![Loop].at = "next"]
    BY <1>3 DEF ListSessions
  <2>2. job' \in [Threads -> JobSet] /\ job'[Datapath] = job[Datapath]
    BY <1>0, <2>1 DEF JobSet
  <2> QED BY <1>0, <1>3, <2>2, LoopType DEF ListSessions, routerVars, fields
<1>4. CASE \E kind \in {"accepting", "password"}, c \in Clients : NextSession(kind, c)
  <2>1. PICK c \in Clients, at \in {"drop one", "next"} :
          job' = [job EXCEPT ![Loop].client = c, ![Loop].rest = @ \ {c}, ![Loop].at = at]
    BY <1>4 DEF NextSession
  <2>2. job' \in [Threads -> JobSet] /\ job'[Datapath] = job[Datapath]
    BY <1>0, <2>1 DEF JobSet
  <2> QED BY <1>0, <1>4, <2>2, LoopType DEF NextSession, UnassignClientCall, Invoke, fields
<1> QED BY <1>1, <1>2, <1>3, <1>4 DEF LoopStep

\* Wherever the router moves an assignment, the history of the packet follows.
LEMMA InRouterStep == PathInv /\ (\E t \in Threads : InRouter(t)) => PathPart'
<1> SUFFICES ASSUME PathInv, NEW t \in Threads, InRouter(t) PROVE PathPart'
  OBVIOUS
<1>1. RestType'
  BY DEF PathInv, PathTypeOK, RestType, InRouter, Follow
<1>2. JobArgs' /\ Tracked'
  BY DEF PathInv, JobArgs, Tracked, InRouter, Follow
<1> QED BY <1>1, <1>2 DEF PathPart

LEMMA ConsolesStep == PathInv /\ Consoles => PathPart'
<1> SUFFICES ASSUME PathInv, NEW x \in Adapters, ConsoleConnects(x) \/ ConsoleGone(x)
             PROVE  PathPart'
  BY DEF Consoles
<1>1. RestType'
  BY DEF PathInv, PathTypeOK, RestType, ConsoleConnects, ConsoleGone
<1>2. JobArgs' /\ Tracked'
  BY Elsewhere DEF PathInv, ConsoleConnects, ConsoleGone, routerVars, fields
<1> QED BY <1>1, <1>2 DEF PathPart

LEMMA PathInitially == PathInit => PathInv
<1> SUFFICES ASSUME PathInit PROVE PathInv
  OBVIOUS
<1> USE ThreadsNamed
<1>1. IInv
  BY Initially DEF PathInit
<1>2. RestType
  BY NoJobType DEF PathInit, RestType
<1>3. JobArgs /\ Tracked
  BY NoJobType DEF PathInit, JobArgs, Tracked
<1> QED BY <1>1, <1>2, <1>3 DEF PathInv, PathTypeOK, RestType, IInv

LEMMA PathStep == PathInv /\ [PathNext]_vars => PathInv'
<1> SUFFICES ASSUME PathInv, [PathNext]_vars PROVE PathInv'
  OBVIOUS
<1>1. IInv'
  BY RouterMoves, Step DEF PathInv
<1>2. PathPart'
  <2>1. CASE UNCHANGED vars
    BY <2>1 DEF vars, routerVars, fields, PathInv, PathTypeOK, PathPart, RestType, JobArgs, Tracked
  <2> QED BY <2>1, PacketStep, InputStep, DatapathRest, RequestStep, LoopStepStep,
             InRouterStep, ConsolesStep DEF PathNext, DatapathStep
<1> QED BY <1>1, <1>2 DEF PathInv, PathTypeOK, PathPart, RestType, IInv

LEMMA PathInductive == PathSpec => []PathInv
  BY PathInitially, PathStep, PTL DEF PathSpec

-----------------------------------------------------------------------------
(* The theorems.                                                           *)

\* The server's tables, consoles and handlers keep their types.
THEOREM PathTypeCorrect == PathSpec => []PathTypeOK
<1>1. PathInv => PathTypeOK
  BY DEF PathInv
<1> QED BY <1>1, PathInductive, PTL

\* Whatever the operator does meanwhile, a report goes to an adapter that was
\* its client's own at some moment since the packet arrived.
THEOREM ReportsHeld == PathSpec => []ReportsFollowOwner
<1>1. PathInv => ReportsFollowOwner
  BY DEF PathInv, Tracked, ReportsFollowOwner, At
<1> QED BY <1>1, PathInductive, PTL

\* The handlers together use the router as its specification says it is used:
\* every theorem about the router alone holds of it inside the server.
THEOREM RefinesRouter == PathSpec => Spec
<1>1. PathInit => Init
  BY DEF PathInit
<1>2. PathInv /\ [PathNext]_vars => [Next]_routerVars
  BY RouterMoves
<1> QED BY <1>1, <1>2, PathInductive, PTL DEF PathSpec, Spec

\* In the server at work, too, the lookup table and the channels agree
\* whenever the router's lock is free.
THEOREM PathAgreement == PathSpec => []RoutesAgree
  BY RefinesRouter, Agreement, PTL

-----------------------------------------------------------------------------
(* No adapter stays with a client that has no session, as long as the      *)
(* operator neither assigns adapters nor ends sessions: then the datapath  *)
(* alone does both, one after the other.  A client that has been reaped    *)
(* still has its adapters until its turn comes in _maybe_maintenance.      *)

OperatorLetsBe == WebOps \cap {"assign", "deny", "accepting", "password"} = {}

\* Reaped clients whose adapters have not been taken away yet.
Departing ==
    LET d == job[Datapath]
    IN  IF d.kind # "reap" THEN {}
        ELSE IF d.at = "release" /\ call[Datapath].at # "lock" THEN d.rest \ {d.client}
        ELSE d.rest

LoopPlain ==
    /\ job[Loop] = NoJob
    /\ call[Loop].at # "idle" => call[Loop].op \in {"add", "remove", "unassign"}

\* The datapath is in the router only for a live client, or to empty the
\* adapters of the one its handler is about.
CallsOfHandler ==
    LET c == call[Datapath]
        d == job[Datapath]
    IN  /\ c.at # "idle" => c.op \in {"assign", "unassign_client"}
        /\ c.at # "idle" /\ c.op = "assign" => d = NoJob /\ c.client \in sessions
        /\ c.at # "idle" /\ c.op = "unassign_client" =>
             /\ c.at \in {"lock", "rebuild"} /\ c.client = d.client
             /\ \/ d.kind = "disconnect" /\ d.at = "drop"
                \/ d.kind = "reap" /\ d.at = "release"
        /\ d.kind = "reap" => d.at \in {"unassign", "release"}
        /\ d.kind = "disconnect" => d.at = "drop"
        /\ d.at = "idle" => d = NoJob
        /\ d.kind \in {"disconnect", "reap"} /\ d.at \in {"drop", "release"}
             => d.client \in Clients

Owners == \A x \in channels : assigned_client[x] \in sessions \cup {None} \cup Departing

Emptied ==
    LET d == job[Datapath]
    IN  d.kind \in {"disconnect", "reap"} /\ d.at \in {"drop", "release"} /\ call[Datapath].at # "lock"
          => \A x \in channels : assigned_client[x] # d.client

SessionPart == LoopPlain /\ CallsOfHandler /\ Owners /\ Emptied
SessionInv == PathInv /\ SessionPart

LEMMA NoCallIdle == NoCall.at = "idle" /\ NoCall.op = "none"
  BY DEF NoCall, Call

LEMMA CallFields ==
    ASSUME NEW op, NEW x, NEW c, NEW s, NEW at
    PROVE  /\ Call(op, x, c, s, at).op = op /\ Call(op, x, c, s, at).at = at
           /\ Call(op, x, c, s, at).client = c
  BY DEF Call

LEMMA AutoCallFields ==
    ASSUME NEW c, NEW S
    PROVE  AutoCall(c, S).op = "assign" /\ AutoCall(c, S).client = c /\ AutoCall(c, S).at = "resolve"
  BY DEF AutoCall, Call

LEMMA JobFields ==
    ASSUME NEW kind, NEW at, NEW c
    PROVE  /\ Job(kind, at, c).kind = kind /\ Job(kind, at, c).at = at
           /\ Job(kind, at, c).client = c /\ Job(kind, at, c).rest = {}
  BY DEF Job

\* A call of the router goes on with the same client, or is over.
GoesOn(t) == call'[t].at = "idle" \/ (/\ call'[t].op = call[t].op
                                      /\ call'[t].client = call[t].client)

LEMMA Returned ==
    ASSUME IInv, NEW t \in Threads, call[t].at # "idle", Return(t)
    PROVE  GoesOn(t) /\ (call[t].op # "assign" => call'[t].at = "idle")
<1>1. call[t] \in CallSet /\ ArgsOK(call[t]) /\ call'[t] = After(call[t])
  BY DEF IInv, TypeOK, CallSet, ArgsInv, Return
<1>2. CASE call[t].todo = {}
  BY <1>1, <1>2, NoCallIdle DEF After, GoesOn
<1>3. CASE call[t].todo # {}
  <2>1. call[t].op = "assign" /\ call'[t] = AutoCall(call[t].client, call[t].todo)
    BY <1>1, <1>3 DEF After, ArgsOK
  <2> QED BY <2>1, AutoCallFields DEF GoesOn
<1> QED BY <1>2, <1>3

LEMMA WentTo ==
    ASSUME IInv, NEW t \in Threads, NEW at, Goto(t, at)
    PROVE  GoesOn(t) /\ call'[t].at = at
  BY DEF IInv, TypeOK, Goto, GoesOn

\* Whom a step of the router leaves an adapter to.
LEMMA WhoseAdapter ==
    ASSUME IInv, NEW t \in Threads, RouterStep(t)
    PROVE  /\ GoesOn(t) /\ call[t].at # "idle"
           /\ \A u \in Threads \ {t} : call'[u] = call[u]
           /\ \A x \in channels' :
                \/ assigned_client'[x] = None
                \/ x \in channels /\ assigned_client'[x] = assigned_client[x]
                \/ call[t].op = "assign" /\ assigned_client'[x] = call[t].client
<1>0. /\ call \in [Threads -> CallSet] /\ assigned_client \in [Adapters -> Clients \cup {None}]
      /\ channels \subseteq Adapters /\ ArgsOK(call[t])
  BY DEF IInv, TypeOK, CallSet, ArgsInv
<1>1. \A u \in Threads \ {t} : call'[u] = call[u]
  BY <1>0 DEF RouterStep, AutoResolve, AutoPick, AddChannel, RemoveChannel, AssignBegin, AssignClient,
              AssignSlot, Unassign, UnassignClient, Rebuild, NothingToDo, Return, Goto
<1>2. call[t].at # "idle"
  BY DEF RouterStep, AutoResolve, AutoPick, AddChannel, RemoveChannel, AssignBegin, AssignClient,
         AssignSlot, Unassign, UnassignClient, Rebuild, Acquire
<1>3. GoesOn(t)
  <2>1. CASE call' = [call EXCEPT ![t] = NoCall]
    BY <1>0, <2>1, NoCallIdle DEF GoesOn
  <2>2. CASE \E x : call' = [call EXCEPT ![t].adapter = x, ![t].at = "lock"]
    BY <1>0, <2>2 DEF GoesOn, CallSet
  <2>3. CASE Return(t)
    BY <1>2, <2>3, Returned
  <2>4. CASE \E at : Goto(t, at)
    BY <2>4, WentTo
  <2> QED BY <2>1, <2>2, <2>3, <2>4
          DEF RouterStep, AutoResolve, AutoPick, AddChannel, RemoveChannel, AssignBegin, AssignClient,
              AssignSlot, Unassign, UnassignClient, Rebuild, NothingToDo
<1>4. ASSUME NEW x \in channels'
      PROVE  \/ assigned_client'[x] = None
             \/ x \in channels /\ assigned_client'[x] = assigned_client[x]
             \/ call[t].op = "assign" /\ assigned_client'[x] = call[t].client
  <2>1. CASE UNCHANGED <<channels, assigned_client>>
    BY <2>1
  <2>2. CASE \E S : Clear(S) /\ channels' = channels
    BY <1>0, <2>2 DEF Clear
  <2>3. CASE AddChannel(t) /\ ~ UNCHANGED <<channels, assigned_client>>
    <3>1. /\ channels' = channels \cup {call[t].adapter}
          /\ assigned_client' = [assigned_client EXCEPT ![call[t].adapter] = None]
      BY <2>3 DEF AddChannel, NothingToDo, fields
    <3>2. call[t].adapter \in Adapters
      BY <1>0, <2>3 DEF AddChannel, Acquire, ArgsOK, Ops
    <3> QED BY <1>0, <3>1, <3>2
  <2>4. CASE RemoveChannel(t)
    <3>1. channels' \subseteq channels /\ assigned_client' = assigned_client
      BY <2>4 DEF RemoveChannel, NothingToDo, fields
    <3> QED BY <3>1
  <2>5. CASE AssignClient(t)
    <3>1. /\ channels' = channels /\ call[t].op = "assign"
          /\ assigned_client' = [assigned_client EXCEPT ![call[t].adapter] = call[t].client]
      BY <1>0, <2>5 DEF AssignClient, ArgsOK
    <3> QED BY <1>0, <3>1
  <2> QED BY <2>1, <2>2, <2>3, <2>4, <2>5
          DEF RouterStep, AutoResolve, AutoPick, AssignBegin, AssignSlot, Unassign, UnassignClient,
              Rebuild, NothingToDo, fields
<1> QED BY <1>1, <1>2, <1>3, <1>4

\* unassign_client leaves its client nothing, in its first step.
LEMMA ClientEmptied ==
    ASSUME IInv, NEW t \in Threads, RouterStep(t), call[t].op = "unassign_client"
    PROVE  /\ call[t].at = "lock" => /\ call'[t].at \in {"rebuild", "idle"}
                                     /\ \A x \in channels' : assigned_client'[x] # call[t].client
           /\ call[t].at = "rebuild" => /\ call'[t].at = "idle"
                                        /\ UNCHANGED <<channels, assigned_client>>
<1>0. /\ call[t] \in CallSet /\ ArgsOK(call[t]) /\ channels \subseteq Adapters
  BY DEF IInv, TypeOK, CallSet, ArgsInv
<1>1. call[t].client # None
  BY <1>0, RouterAssumption DEF ArgsOK
<1>2. ASSUME call[t].at = "lock"
      PROVE  /\ call'[t].at \in {"rebuild", "idle"}
             /\ \A x \in channels' : assigned_client'[x] # call[t].client
  <2>1. UnassignClient(t)
    BY <1>2 DEF RouterStep, AutoResolve, AutoPick, AddChannel, RemoveChannel, AssignBegin,
                AssignClient, AssignSlot, Unassign, Rebuild, Acquire
  <2>2. CASE Driven(call[t].client) = {}
    <3>1. Return(t) /\ UNCHANGED <<channels, assigned_client>>
      BY <2>1, <2>2 DEF UnassignClient, NothingToDo, fields
    <3>2. call'[t].at = "idle"
      BY <1>2, <3>1, Returned
    <3> QED BY <2>2, <3>1, <3>2 DEF Driven
  <2>3. CASE Driven(call[t].client) # {}
    <3>1. Clear(Driven(call[t].client)) /\ Goto(t, "rebuild") /\ channels' = channels
      BY <2>1, <2>3 DEF UnassignClient
    <3>2. call'[t].at = "rebuild"
      BY <3>1, WentTo
    <3> QED BY <1>0, <1>1, <3>1, <3>2 DEF Clear, Driven
  <2> QED BY <2>2, <2>3
<1>3. ASSUME call[t].at = "rebuild"
      PROVE  call'[t].at = "idle" /\ UNCHANGED <<channels, assigned_client>>
  <2>1. Rebuild(t)
    BY <1>3 DEF RouterStep, AutoResolve, AutoPick, AddChannel, RemoveChannel, AssignBegin,
                AssignClient, AssignSlot, Unassign, UnassignClient, Acquire
  <2> QED BY <1>3, <2>1, Returned DEF Rebuild, fields
<1> QED BY <1>2, <1>3

\* Steps that leave the datapath's handler, its call and the sessions alone.
LEMMA SessionAside ==
    ASSUME SessionInv, UNCHANGED <<channels, assigned_client, sessions>>,
           job'[Datapath] = job[Datapath], call'[Datapath] = call[Datapath], job'[Loop] = job[Loop],
           \/ call'[Loop] = call[Loop]
           \/ call'[Loop].op \in {"add", "remove", "unassign"}
    PROVE  SessionPart'
  BY DEF SessionInv, SessionPart, LoopPlain, CallsOfHandler, Owners, Emptied, Departing

\* The datapath takes up or ends a handler that is for no departing client.
LEMMA SessionIfBusy ==
    ASSUME SessionInv, UNCHANGED <<channels, assigned_client>>, sessions \subseteq sessions',
           Departing = {},
           job'[Loop] = job[Loop], call'[Loop] = call[Loop],
           job'[Datapath].kind \notin {"disconnect", "reap"},
           job'[Datapath].at = "idle" => job'[Datapath] = NoJob,
           \/ call'[Datapath].at = "idle"
           \/ /\ job'[Datapath] = NoJob
              /\ call'[Datapath].op = "assign" /\ call'[Datapath].client \in sessions'
    PROVE  SessionPart'
<1>1. LoopPlain' /\ CallsOfHandler' /\ Emptied'
  BY DEF SessionInv, SessionPart, LoopPlain, CallsOfHandler, Emptied
<1>2. Owners'
  BY DEF SessionInv, SessionPart, Owners
<1> QED BY <1>1, <1>2 DEF SessionPart

LEMMA SessionByPacket == SessionInv /\ (Packet \/ Timeout) => SessionPart'
<1> SUFFICES ASSUME SessionInv, Packet \/ Timeout PROVE SessionPart'
  OBVIOUS
<1> USE ThreadsNamed
<1>0. /\ job \in [Threads -> JobSet] /\ call \in [Threads -> CallSet] /\ sessions \subseteq Clients
  BY DEF SessionInv, PathInv, PathTypeOK, TypeOK, CallSet
<1>1. Ready(Datapath) => /\ job[Datapath] = NoJob /\ call[Datapath].at = "idle"
                         /\ Departing = {} /\ \A x \in channels : assigned_client[x] \in sessions \cup {None}
  <2>1. NoJob.kind = "none"
    BY NoJobType
  <2> QED BY <2>1 DEF Ready, SessionInv, SessionPart, CallsOfHandler, Departing, Owners
<1>2. CASE \E c \in Clients, s \in Slots, p \in BOOLEAN : ReceiveInput(c, s, p)
  <2> PICK c \in Clients, s \in Slots, p \in BOOLEAN : ReceiveInput(c, s, p)
    BY <1>2
  <2> DEFINE n == [Job("input", "resolve", c) EXCEPT !.slot = s, !.pressed = p]
  <2>1. n.kind = "input" /\ n.at = "resolve"
    BY DEF Job
  <2>2. job' = [job EXCEPT ![Datapath] = n] /\ Ready(Datapath)
        /\ UNCHANGED <<channels, assigned_client, sessions, call>>
    BY DEF ReceiveInput, Start, routerVars, fields
  <2> HIDE DEF n
  <2> QED BY <1>0, <1>1, <2>1, <2>2, SessionIfBusy
<1>3. CASE \E c \in Clients : ReceiveAuth(c)
  <2> PICK c \in Clients : ReceiveAuth(c)
    BY <1>3
  <2>1. job' = [job EXCEPT ![Datapath] = Job("auth", "create", c)] /\ Ready(Datapath)
        /\ UNCHANGED <<channels, assigned_client, sessions, call>>
    BY DEF ReceiveAuth, Start, routerVars, fields
  <2> QED BY <1>0, <1>1, <2>1, JobFields, SessionIfBusy
<1>4. CASE \E c \in Clients : ReceiveDisconnect(c)
  <2> PICK c \in Clients : ReceiveDisconnect(c)
    BY <1>4
  <2> DEFINE n == Job("disconnect", "drop", c)
             m == Call("unassign_client", None, c, None, "lock")
  <2>1. job' = [job EXCEPT ![Datapath] = n] /\ Ready(Datapath)
        /\ call' = [call EXCEPT ![Datapath] = m]
        /\ UNCHANGED <<channels, assigned_client, sessions>>
    BY DEF ReceiveDisconnect, UnassignClientCall, Invoke, Start, fields
  <2>2. n.kind = "disconnect" /\ n.at = "drop" /\ n.client = c
    BY JobFields
  <2>3. m.op = "unassign_client" /\ m.client = c /\ m.at = "lock"
    BY CallFields
  <2> HIDE DEF n, m
  <2>4. /\ job'[Datapath] = n /\ job'[Loop] = job[Loop]
        /\ call'[Datapath] = m /\ call'[Loop] = call[Loop]
    BY <1>0, <2>1
  <2>5. LoopPlain' /\ CallsOfHandler' /\ Emptied'
    BY <2>2, <2>3, <2>4 DEF SessionInv, SessionPart, LoopPlain, CallsOfHandler, Emptied
  <2>6. Owners'
    BY <1>1, <2>1 DEF Owners
  <2> QED BY <2>5, <2>6 DEF SessionPart
<1>5. CASE \E c \in Clients, S \in (SUBSET Slots) \ {{}} : SetControllers(c, S)
  <2> PICK c \in Clients, S \in (SUBSET Slots) \ {{}} : SetControllers(c, S)
    BY <1>5
  <2>1. /\ call' = [call EXCEPT ![Datapath] = AutoCall(c, S)] /\ Ready(Datapath) /\ c \in sessions
        /\ UNCHANGED <<channels, assigned_client, sessions, job>>
    BY DEF SetControllers, Invoke, fields
  <2>2. /\ call'[Datapath].op = "assign" /\ call'[Datapath].client = c
        /\ call'[Loop] = call[Loop]
    BY <1>0, <2>1, AutoCallFields
  <2> QED BY <1>1, <2>1, <2>2, NoJobType, SessionIfBusy
<1>6. CASE Timeout
  <2> PICK S \in SUBSET sessions : Reap(S)
    BY <1>6 DEF Timeout
  <2> DEFINE n == [Job("reap", "unassign", None) EXCEPT !.rest = S]
  <2>1. n.kind = "reap" /\ n.at = "unassign" /\ n.rest = S
    BY DEF Job
  <2>2. job' = [job EXCEPT ![Datapath] = n] /\ Ready(Datapath) /\ sessions' = sessions \ S
        /\ UNCHANGED <<channels, assigned_client, call>>
    BY DEF Reap, Start, routerVars, fields
  <2> HIDE DEF n
  <2>3. job'[Datapath] = n /\ job'[Loop] = job[Loop]
    BY <1>0, <2>2
  <2>4. LoopPlain' /\ CallsOfHandler' /\ Emptied'
    BY <1>1, <2>1, <2>2, <2>3 DEF SessionInv, SessionPart, LoopPlain, CallsOfHandler, Emptied
  <2>5. Departing' = S
    BY <2>1, <2>3 DEF Departing
  <2>6. Owners'
    BY <1>1, <2>2, <2>5 DEF Owners
  <2> QED BY <2>4, <2>6 DEF SessionPart
<1> QED BY <1>2, <1>3, <1>4, <1>5, <1>6 DEF Packet

LEMMA SessionByDatapath == SessionInv /\ DatapathStep => SessionPart'
<1> SUFFICES ASSUME SessionInv, DatapathStep PROVE SessionPart'
  OBVIOUS
<1> USE ThreadsNamed
<1>0. /\ job \in [Threads -> JobSet] /\ call \in [Threads -> CallSet] /\ sessions \subseteq Clients
  BY DEF SessionInv, PathInv, PathTypeOK, TypeOK, CallSet
<1>1. CASE Resolve \/ CheckClient \/ CheckSlot \/ WriteReport
  <2>1. /\ job[Datapath].kind = "input" /\ call[Datapath].at = "idle"
        /\ UNCHANGED <<channels, assigned_client, sessions, call>>
    BY <1>1 DEF Resolve, CheckClient, CheckSlot, WriteReport, At, routerVars, fields
  <2>2. /\ job'[Loop] = job[Loop]
        /\ \/ job'[Datapath] = NoJob
           \/ job'[Datapath].kind = "input" /\ job'[Datapath].at # "idle"
    <3>1. CASE job' = [job EXCEPT ![Datapath] = NoJob]
      BY <1>0, <3>1
    <3>2. CASE \E at \in {"slot", "write"} : job' = [job EXCEPT ![Datapath].at = at]
      BY <1>0, <2>1, <3>2 DEF JobSet
    <3>3. CASE \E x : job' = [job EXCEPT ![Datapath].adapter = x, ![Datapath].at = "client"]
      BY <1>0, <2>1, <3>3 DEF JobSet
    <3> QED BY <1>1, <3>1, <3>2, <3>3
            DEF Resolve, CheckClient, CheckSlot, WriteReport, Finish, Advance
  <2>3. Departing = {}
    BY <2>1 DEF Departing
  <2> QED BY <2>1, <2>2, <2>3, NoJobType, SessionIfBusy
<1>2. CASE CreateSession
  <2> DEFINE c == job[Datapath].client
  <2>1. /\ job[Datapath].kind = "auth" /\ call[Datapath].at = "idle"
        /\ job' = [job EXCEPT ![Datapath] = NoJob] /\ sessions' = sessions \cup {c}
        /\ UNCHANGED <<channels, assigned_client>>
    BY <1>2 DEF CreateSession, At, Finish, Invoke, routerVars, fields
  <2>2. call' = call \/ call' = [call EXCEPT ![Datapath] = AutoCall(c, {Lowest(Slots)})]
    BY <1>2 DEF CreateSession, Invoke, routerVars
  <2>3. /\ call'[Loop] = call[Loop]
        /\ \/ call'[Datapath].at = "idle"
           \/ call'[Datapath].op = "assign" /\ call'[Datapath].client = c
    BY <1>0, <2>1, <2>2, AutoCallFields
  <2>4. job'[Datapath] = NoJob /\ job'[Loop] = job[Loop] /\ Departing = {}
    BY <1>0, <2>1 DEF Departing
  <2> QED BY <2>1, <2>3, <2>4, NoJobType, SessionIfBusy
<1>3. CASE DropDisconnected
  <2> DEFINE c == job[Datapath].client
  <2>1. /\ job[Datapath].kind = "disconnect" /\ job[Datapath].at = "drop" /\ call[Datapath].at = "idle"
        /\ job' = [job EXCEPT ![Datapath] = NoJob] /\ sessions' = sessions \ {c}
        /\ UNCHANGED <<channels, assigned_client, call>>
    BY <1>3 DEF DropDisconnected, ForgetSession, At, Finish, routerVars, fields
  <2>2. \A x \in channels : assigned_client[x] \in sessions \cup {None} /\ assigned_client[x] # c
    BY <2>1 DEF SessionInv, SessionPart, Owners, Departing, Emptied
  <2>3. job'[Datapath] = NoJob /\ job'[Loop] = job[Loop]
    BY <1>0, <2>1
  <2>4. LoopPlain' /\ CallsOfHandler' /\ Emptied'
    BY <2>1, <2>3, NoJobType DEF SessionInv, SessionPart, LoopPlain, CallsOfHandler, Emptied
  <2>5. Owners'
    BY <2>1, <2>2 DEF Owners
  <2> QED BY <2>4, <2>5 DEF SessionPart
<1>4. CASE \E c \in Clients : ReapUnassign(c)
  <2> PICK c \in Clients : ReapUnassign(c)
    BY <1>4
  <2> DEFINE m == Call("unassign_client", None, c, None, "lock")
  <2>1. /\ job[Datapath].kind = "reap" /\ job[Datapath].at = "unassign" /\ call[Datapath].at = "idle"
        /\ job' = [job EXCEPT ![Datapath].client = c, ![Datapath].at = "release"]
        /\ call' = [call EXCEPT ![Datapath] = m]
        /\ UNCHANGED <<channels, assigned_client, sessions>>
    BY DEF ReapUnassign, UnassignClientCall, Invoke, At, fields
  <2>2. m.op = "unassign_client" /\ m.client = c /\ m.at = "lock"
    BY CallFields
  <2> HIDE DEF m
  <2>3. /\ job'[Datapath].kind = "reap" /\ job'[Datapath].at = "release" /\ job'[Datapath].client = c
        /\ job'[Datapath].rest = job[Datapath].rest /\ job'[Loop] = job[Loop]
        /\ call'[Datapath] = m /\ call'[Loop] = call[Loop]
    BY <1>0, <2>1 DEF JobSet
  <2>4. LoopPlain' /\ CallsOfHandler' /\ Emptied'
    BY <2>2, <2>3 DEF SessionInv, SessionPart, LoopPlain, CallsOfHandler, Emptied
  <2>5. Departing = job[Datapath].rest /\ Departing' = job[Datapath].rest
    BY <2>1, <2>2, <2>3 DEF Departing
  <2>6. Owners'
    BY <2>1, <2>5 DEF Owners, SessionInv, SessionPart
  <2> QED BY <2>4, <2>6 DEF SessionPart
<1>5. CASE ReapRelease
  <2> DEFINE d == job[Datapath]
             rest == d.rest \ {d.client}
  <2>1. /\ d.kind = "reap" /\ d.at = "release" /\ call[Datapath].at = "idle"
        /\ UNCHANGED <<channels, assigned_client, sessions, call>>
    BY <1>5 DEF ReapRelease, At, routerVars, fields
  <2>2. Departing = rest
    BY <2>1 DEF Departing
  <2>3. CASE rest = {}
    <3>1. job' = [job EXCEPT ![Datapath] = NoJob]
      BY <1>5, <2>3 DEF ReapRelease, Finish
    <3>2. job'[Datapath] = NoJob /\ job'[Loop] = job[Loop]
      BY <1>0, <3>1
    <3> QED BY <2>1, <2>2, <2>3, <3>2, NoJobType, SessionIfBusy
  <2>4. CASE rest # {}
    <3>1. job' = [job EXCEPT ![Datapath].rest = rest, ![Datapath].at = "unassign"]
      BY <1>5, <2>4 DEF ReapRelease
    <3>2. /\ job'[Datapath].kind = "reap" /\ job'[Datapath].at = "unassign"
          /\ job'[Datapath].rest = rest /\ job'[Loop] = job[Loop]
      BY <1>0, <2>1, <3>1 DEF JobSet
    <3>3. LoopPlain' /\ CallsOfHandler' /\ Emptied'
      BY <2>1, <3>2 DEF SessionInv, SessionPart, LoopPlain, CallsOfHandler, Emptied
    <3>4. Departing' = rest
      BY <3>2 DEF Departing
    <3>5. Owners'
      BY <2>1, <2>2, <3>4 DEF Owners, SessionInv, SessionPart
    <3> QED BY <3>3, <3>5 DEF SessionPart
  <2> QED BY <2>3, <2>4
<1> QED BY <1>1, <1>2, <1>3, <1>4, <1>5 DEF DatapathStep

\* The operator's requests that are left: approving, taking an adapter away,
\* and dongles that are plugged in or pulled.
LEMMA SessionByRequest == OperatorLetsBe /\ SessionInv /\ (Request \/ LoopStep) => SessionPart'
<1> SUFFICES ASSUME OperatorLetsBe, SessionInv, Request \/ LoopStep PROVE SessionPart'
  OBVIOUS
<1> USE ThreadsNamed
<1>0. call \in [Threads -> CallSet]
  BY DEF SessionInv, PathInv, PathTypeOK, TypeOK, CallSet
<1>1. ~ LoopStep
  <2>1. job[Loop].kind = "none"
    BY NoJobType DEF SessionInv, SessionPart, LoopPlain
  <2> QED BY <2>1 DEF LoopStep, DropDenied, ForgetSession, DropOne, GateClosed, SetPassword,
                      ListSessions, NextSession, At
<1>2. CASE (\E c \in Clients : WebApprove(c)) \/ OpenGate
  BY <1>2, SessionAside DEF WebApprove, OpenGate, routerVars, fields
<1>3. CASE \E x \in Adapters : WebUnassign(x) \/ PlugIn(x) \/ Unplug(x)
  <2>1. PICK x \in Adapters, op \in {"add", "remove", "unassign"} :
          /\ call' = [call EXCEPT ![Loop] = Call(op, x, None, None, "lock")]
          /\ UNCHANGED <<channels, assigned_client, sessions, job>>
    BY <1>3 DEF WebUnassign, PlugIn, Unplug, Invoke, fields
  <2>2. call'[Loop].op \in {"add", "remove", "unassign"} /\ call'[Datapath] = call[Datapath]
    BY <1>0, <2>1, CallFields
  <2> QED BY <2>1, <2>2, SessionAside
<1>4. ~ \/ \E c \in Clients : WebDeny(c)
        \/ \E x \in Adapters, c \in Clients, s \in Slots : WebAssign(x, c, s)
        \/ CloseGate \/ WebPassword
  BY DEF OperatorLetsBe, WebDeny, WebAssign, CloseGate, WebPassword
<1> QED BY <1>1, <1>2, <1>3, <1>4 DEF Request

LEMMA SessionInRouter == SessionInv /\ (\E t \in Threads : InRouter(t)) => SessionPart'
<1> SUFFICES ASSUME SessionInv, NEW t \in Threads, InRouter(t) PROVE SessionPart'
  OBVIOUS
<1> USE ThreadsNamed
<1>0. IInv /\ RouterStep(t) /\ UNCHANGED <<sessions, job>> /\ t \in {Datapath, Loop}
  BY InputPathAssumption DEF SessionInv, PathInv, InRouter
<1>1. /\ GoesOn(t) /\ call[t].at # "idle"
      /\ \A u \in Threads \ {t} : call'[u] = call[u]
      /\ \A x \in channels' :
           \/ assigned_client'[x] = None
           \/ x \in channels /\ assigned_client'[x] = assigned_client[x]
           \/ call[t].op = "assign" /\ assigned_client'[x] = call[t].client
  BY <1>0, WhoseAdapter
<1>2. CASE t = Loop
  <2>1. call[Loop].op \in {"add", "remove", "unassign"} /\ call'[Datapath] = call[Datapath]
    BY <1>1, <1>2 DEF SessionInv, SessionPart, LoopPlain
  <2>2. \A x \in channels' : assigned_client'[x] = None
                             \/ (x \in channels /\ assigned_client'[x] = assigned_client[x])
    BY <1>1, <1>2, <2>1
  <2>3. LoopPlain' /\ CallsOfHandler' /\ Departing' = Departing
    BY <1>0, <1>1, <1>2, <2>1
       DEF SessionInv, SessionPart, LoopPlain, CallsOfHandler, Departing, GoesOn
  <2>4. Owners'
    BY <1>0, <2>2, <2>3 DEF Owners, SessionInv, SessionPart
  <2>5. Emptied'
    BY <1>0, <2>1, <2>2, RouterAssumption DEF Emptied, CallsOfHandler, SessionInv, SessionPart
  <2> QED BY <2>3, <2>4, <2>5 DEF SessionPart
<1>3. CASE t = Datapath /\ call[Datapath].op = "assign"
  <2>1. job[Datapath] = NoJob /\ call[Datapath].client \in sessions
    BY <1>1, <1>3 DEF SessionInv, SessionPart, CallsOfHandler
  <2>2. Departing = {} /\ Departing' = {}
    BY <1>0, <2>1, NoJobType DEF Departing
  <2>3. LoopPlain' /\ CallsOfHandler' /\ Emptied'
    BY <1>0, <1>1, <1>3, <2>1, NoJobType
       DEF SessionInv, SessionPart, LoopPlain, CallsOfHandler, Emptied, GoesOn
  <2>4. Owners'
    BY <1>0, <1>1, <1>3, <2>1, <2>2 DEF Owners, SessionInv, SessionPart
  <2> QED BY <2>3, <2>4 DEF SessionPart
<1>4. CASE t = Datapath /\ call[Datapath].op # "assign"
  <2> DEFINE d == job[Datapath]
             m == call[Datapath]
  <2>1. /\ m.op = "unassign_client" /\ m.at \in {"lock", "rebuild"} /\ m.client = d.client
        /\ \/ d.kind = "disconnect" /\ d.at = "drop"
           \/ d.kind = "reap" /\ d.at = "release"
    BY <1>1, <1>4 DEF SessionInv, SessionPart, CallsOfHandler
  <2>2. /\ m.at = "lock" => /\ call'[Datapath].at \in {"rebuild", "idle"}
                            /\ \A x \in channels' : assigned_client'[x] # d.client
        /\ m.at = "rebuild" => call'[Datapath].at = "idle" /\ UNCHANGED <<channels, assigned_client>>
    BY <1>0, <1>4, <2>1, ClientEmptied
  <2>3. /\ call'[Loop] = call[Loop] /\ call'[Datapath].at \in {"rebuild", "idle"}
        /\ \A x \in channels' : \/ assigned_client'[x] = None
                                \/ x \in channels /\ assigned_client'[x] = assigned_client[x]
    BY <1>1, <1>4, <2>1, <2>2
  <2>4. \A x \in channels' : assigned_client'[x] # d.client
    BY <2>1, <2>2 DEF Emptied, SessionInv, SessionPart
  <2>5. LoopPlain'
    BY <1>0, <2>3 DEF LoopPlain, SessionInv, SessionPart
  <2>6. CallsOfHandler'
    BY <1>0, <1>1, <1>4, <2>1, <2>3 DEF CallsOfHandler, SessionInv, SessionPart, GoesOn
  <2>7. Emptied'
    BY <1>0, <2>4 DEF Emptied
  <2>8. Departing \subseteq Departing' \cup {d.client}
    BY <1>0, <2>1, <2>3 DEF Departing
  <2>9. Owners'
    BY <1>0, <2>3, <2>4, <2>8 DEF Owners, SessionInv, SessionPart
  <2> QED BY <2>5, <2>6, <2>7, <2>9 DEF SessionPart
<1> QED BY <1>0, <1>2, <1>3, <1>4

LEMMA SessionInitially == PathInit => SessionInv
<1> SUFFICES ASSUME PathInit PROVE SessionInv
  OBVIOUS
<1> USE ThreadsNamed
<1>1. /\ job[Loop] = NoJob /\ job[Datapath] = NoJob /\ channels = {}
      /\ call[Loop].at = "idle" /\ call[Datapath].at = "idle"
  BY NoCallIdle DEF PathInit, Init
<1>2. SessionPart
  BY <1>1, NoJobType DEF SessionPart, LoopPlain, CallsOfHandler, Owners, Emptied
<1> QED BY <1>2, PathInitially DEF SessionInv

LEMMA SessionStep == OperatorLetsBe /\ SessionInv /\ [PathNext]_vars => SessionInv'
<1> SUFFICES ASSUME OperatorLetsBe, SessionInv, [PathNext]_vars PROVE SessionInv'
  OBVIOUS
<1>1. PathInv'
  BY PathStep DEF SessionInv
<1>2. SessionPart'
  <2>1. CASE UNCHANGED vars \/ Consoles
    BY <2>1, SessionAside DEF vars, Consoles, ConsoleConnects, ConsoleGone, routerVars, fields
  <2> QED BY <2>1, SessionByPacket, SessionByDatapath, SessionByRequest, SessionInRouter DEF PathNext
<1> QED BY <1>1, <1>2 DEF SessionInv

\* As long as the operator neither assigns adapters nor ends sessions, no
\* adapter is left with a client that has no session, once the datapath is
\* done with the packet or the maintenance in hand.
THEOREM NoneDangling == ASSUME OperatorLetsBe PROVE PathSpec => []NoDanglingAssignment
<1>1. SessionInv => NoDanglingAssignment
  <2> SUFFICES ASSUME SessionInv, Ready(Datapath)
               PROVE  \A x \in channels : assigned_client[x] \in sessions \cup {None}
    BY DEF NoDanglingAssignment, Idle
  <2>1. job[Datapath].kind = "none"
    BY NoJobType DEF Ready, SessionInv, SessionPart, CallsOfHandler
  <2> QED BY <2>1 DEF SessionInv, SessionPart, Owners, Departing
<1>2. SessionInv /\ [PathNext]_vars => SessionInv'
  BY SessionStep
<1> QED BY <1>1, <1>2, SessionInitially, PTL DEF PathSpec
=============================================================================
