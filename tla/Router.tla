------------------------------- MODULE Router -------------------------------
(***************************************************************************)
(* server/router.py: which client's controller drives which adapter.       *)
(* Every method that writes takes Router._lock; Router.resolve and the     *)
(* fields of an OutputChannel are read by the datapath without it, so what *)
(* a method writes is visible one field at a time.  A call of thread t is  *)
(* a record call[t] whose "at" is the next step of the method:             *)
(*                                                                         *)
(*   idle      no call                                                     *)
(*   resolve   auto_assign, about to look whether the slot has a channel   *)
(*   free      auto_assign, about to pick a free channel                   *)
(*   lock      waiting for Router._lock                                    *)
(*   client    assign, about to set channel.assigned_client                *)
(*   slot      assign, about to set channel.assigned_slot                  *)
(*   rebuild   about to swap in the new _routes and release the lock       *)
(***************************************************************************)
EXTENDS Integers, FiniteSets

CONSTANTS Adapters,    \* BD_ADDRs
          Clients,     \* client ids
          Slots,       \* controller slots of a client
          Threads,     \* the datapath thread and the asyncio thread
          MaxOutputs,  \* MAX_OUTPUTS: 4 in the code
          None

ASSUME RouterAssumption ==
    /\ None \notin Adapters \cup Clients \cup Slots \cup Threads
    /\ IsFiniteSet(Adapters)
    /\ MaxOutputs \in Nat
    /\ Slots \subseteq Nat
    /\ \A S \in SUBSET Slots : S # {} => \E s \in S : \A r \in S : s <= r

VARIABLES channels,        \* the registered adapters
          assigned_client,  \* OutputChannel.assigned_client of each adapter
          assigned_slot,    \* OutputChannel.assigned_slot of each adapter
          routes,          \* (client, slot) -> adapter or None
          lock,            \* the thread holding Router._lock, or None
          call              \* the router call each thread is in

fields == <<assigned_client, assigned_slot>>
routerVars == <<channels, assigned_client, assigned_slot, routes, lock, call>>

Keys == Clients \X Slots
Ops == {"add", "remove", "assign", "unassign", "unassign_client"}
Steps == {"idle", "resolve", "free", "lock", "client", "slot", "rebuild"}

\* A call: its operation and arguments, the slots auto_assign has yet to place.
Call(op, x, c, s, at) ==
    [op |-> op, adapter |-> x, client |-> c, slot |-> s, todo |-> {}, at |-> at]
NoCall == Call("none", None, None, None, "idle")

Lowest(S) == CHOOSE s \in S : \A r \in S : s <= r

AutoCall(c, S) == [Call("assign", None, c, Lowest(S), "resolve")
                     EXCEPT !.todo = S \ {Lowest(S)}]

Init == /\ channels = {}
        /\ assigned_client = [x \in Adapters |-> None]
        /\ assigned_slot = [x \in Adapters |-> None]
        /\ routes = [k \in Keys |-> None]
        /\ lock = None
        /\ call = [t \in Threads |-> NoCall]

Owner(x) == <<assigned_client[x], assigned_slot[x]>>
is_assigned(x) == assigned_client[x] # None /\ assigned_slot[x] # None

-----------------------------------------------------------------------------
(* Entering and leaving a method.                                          *)

Invoke(t, c) == /\ call[t].at = "idle"
                /\ call' = [call EXCEPT ![t] = c]
                /\ UNCHANGED <<channels, fields, routes, lock>>

\* The next slot of auto_assign, or the end of the call.
After(c) == IF c.todo = {} THEN NoCall ELSE AutoCall(c.client, c.todo)

Goto(t, at) == call' = [call EXCEPT ![t].at = at]
Return(t) == call' = [call EXCEPT ![t] = After(@)]

Acquire(t, op) == /\ call[t].at = "lock" /\ call[t].op = op
                  /\ lock = None

\* The method found nothing to do: the lock is taken and given back.
NothingToDo(t) == Return(t) /\ UNCHANGED <<channels, fields, routes, lock>>

-----------------------------------------------------------------------------
(* auto_assign: each test and the assignment are separate lock-free steps. *)

AutoResolve(t) ==
    /\ call[t].at = "resolve"
    /\ IF routes[<<call[t].client, call[t].slot>>] # None
       THEN Return(t)
       ELSE Goto(t, "free")
    /\ UNCHANGED <<channels, fields, routes, lock>>

\* Which of the free channels is picked depends on which is live: any of them.
Free == {x \in channels : ~ is_assigned(x)}

AutoPick(t) ==
    /\ call[t].at = "free"
    /\ IF Free = {}
       THEN call' = [call EXCEPT ![t] = NoCall]
       ELSE \E x \in Free :
              call' = [call EXCEPT ![t].adapter = x, ![t].at = "lock"]
    /\ UNCHANGED <<channels, fields, routes, lock>>

-----------------------------------------------------------------------------
(* The methods that hold the lock.                                         *)

AddChannel(t) ==
    LET x == call[t].adapter
    IN  /\ Acquire(t, "add")
        /\ IF Cardinality(channels) >= MaxOutputs /\ x \notin channels
           THEN NothingToDo(t)                           \* ValueError
           ELSE /\ channels' = channels \cup {x}
                /\ assigned_client' = [assigned_client EXCEPT ![x] = None]
                /\ assigned_slot' = [assigned_slot EXCEPT ![x] = None]
                /\ lock' = t
                /\ Goto(t, "rebuild")
                /\ UNCHANGED routes

RemoveChannel(t) ==
    LET x == call[t].adapter
    IN  /\ Acquire(t, "remove")
        /\ IF x \notin channels
           THEN NothingToDo(t)
           ELSE /\ channels' = channels \ {x}
                /\ lock' = t
                /\ Goto(t, "rebuild")
                /\ UNCHANGED <<fields, routes>>

\* Mutants: assign forgets the conflicting channels; unassign_client does not
\* rebuild the table; the table is updated in place.
NoneConflicting(x, k) == {}

\* The channels assign empties first: any other that drives this controller.
Conflicting(x, k) == {y \in channels : y # x /\ Owner(y) = k}

Clear(S) ==
    /\ assigned_client' = [y \in Adapters |-> IF y \in S THEN None ELSE assigned_client[y]]
    /\ assigned_slot' = [y \in Adapters |-> IF y \in S THEN None ELSE assigned_slot[y]]

AssignBegin(t) ==
    LET x == call[t].adapter
    IN  /\ Acquire(t, "assign")
        /\ IF x \notin channels
           THEN NothingToDo(t)
           ELSE /\ Clear(Conflicting(x, <<call[t].client, call[t].slot>>))
                /\ lock' = t
                /\ Goto(t, "client")
                /\ UNCHANGED <<channels, routes>>

AssignClient(t) ==
    /\ call[t].at = "client"
    /\ assigned_client' = [assigned_client EXCEPT ![call[t].adapter] = call[t].client]
    /\ Goto(t, "slot")
    /\ UNCHANGED <<channels, assigned_slot, routes, lock>>

AssignSlot(t) ==
    /\ call[t].at = "slot"
    /\ assigned_slot' = [assigned_slot EXCEPT ![call[t].adapter] = call[t].slot]
    /\ Goto(t, "rebuild")
    /\ UNCHANGED <<channels, assigned_client, routes, lock>>

Unassign(t) ==
    /\ Acquire(t, "unassign")
    /\ IF call[t].adapter \notin channels
       THEN NothingToDo(t)
       ELSE /\ Clear({call[t].adapter})
            /\ lock' = t
            /\ Goto(t, "rebuild")
            /\ UNCHANGED <<channels, routes>>

Driven(c) == {y \in channels : assigned_client[y] = c}

UnassignClientUnpublished(t) ==
    /\ Acquire(t, "unassign_client")
    /\ Clear(Driven(call[t].client))
    /\ Return(t)
    /\ UNCHANGED <<channels, routes, lock>>

UnassignClient(t) ==
    /\ Acquire(t, "unassign_client")
    /\ IF Driven(call[t].client) = {}
       THEN NothingToDo(t)
       ELSE /\ Clear(Driven(call[t].client))
            /\ lock' = t
            /\ Goto(t, "rebuild")
            /\ UNCHANGED <<channels, routes>>

\* _rebuild_routes_locked: the table the fields describe.
Rebuilt == [k \in Keys |->
              IF \E x \in channels : Owner(x) = k
              THEN CHOOSE x \in channels : Owner(x) = k
              ELSE None]

Rebuild(t) ==
    /\ call[t].at = "rebuild"
    /\ routes' = Rebuilt
    /\ lock' = None
    /\ Return(t)
    /\ UNCHANGED <<channels, fields>>

RouterStep(t) == \/ AutoResolve(t) \/ AutoPick(t)
                 \/ AddChannel(t) \/ RemoveChannel(t)
                 \/ AssignBegin(t) \/ AssignClient(t) \/ AssignSlot(t)
                 \/ Unassign(t) \/ UnassignClient(t)
                 \/ Rebuild(t)

-----------------------------------------------------------------------------
(* The router on its own: any thread may make any call at any time.        *)

Calls ==
    {Call("assign", x, c, s, "lock") : x \in Adapters, c \in Clients, s \in Slots}
    \cup {Call(op, x, None, None, "lock") : op \in {"add", "remove", "unassign"}, x \in Adapters}
    \cup {Call("unassign_client", None, c, None, "lock") : c \in Clients}
    \cup {AutoCall(c, S) : c \in Clients, S \in (SUBSET Slots) \ {{}}}

AnyCall(t) == \E c \in Calls : Invoke(t, c)

Next == \E t \in Threads : AnyCall(t) \/ RouterStep(t)

Spec == Init /\ [][Next]_routerVars

-----------------------------------------------------------------------------
TypeOK ==
    /\ channels \subseteq Adapters
    /\ assigned_client \in [Adapters -> Clients \cup {None}]
    /\ assigned_slot \in [Adapters -> Slots \cup {None}]
    /\ routes \in [Keys -> Adapters \cup {None}]
    /\ lock \in Threads \cup {None}
    /\ call \in [Threads -> [op : Ops \cup {"none"}, adapter : Adapters \cup {None},
                             client : Clients \cup {None}, slot : Slots \cup {None},
                             todo : SUBSET Slots, at : Steps]]

\* The server never drives more controllers than a console accepts.
Ceiling == Cardinality(channels) <= MaxOutputs

\* The lookup table and the fields of the channels say the same whenever no
\* method is half way through: the datapath compares the two on every packet.
RoutesAgree ==
    lock = None =>
        \A k \in Keys, x \in Adapters :
            routes[k] = x <=> x \in channels /\ Owner(x) = k

\* Readers without the lock find an adapter under one controller at most, also
\* while assign, remove_channel or unassign_client is half way through.
Table == INSTANCE AdapterTable WITH table <- routes
TableOneToOne == Table!OneToOne

\* The dictionaries, fields and lock implement the table that changes in whole
\* steps: what a lock-free reader sees is before a call or after it.
ImplementsAdapterTable == Table!Spec
=============================================================================
