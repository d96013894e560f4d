--------------------------- MODULE AdapterManager ---------------------------
(***************************************************************************)
(* server/bt/adapter.py with server/bt/state.py, for the Classic transport:*)
(* which dongles carry a controller.  Two kinds of asyncio task work on    *)
(* the same adapters: the hot-plug watcher, which rescans, and the web     *)
(* requests.  Both run _reconcile_channels under _reconcile_lock; rescan's *)
(* own part, set_pairable and disconnect_host run outside it.  A task is   *)
(* interrupted only where the code awaits, so an action is what it does    *)
(* from one await to the next; a call made in the await (BlueZ, a worker   *)
(* thread) takes effect in the action that follows it.                     *)
(*                                                                         *)
(* The world outside, marked external: dongles are plugged and unplugged,  *)
(* a console brings its link up and drops it.  A change of the link is     *)
(* reported twice, by the kernel's management socket (_note_link, on the   *)
(* loop) and by the HID server's thread (_on_host_connected,               *)
(* _on_host_gone); either report may be late.                              *)
(***************************************************************************)
EXTENDS Integers, Sequences, FiniteSets

CONSTANTS Adapters,     \* BD_ADDRs
          Watcher,      \* the task of _watch_via_mgmt
          Requests,     \* tasks of web requests
          MaxOutputs,   \* MAX_OUTPUTS: 4 in the code
          WebOps,       \* what the operator does in this instance
          MaxEvents,    \* bound: plugs, links, failures and requests of a run
          None

ASSUME AdapterManagerAssumption ==
    /\ None \notin Adapters \cup Requests \cup {Watcher}
    /\ Watcher \notin Requests
    /\ IsFiniteSet(Adapters)
    /\ MaxOutputs \in Nat
    /\ WebOps \subseteq {"enable", "disable", "pair", "unpair", "disconnect", "rescan",
                    "profile", "wake", "sleep all", "reset all"}
    /\ MaxEvents \in Nat

Tasks == Requests \cup {Watcher}
Phases == {"detected", "configuring", "listening", "pairing", "linked",
           "degraded", "quiet"}

VARIABLES
    plugged,   \* external: the index of a dongle that is in, 0 for one that is not
    linked,    \* external: dongles with a console on the air
    reports,   \* external: the changes of the link not yet heard, per listener
    registry,  \* adapters that have an AdapterState
    state,     \* the AdapterState of each (the last one, if it has none now)
    saved,     \* ServerConfig.adapter: the persisted choice, or None
    channel,   \* the router's channel: none, null (a NullSink) or real
    servers,   \* the keys of _hid_servers
    bound,     \* adapters whose PSMs a HID server of ours is bound to
    connectable,  \* adapters whose radio answers pages
    lock,      \* _reconcile_lock: its task, or None
    task,      \* where each task is
    spent      \* how much of MaxEvents is used

world == <<plugged, linked, reports>>
stack == <<channel, servers, bound>>
vars == <<world, registry, state, saved, stack, connectable, lock, task, spent>>

\* AdapterState.__init__: enabled until a saved choice says otherwise.
Fresh == [enabled |-> TRUE, index |-> 0, phase |-> "detected", window |-> "none",
          peer |-> FALSE, configured |-> FALSE, quieted |-> FALSE, error |-> FALSE]

\* What a task is doing: the step it is at, the adapter in hand, those still to
\* visit, those the pass chose, what it read (adapters found, links seen, the
\* size of the dictionary it iterates), the objects it holds that are dropped.
Idle == [at |-> "idle", job |-> "none", adapter |-> None, todo |-> {}, chosen |-> {},
         found |-> [x \in Adapters |-> 0], seen |-> {}, size |-> 0, gone |-> {}]

Init ==
    /\ plugged = [x \in Adapters |-> 0]
    /\ linked = {} /\ reports = [x \in Adapters |-> [mgmt |-> <<>>, hid |-> <<>>]]
    /\ registry = {} /\ state = [x \in Adapters |-> Fresh]
    /\ saved = [x \in Adapters |-> None]
    /\ channel = [x \in Adapters |-> "none"] /\ servers = {} /\ bound = {}
    /\ connectable = {}
    /\ lock = None /\ task = [t \in Tasks |-> Idle]
    /\ spent = 0

Present == {x \in Adapters : plugged[x] # 0}
Channels == {x \in Adapters : channel[x] # "none"}
At(t, at) == task[t].at = at
Goto(t, at) == task' = [task EXCEPT ![t].at = at]
Spend == spent < MaxEvents /\ spent' = spent + 1

\* AdapterState.to, for every phase it is asked to leave.
Moved(s, phase) == [s EXCEPT !.phase = phase]

\* AdapterState.clear_pairing and arm_pairing.
Cleared(s) == [s EXCEPT !.window = "none",
                        !.phase = IF @ = "pairing" THEN "listening" ELSE @]
Armed(s) == [s EXCEPT !.window = "open", !.phase = "pairing"]

\* A task writes to the object it holds: nothing of it is kept once the
\* registry has dropped that object.
Write(t, x, s) == IF x \in task[t].gone \/ x \notin registry
                  THEN UNCHANGED state
                  ELSE state' = [state EXCEPT ![x] = s]

\* AdapterConfig entries: a number, once given, is kept (upsert_adapter).
Upsert(x, enabled, host) ==
    saved' = [saved EXCEPT ![x] =
                [enabled |-> enabled, host |-> host,
                 numbered |-> @ # None /\ @.numbered]]
Host(x) == saved[x] # None /\ saved[x].host

-----------------------------------------------------------------------------
(* The world.                                                              *)

Plug(x) ==
    /\ plugged[x] = 0
    /\ plugged' = [plugged EXCEPT ![x] =
         CHOOSE i \in 1..Cardinality(Adapters) :
            /\ \A y \in Adapters : plugged[y] # i
            /\ \A j \in 1..(i - 1) : \E y \in Adapters : plugged[y] = j]
    /\ connectable' = connectable \ {x}
    /\ Spend
    /\ UNCHANGED <<linked, reports, registry, state, saved, stack, lock, task>>

\* Both listeners hear of a change in the order it happened; an unplugged
\* dongle's kernel events go with it.
Tell(x, up) == [mgmt |-> Append(reports[x].mgmt, up), hid |-> Append(reports[x].hid, up)]

Unplug(x) ==
    /\ x \in Present
    /\ plugged' = [plugged EXCEPT ![x] = 0]
    /\ linked' = linked \ {x}
    /\ reports' = [reports EXCEPT ![x] =
         [mgmt |-> <<>>, hid |-> IF x \in linked THEN Append(@.hid, FALSE) ELSE @.hid]]
    /\ connectable' = connectable \ {x}
    /\ Spend
    /\ UNCHANGED <<registry, state, saved, stack, lock, task>>

LinkUp(x) ==
    /\ x \in (Present \cap connectable \cap bound) \ linked
    /\ linked' = linked \cup {x}
    /\ reports' = [reports EXCEPT ![x] = Tell(x, TRUE)]
    /\ Spend
    /\ UNCHANGED <<plugged, registry, state, saved, stack, connectable, lock, task>>

LinkDown(x) ==
    /\ x \in linked
    /\ linked' = linked \ {x}
    /\ reports' = [reports EXCEPT ![x] = Tell(x, FALSE)]
    /\ Spend
    /\ UNCHANGED <<plugged, registry, state, saved, stack, connectable, lock, task>>

-----------------------------------------------------------------------------
(* Hearing of the link.                                                    *)

\* _note_link.
Noted(s, up) ==
    IF up THEN Moved([Cleared(s) EXCEPT !.peer = TRUE], "linked")
    ELSE [s EXCEPT !.peer = FALSE, !.phase = IF @ = "linked" THEN "listening" ELSE @]

\* The adapter is looked up by the index its state had at the last rescan.
NoteLink(x) ==
    LET queue == reports[x].mgmt
        named == {y \in registry : state[y].index = plugged[x]}
    IN  /\ queue # <<>>
        /\ reports' = [reports EXCEPT ![x].mgmt = Tail(@)]
        /\ IF named = {} THEN UNCHANGED state
           ELSE \E y \in named : state' = [state EXCEPT ![y] = Noted(@, Head(queue))]
        /\ UNCHANGED <<plugged, linked, registry, saved, stack, connectable, lock, task, spent>>

\* _remember_host, then _on_host_connected, on the HID server's thread.
OnHostConnected(x) ==
    /\ reports[x].hid # <<>> /\ Head(reports[x].hid)
    /\ reports' = [reports EXCEPT ![x].hid = Tail(@)]
    /\ IF Host(x) THEN UNCHANGED saved ELSE Upsert(x, TRUE, TRUE)
    /\ state' = IF x \in registry
                THEN [state EXCEPT ![x] =
                        [Moved(@, "linked") EXCEPT !.window = "none", !.peer = TRUE]]
                ELSE state
    /\ UNCHANGED <<plugged, linked, registry, stack, connectable, lock, task, spent>>

OnHostGone(x) ==
    /\ reports[x].hid # <<>> /\ ~ Head(reports[x].hid)
    /\ reports' = [reports EXCEPT ![x].hid = Tail(@)]
    /\ state' = IF x \in registry THEN [state EXCEPT ![x] = Noted(@, FALSE)] ELSE state
    /\ UNCHANGED <<plugged, linked, registry, saved, stack, connectable, lock, task, spent>>

\* The deadline of a pairing window passes; a window is minutes, and outlasts the
\* request that opens it.
WindowEnds(x) ==
    /\ state[x].window = "open"
    /\ ~ \E t \in Requests : task[t].at = "offer" /\ task[t].adapter = x
    /\ state' = [state EXCEPT ![x].window = "over"]
    /\ UNCHANGED <<world, registry, saved, stack, connectable, lock, task, spent>>

-----------------------------------------------------------------------------
(* rescan, up to the lock.                                                 *)

\* The watcher wakes up, or the operator presses "Rescan": _enumerate.  It may fail,
\* and then returns an empty list.
Enumerate(t) ==
    /\ At(t, "idle")
    /\ t = Watcher \/ "rescan" \in WebOps
    /\ \E found \in {plugged, Idle.found} :
         /\ IF t = Watcher /\ found = plugged THEN UNCHANGED spent ELSE Spend
         /\ task' = [task EXCEPT ![t] = [Idle EXCEPT !.at = "sync", !.job = "rescan",
                                                    !.found = found]]
    /\ UNCHANGED <<world, registry, state, saved, stack, connectable, lock>>

\* sorted(..., key=hci_name)[:MAX_OUTPUTS]
First(S, index) ==
    CHOOSE C \in SUBSET S :
        /\ Cardinality(C) = IF Cardinality(S) < MaxOutputs THEN Cardinality(S) ELSE MaxOutputs
        /\ \A x \in C, y \in S \ C : index[x] <= index[y]

\* Mutant: the HID server of a dongle that is gone is stopped at once, outside
\* the lock.
SyncStops(t) ==
    LET found == task[t].found
        present == {x \in Adapters : found[x] # 0}
        removed == registry \ present
        kept(x) == IF x \in registry THEN state[x] ELSE Fresh
        enabled(x) == IF saved[x] # None THEN saved[x].enabled
                      ELSE IF \A y \in Adapters : saved[y] = None
                      THEN x \in First(present, found)
                      ELSE kept(x).enabled
    IN  /\ At(t, "sync")
        /\ registry' = present
        /\ state' = [x \in Adapters |->
              IF x \in present
              THEN [kept(x) EXCEPT !.index = found[x], !.enabled = enabled(x)]
              ELSE state[x]]
        /\ channel' = [x \in Adapters |-> IF x \in removed THEN "none" ELSE channel[x]]
        /\ task' = [u \in Tasks |->
              IF u = t THEN [task[t] EXCEPT !.at = "lock"]
              ELSE [task[u] EXCEPT !.gone = IF task[u].at = "idle" THEN {} ELSE @ \cup removed]]
        /\ servers' = servers \ removed /\ bound' = bound \ removed
        /\ UNCHANGED <<world, saved, connectable, lock, spent>>

\* AdapterRegistry.sync, the channels of what it dropped, the saved choices, and
\* the choice of a fresh install: the lowest index, where the code takes the first in
\* its registry: they differ only if dongles come and go before any of them is saved.
Sync(t) ==
    LET found == task[t].found
        present == {x \in Adapters : found[x] # 0}
        removed == registry \ present
        kept(x) == IF x \in registry THEN state[x] ELSE Fresh
        enabled(x) == IF saved[x] # None THEN saved[x].enabled
                      ELSE IF \A y \in Adapters : saved[y] = None
                      THEN x \in First(present, found)
                      ELSE kept(x).enabled
    IN  /\ At(t, "sync")
        /\ registry' = present
        /\ state' = [x \in Adapters |->
              IF x \in present
              THEN [kept(x) EXCEPT !.index = found[x], !.enabled = enabled(x)]
              ELSE state[x]]
        /\ channel' = [x \in Adapters |-> IF x \in removed THEN "none" ELSE channel[x]]
        /\ task' = [u \in Tasks |->
              IF u = t THEN [task[t] EXCEPT !.at = "lock"]
              ELSE [task[u] EXCEPT !.gone = IF task[u].at = "idle" THEN {} ELSE @ \cup removed]]
        /\ UNCHANGED <<world, saved, servers, bound, connectable, lock, spent>>

-----------------------------------------------------------------------------
(* _reconcile_channels: a pass, under the lock.                            *)

\* Mutant: the ceiling is forgotten.
ChosenAll == {x \in registry : state[x].enabled}

Chosen == First({x \in registry : state[x].enabled}, [x \in Adapters |-> state[x].index])

\* Mutant: the passes are not serialised.
BeginAnyTime(t) ==
    /\ At(t, "lock")
    /\ lock' = t
    /\ task' = [task EXCEPT ![t].at = "drop", ![t].chosen = Chosen, ![t].gone = {},
                            ![t].todo = Channels \ Chosen]
    /\ UNCHANGED <<world, registry, state, saved, stack, connectable, spent>>

Begin(t) ==
    /\ At(t, "lock") /\ lock = None
    /\ lock' = t
    /\ task' = [task EXCEPT ![t].at = "drop", ![t].chosen = Chosen, ![t].gone = {},
                            ![t].todo = Channels \ Chosen]
    /\ UNCHANGED <<world, registry, state, saved, stack, connectable, spent>>

\* _stop_hid and remove_channel of each channel the pass did not choose: the
\* server's entry goes first, then its thread is stopped.
Drop(t) ==
    /\ At(t, "drop")
    /\ \E x \in task[t].todo :
         IF x \in servers
         THEN /\ servers' = servers \ {x}
              /\ task' = [task EXCEPT ![t].at = "stop", ![t].adapter = x]
              /\ UNCHANGED <<channel, bound>>
         ELSE /\ channel' = [channel EXCEPT ![x] = "none"]
              /\ task' = [task EXCEPT ![t].todo = @ \ {x}]
              /\ UNCHANGED <<servers, bound>>
    /\ UNCHANGED <<world, registry, state, saved, connectable, lock, spent>>

\* The link of x, if it has one, comes down.
Unlink(x) == /\ linked' = linked \ {x}
             /\ reports' = IF x \in linked THEN [reports EXCEPT ![x] = Tell(x, FALSE)]
                           ELSE reports
             /\ UNCHANGED plugged

Stopped(t) ==
    LET x == task[t].adapter
    IN  /\ At(t, "stop")
        /\ bound' = bound \ {x}
        /\ Unlink(x)
        /\ channel' = [channel EXCEPT ![x] = "none"]
        /\ task' = [task EXCEPT ![t].at = "drop", ![t].todo = @ \ {x}]
        /\ UNCHANGED <<registry, state, saved, servers, connectable, lock, spent>>

Dropped(t) ==
    /\ At(t, "drop") /\ task[t].todo = {}
    /\ task' = [task EXCEPT ![t].at = "quiet", ![t].todo = registry \ task[t].chosen,
                            ![t].size = Cardinality(registry)]
    /\ UNCHANGED <<world, registry, state, saved, stack, connectable, lock, spent>>

\* The dictionary is iterated while it changes: RuntimeError ends the pass, and
\* with it the request or the watcher.
Iterating(t) == Cardinality(registry) = task[t].size

Abort(t) ==
    /\ At(t, "quiet") /\ ~ Iterating(t)
    /\ lock' = None
    /\ task' = [task EXCEPT ![t] = [Idle EXCEPT !.at = IF t = Watcher THEN "dead" ELSE "idle"]]
    /\ UNCHANGED <<world, registry, state, saved, stack, connectable, spent>>

\* The other adapters: silenced once, and only if this server configured them.
Quiet(t) ==
    /\ At(t, "quiet") /\ Iterating(t)
    /\ \E x \in task[t].todo :
         LET ours == state[x].configured \/ (saved[x] # None /\ saved[x].numbered)
         IN  IF x \in registry /\ ~ state[x].quieted /\ ours
             THEN /\ state' = [state EXCEPT ![x].configured = TRUE]
                  /\ task' = [task EXCEPT ![t].at = "silence", ![t].adapter = x]
             ELSE /\ task' = [task EXCEPT ![t].todo = @ \ {x}]
                  /\ UNCHANGED state
    /\ UNCHANGED <<world, registry, saved, stack, connectable, lock, spent>>

\* FlagSet.add creates the object it flags when the registry has none.
Flagged(s, x, configured, quieted) ==
    [(IF x \in registry THEN s ELSE Fresh)
       EXCEPT !.configured = configured, !.quieted = quieted]

Silence(t) ==
    LET x == task[t].adapter
        held == x \in registry \ task[t].gone
        silenced == IF held THEN [Moved(state[x], "quiet") EXCEPT !.window = "none",
                                                                 !.peer = FALSE]
                    ELSE state[x]
    IN  /\ At(t, "silence")
        /\ connectable' = connectable \ {x}
        /\ state' = [state EXCEPT ![x] = Flagged(silenced, x, FALSE, TRUE)]
        /\ registry' = registry \cup {x}
        /\ task' = [task EXCEPT ![t].at = "quiet", ![t].todo = @ \ {x}]
        /\ UNCHANGED <<world, saved, stack, lock, spent>>

\* _ensure_connectable, for all the chosen adapters in one step.
EnsureConnectable(t) ==
    /\ At(t, "quiet") /\ Iterating(t) /\ task[t].todo = {}
    /\ connectable' = connectable \cup
         {x \in (task[t].chosen \ task[t].gone) \cap Present :
             ~ state[x].error /\ state[x].phase # "pairing"}
    /\ task' = [task EXCEPT ![t].at = "each", ![t].todo = task[t].chosen]
    /\ UNCHANGED <<world, registry, state, saved, stack, lock, spent>>

\* One adapter of the pass is done with.
NextAdapter(t) == task' = [task EXCEPT ![t].at = "each", ![t].todo = @ \ {task[t].adapter}]

\* Mutant: an adapter that failed is not tried again.
ConfigureOnce(t) ==
    /\ At(t, "each")
    /\ \E x \in task[t].todo :
         IF channel[x] # "none" \/ state[x].error
         THEN task' = [task EXCEPT ![t].todo = @ \ {x}] /\ UNCHANGED state
         ELSE /\ Write(t, x, Moved(state[x], "configuring"))
              /\ task' = [task EXCEPT ![t].at = "bring up", ![t].adapter = x]
    /\ UNCHANGED <<world, registry, saved, stack, connectable, lock, spent>>

Configure(t) ==
    /\ At(t, "each")
    /\ \E x \in task[t].todo :
         IF channel[x] # "none"
         THEN task' = [task EXCEPT ![t].todo = @ \ {x}] /\ UNCHANGED state
         ELSE /\ Write(t, x, Moved(state[x], "configuring"))
              /\ task' = [task EXCEPT ![t].at = "bring up", ![t].adapter = x]
    /\ UNCHANGED <<world, registry, saved, stack, connectable, lock, spent>>

BringUpFails(t) ==
    LET x == task[t].adapter
    IN  /\ At(t, "bring up")
        /\ IF x \in Present THEN Spend
           ELSE UNCHANGED spent
        /\ Write(t, x, [Moved(state[x], "degraded") EXCEPT !.error = TRUE])
        /\ NextAdapter(t)
        /\ UNCHANGED <<world, registry, saved, stack, connectable, lock>>

\* The adapter is up; _assign_number, which also persists "enabled".
BringUp(t) ==
    LET x == task[t].adapter
    IN  /\ At(t, "bring up") /\ x \in Present
        /\ saved' = IF saved[x] # None /\ saved[x].numbered THEN saved
                    ELSE [saved EXCEPT ![x] =
                            [enabled |-> TRUE, host |-> Host(x), numbered |-> TRUE]]
        /\ Goto(t, "name")
        /\ UNCHANGED <<world, registry, state, stack, connectable, lock, spent>>

\* The radio has its name and answers pages.  An adapter that _hid_servers
\* already knows gets no new server: its channel is added without a sink.
Name(t) ==
    LET x == task[t].adapter
        flagged == Flagged(state[x], x, TRUE, FALSE)
        held == x \in registry \ task[t].gone
    IN  /\ At(t, "name")
        /\ registry' = registry \cup {x}
        /\ connectable' = IF held /\ x \in Present THEN connectable \cup {x} ELSE connectable
        /\ IF x \in servers
           THEN /\ state' = [state EXCEPT ![x] =
                      IF held THEN Moved(flagged, "degraded") ELSE flagged]
                /\ channel' = [channel EXCEPT ![x] = "null"]
                /\ NextAdapter(t)
           ELSE /\ state' = [state EXCEPT ![x] = flagged]
                /\ Goto(t, "start")
                /\ UNCHANGED channel
        /\ UNCHANGED <<world, saved, servers, bound, lock, spent>>

\* HIDServer.start binds both PSMs, or raises.
StartHID(t) ==
    LET x == task[t].adapter
    IN  /\ At(t, "start") /\ x \in Present \ bound
        /\ servers' = servers \cup {x} /\ bound' = bound \cup {x}
        /\ Write(t, x, [state[x] EXCEPT !.error = FALSE])
        /\ Goto(t, "target")
        /\ UNCHANGED <<world, registry, saved, channel, connectable, lock, spent>>

StartFails(t) ==
    LET x == task[t].adapter
    IN  /\ At(t, "start")
        /\ IF x \in Present \ bound THEN Spend
           ELSE UNCHANGED spent
        /\ Write(t, x, [Moved(state[x], "degraded") EXCEPT !.error = TRUE])
        /\ channel' = [channel EXCEPT ![x] = "null"]
        /\ NextAdapter(t)
        /\ UNCHANGED <<world, registry, saved, servers, bound, connectable, lock>>

\* The bonds are read, the reconnect target set: the adapter has its channel.
Listen(t) ==
    LET x == task[t].adapter
    IN  /\ At(t, "target")
        /\ Write(t, x, Moved(state[x], "listening"))
        /\ channel' = [channel EXCEPT ![x] = "real"]
        /\ NextAdapter(t)
        /\ UNCHANGED <<world, registry, saved, servers, bound, connectable, lock, spent>>

\* _ensure_link_state: what the radio says, read off the loop ...
ReadLinks(t) ==
    /\ At(t, "each") /\ task[t].todo = {}
    /\ task' = [task EXCEPT ![t].at = "links", ![t].seen = linked,
                            ![t].todo = task[t].chosen \cap Present]
    /\ UNCHANGED <<world, registry, state, saved, stack, connectable, lock, spent>>

\* Mutant: a phase that disagrees with a link already known is left alone.
CorrectPeerOnly(s, up) == IF up = s.peer THEN s ELSE Noted(s, up)

Corrected(s, up) == IF up = s.peer /\ up = (s.phase = "linked") THEN s ELSE Noted(s, up)

\* ... and applied when the loop runs again.  The pass is over.
ApplyLinks(t) ==
    /\ At(t, "links")
    /\ state' = [x \in Adapters |->
          IF x \in (task[t].todo \cap registry) \ task[t].gone
          THEN Corrected(state[x], x \in task[t].seen) ELSE state[x]]
    /\ lock' = None
    /\ task' = [task EXCEPT ![t] = IF @.job = "rescan" THEN [Idle EXCEPT !.at = "expire"]
                                   ELSE Idle]
    /\ UNCHANGED <<world, registry, saved, stack, connectable, spent>>

-----------------------------------------------------------------------------
(* _expire_pairing_windows, the end of rescan.                             *)

Over == {x \in registry : state[x].window = "over"}

Expire(t) ==
    /\ At(t, "expire")
    /\ IF Over = {} THEN task' = [task EXCEPT ![t] = Idle] /\ UNCHANGED state
       ELSE \E x \in Over :
              /\ state' = [state EXCEPT ![x] = Cleared(@)]
              /\ task' = [task EXCEPT ![t].at = "conceal", ![t].adapter = x]
    /\ UNCHANGED <<world, registry, saved, stack, connectable, lock, spent>>

\* set_properties(connectable=True if enabled), at the end of a window and when
\* the operator stops pairing.  (suspend_reconnect is modelled in HIDServer.)
Conceal(t) ==
    LET x == task[t].adapter
    IN  /\ At(t, "conceal")
        /\ connectable' = IF x \in (Present \cap registry) \ task[t].gone /\ state[x].enabled
                          THEN connectable \cup {x} ELSE connectable
        /\ task' = [task EXCEPT ![t] = IF @.job = "unpair" THEN Idle
                                       ELSE [Idle EXCEPT !.at = "expire"]]
        /\ UNCHANGED <<world, registry, state, saved, stack, lock, spent>>

-----------------------------------------------------------------------------
(* The operator's requests.                                                *)

\* A request finds its adapter and starts.
Ask(t, op, x, at) ==
    /\ op \in WebOps /\ t \in Requests /\ At(t, "idle")
    /\ Spend
    /\ x \in registry
    /\ task' = [task EXCEPT ![t] = [Idle EXCEPT !.at = at, !.job = op, !.adapter = x]]

SetEnabled(t, x, enabled) ==
    /\ Ask(t, IF enabled THEN "enable" ELSE "disable", x, "lock")
    /\ enabled => Cardinality({y \in registry \ {x} : state[y].enabled}) < MaxOutputs
    /\ state' = [state EXCEPT ![x].enabled = enabled]
    /\ Upsert(x, enabled, Host(x))
    /\ UNCHANGED <<world, registry, stack, connectable, lock>>

\* set_profile, which also persists "enabled"; nothing is awaited.
SetProfile(t, x) ==
    /\ "profile" \in WebOps /\ At(t, "idle")
    /\ Spend
    /\ channel[x] # "none"
    /\ Upsert(x, TRUE, Host(x))
    /\ UNCHANGED <<world, registry, state, stack, connectable, lock, task>>

\* set_pairable(True): the checks, then _ensure_agent is awaited.
Pair(t, x) ==
    /\ Ask(t, "pair", x, "arm")
    /\ state[x].enabled /\ ~ state[x].error
    /\ UNCHANGED <<world, registry, state, saved, stack, connectable, lock>>

ArmPairing(t) ==
    /\ At(t, "arm")
    /\ Write(t, task[t].adapter, Armed(state[task[t].adapter]))
    /\ Goto(t, "offer")
    /\ UNCHANGED <<world, registry, saved, stack, connectable, lock, spent>>

\* remove_bonds, which also drops the link; _forget_reconnect_target; the radio.
Offer(t) ==
    LET x == task[t].adapter
        held == x \in (Present \cap registry) \ task[t].gone
    IN  /\ At(t, "offer")
        /\ Unlink(x)
        /\ saved' = IF Host(x) THEN [saved EXCEPT ![x].host = FALSE] ELSE saved
        /\ connectable' = IF held /\ state[x].enabled THEN connectable \cup {x}
                          ELSE connectable
        /\ task' = [task EXCEPT ![t] = Idle]
        /\ UNCHANGED <<registry, state, stack, lock, spent>>

Unpair(t, x) ==
    /\ Ask(t, "unpair", x, "conceal")
    /\ state' = [state EXCEPT ![x] = Cleared(@)]
    /\ UNCHANGED <<world, registry, saved, stack, connectable, lock>>

\* disconnect_host: the link is dropped, the pairing kept or forgotten.
Disconnect(t, x) ==
    /\ Ask(t, "disconnect", x, "disconnect")
    /\ UNCHANGED <<world, registry, state, saved, stack, connectable, lock>>

\* Sleep keeps the pairings; a reset forgets where there is one.
Disconnected(t, forget) ==
    LET x == task[t].adapter
    IN  /\ At(t, "disconnect")
        /\ forget => task[t].job # "sleep all"
        /\ Unlink(x)
        /\ saved' = IF forget /\ Host(x) THEN [saved EXCEPT ![x].host = FALSE] ELSE saved
        /\ Write(t, x, Noted(state[x], FALSE))
        /\ task' = [task EXCEPT ![t] = IF @.job = "disconnect" THEN Idle ELSE [@ EXCEPT !.at = "all"]]
        /\ UNCHANGED <<registry, stack, connectable, lock, spent>>

\* sleep_all and reset_all, which go through the adapters there are now.
All(t, op) ==
    /\ op \in WebOps /\ At(t, "idle") /\ Spend
    /\ task' = [task EXCEPT ![t] = [Idle EXCEPT !.at = "all", !.job = op, !.todo = registry]]
    /\ UNCHANGED <<world, registry, state, saved, stack, connectable, lock>>

\* disconnect_host looks its adapter up again; the unpaired are not put to sleep.
EachOfAll(t) ==
    /\ At(t, "all")
    /\ \E x \in task[t].todo :
         \/ /\ x \in registry /\ state[x].enabled
            /\ task' = [task EXCEPT ![t].at = "disconnect", ![t].adapter = x,
                                    ![t].todo = @ \ {x}, ![t].gone = @ \ {x}]
         \/ /\ x \in registry /\ state[x].enabled => task[t].job = "sleep all"
            /\ task' = [task EXCEPT ![t].todo = @ \ {x}]
    /\ UNCHANGED <<world, registry, state, saved, stack, connectable, lock, spent>>

AllDone(t) ==
    /\ At(t, "all") /\ task[t].todo = {}
    /\ task' = [task EXCEPT ![t] = Idle]
    /\ UNCHANGED <<world, registry, state, saved, stack, connectable, lock, spent>>

\* wake, whose part on this transport is that the radio answers pages again.
Wake(t, x) ==
    /\ Ask(t, "wake", x, "wake")
    /\ state[x].enabled /\ ~ state[x].error
    /\ UNCHANGED <<world, registry, state, saved, stack, connectable, lock>>

Woken(t) ==
    LET x == task[t].adapter
    IN  /\ At(t, "wake")
        /\ connectable' = IF x \in Present THEN connectable \cup {x} ELSE connectable
        /\ task' = [task EXCEPT ![t] = Idle]
        /\ UNCHANGED <<world, registry, state, saved, stack, lock, spent>>

-----------------------------------------------------------------------------
World(x) == Plug(x) \/ Unplug(x) \/ LinkUp(x) \/ LinkDown(x)
Hear(x) == NoteLink(x) \/ OnHostConnected(x) \/ OnHostGone(x)

TaskStep(t) ==
    \/ Sync(t) \/ Begin(t) \/ Drop(t) \/ Stopped(t) \/ Dropped(t) \/ Abort(t)
    \/ Quiet(t) \/ Silence(t) \/ EnsureConnectable(t) \/ Configure(t)
    \/ BringUp(t) \/ BringUpFails(t) \/ Name(t) \/ StartHID(t) \/ StartFails(t)
    \/ Listen(t) \/ ReadLinks(t) \/ ApplyLinks(t) \/ Expire(t) \/ Conceal(t)
    \/ ArmPairing(t) \/ Offer(t) \/ EachOfAll(t) \/ AllDone(t) \/ Woken(t)
    \/ \E forget \in BOOLEAN : Disconnected(t, forget)

Request(t, x) ==
    \/ \E enabled \in BOOLEAN : SetEnabled(t, x, enabled)
    \/ SetProfile(t, x) \/ Pair(t, x) \/ Unpair(t, x) \/ Disconnect(t, x) \/ Wake(t, x)

Next == \/ \E x \in Adapters : World(x) \/ Hear(x) \/ WindowEnds(x)
        \/ \E t \in Tasks : TaskStep(t) \/ Enumerate(t)
        \/ \E t \in Requests, x \in Adapters : Request(t, x)
        \/ \E t \in Requests, op \in {"sleep all", "reset all"} : All(t, op)

\* The event loop runs every task that can go on, the threads report, windows end,
\* and the watcher wakes up every ten seconds.
Fairness ==
    /\ \A t \in Tasks : WF_vars(TaskStep(t))
    /\ WF_vars(Enumerate(Watcher))
    /\ \A x \in Adapters : WF_vars(Hear(x)) /\ WF_vars(WindowEnds(x))

Spec == Init /\ [][Next]_vars /\ Fairness

-----------------------------------------------------------------------------
Steps == {"idle", "sync", "lock", "drop", "stop", "quiet", "silence", "each", "bring up",
          "name", "start", "target", "links", "expire", "conceal", "arm", "offer",
          "disconnect", "all", "wake", "dead"}

TypeOK ==
    /\ plugged \in [Adapters -> 0..Cardinality(Adapters)]
    /\ linked \subseteq Adapters /\ registry \subseteq Adapters
    /\ state \in [Adapters -> [enabled : BOOLEAN, index : 0..Cardinality(Adapters),
                               phase : Phases, window : {"none", "open", "over"},
                               peer : BOOLEAN, configured : BOOLEAN,
                               quieted : BOOLEAN, error : BOOLEAN]]
    /\ saved \in [Adapters -> [enabled : BOOLEAN, host : BOOLEAN, numbered : BOOLEAN]
                               \cup {None}]
    /\ channel \in [Adapters -> {"none", "null", "real"}]
    /\ servers \subseteq Adapters /\ bound \subseteq Adapters
    /\ connectable \subseteq Adapters
    /\ lock \in Tasks \cup {None}
    /\ \A t \in Tasks : task[t].at \in Steps
    /\ \A x \in Adapters : ~ (state[x].configured /\ state[x].quieted)

\* A HID server is never started on an adapter while another of ours is bound to
\* it: the second would fail with EADDRINUSE against our own listener.
NeverOwnAddressInUse == \A t \in Tasks : At(t, "start") => task[t].adapter \notin bound

\* add_channel never meets a full router: its ValueError would end the pass, and
\* the watcher with it.
NeverRefused ==
    \A t \in Tasks : task[t].at \in {"name", "start", "target"} =>
        Cardinality(Channels \ {task[t].adapter}) < MaxOutputs

\* Between two passes, a channel that carries input has its HID server behind it,
\* whatever was unplugged, disabled or failed on the way.
BackedByServer ==
    lock = None => \A x \in Adapters : channel[x] = "real" => x \in servers \cap bound

\* Once nothing changes any more, exactly the adapters that should carry a
\* controller have a channel, whatever the requests and the hot-plug did.
Converges == <>[](registry = Present /\ Channels = Chosen)

\* Once nothing changes any more, an adapter in use is shown as linked exactly if
\* it is, whichever of its reports came late.
LinkIsShown ==
    <>[](\A x \in Chosen : channel[x] = "real" =>
            ((x \in linked) = (state[x].phase = "linked")) /\ ((x \in linked) = state[x].peer))
=============================================================================
