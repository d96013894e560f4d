----------------------------- MODULE InputPath -----------------------------
(***************************************************************************)
(* The server's path from a client's packet to a console, with the         *)
(* operator working on the same tables: server/datapath.py (the datapath   *)
(* thread), server/web/app.py and the adapter manager (the asyncio         *)
(* thread), server/sessions.py as a set of live sessions, and Router.      *)
(*                                                                         *)
(* A thread runs one handler at a time.  job[t] is the handler and its     *)
(* next step; while the handler is inside a router method, call[t] is not  *)
(* idle.  The datapath reads the router's fields without its lock, so      *)
(* every read of _handle_input is a step of its own.                       *)
(*                                                                         *)
(* An input is a full controller state; all the properties need to know is *)
(* whose it is and whether anything is pressed.  console[x] is what the    *)
(* console behind adapter x sees: Neutral, or a controller held down.  It  *)
(* stays so until another report arrives, because the sink's keepalive     *)
(* repeats the last report (server/bt/hid.py, L2CAPSink).                  *)
(***************************************************************************)
EXTENDS Router

CONSTANTS Datapath,     \* the datapath thread
          Loop,         \* the asyncio thread: web handlers, adapter manager
          Neutral,      \* a report with nothing pressed
          AutoApprove,  \* SessionManager.auto_approve
          WebOps        \* which requests the operator makes in this instance

ASSUME InputPathAssumption ==
    /\ Slots # {}
    /\ Threads = {Datapath, Loop} /\ Datapath # Loop
    /\ Neutral \notin Clients \X Slots
    /\ AutoApprove \in BOOLEAN
    /\ WebOps \subseteq {"approve", "assign", "unassign", "deny", "accepting",
                         "password", "hotplug"}

VARIABLES sessions,   \* clients with a live session
          approved,   \* clients whose (last) session object is APPROVED
          accepting,  \* the accept gate of the one transport modelled
          linked,     \* adapters whose sink has a console
          console,    \* what each console sees
          job,        \* the handler each thread is in
          owned       \* history: adapters the client of the packet in hand was
                      \* assigned to at some moment since the packet arrived

vars == <<routerVars, sessions, approved, accepting, linked, console, job, owned>>

Job(kind, at, c) == [kind |-> kind, at |-> at, client |-> c, slot |-> None,
                     pressed |-> FALSE, adapter |-> None, rest |-> {}]
NoJob == Job("none", "idle", None)

PathInit ==
    /\ Init
    /\ sessions = {} /\ approved = {} /\ accepting = TRUE
    /\ linked = {} /\ console = [x \in Adapters |-> Neutral]
    /\ job = [t \in Threads |-> NoJob]
    /\ owned = {}

\* Thread t is between two handlers.
Ready(t) == job[t].at = "idle" /\ call[t].at = "idle"

\* Thread t is in handler "kind", its next step is "at", no router call runs.
At(t, kind, at) == job[t].kind = kind /\ job[t].at = at /\ call[t].at = "idle"

Advance(t, at) == job' = [job EXCEPT ![t].at = at]
Finish(t) == job' = [job EXCEPT ![t] = NoJob]
Start(t, j) == Ready(t) /\ job' = [job EXCEPT ![t] = j]

\* The history of the packet in hand follows every write of assigned_client.
Follow(c) == owned' = owned \cup {x \in Adapters : assigned_client'[x] = c}

-----------------------------------------------------------------------------
(* The hot path: _handle_input, one step per unlocked read.                *)

ReceiveInput(c, s, pressed) ==
    /\ accepting /\ c \in sessions /\ c \in approved
    /\ Start(Datapath, [Job("input", "resolve", c) EXCEPT !.slot = s, !.pressed = pressed])
    /\ owned' = {x \in Adapters : assigned_client[x] = c}
    /\ UNCHANGED <<routerVars, sessions, approved, accepting, linked, console>>

Resolve ==
    /\ At(Datapath, "input", "resolve")
    /\ LET x == routes[<<job[Datapath].client, job[Datapath].slot>>]
       IN  IF x = None THEN Finish(Datapath)
           ELSE job' = [job EXCEPT ![Datapath].adapter = x, ![Datapath].at = "client"]
    /\ UNCHANGED <<routerVars, sessions, approved, accepting, linked, console, owned>>

\* Mutant: the check of the client, left out.
CheckNothing ==
    /\ At(Datapath, "input", "client") /\ Advance(Datapath, "slot")
    /\ UNCHANGED <<routerVars, sessions, approved, accepting, linked, console, owned>>

CheckClient ==
    /\ At(Datapath, "input", "client")
    /\ IF assigned_client[job[Datapath].adapter] = job[Datapath].client
       THEN Advance(Datapath, "slot") ELSE Finish(Datapath)
    /\ UNCHANGED <<routerVars, sessions, approved, accepting, linked, console, owned>>

CheckSlot ==
    /\ At(Datapath, "input", "slot")
    /\ IF assigned_slot[job[Datapath].adapter] = job[Datapath].slot
       THEN Advance(Datapath, "write") ELSE Finish(Datapath)
    /\ UNCHANGED <<routerVars, sessions, approved, accepting, linked, console, owned>>

\* channel.is_live, build_input_report and send_input_report.
WriteReport ==
    LET j == job[Datapath]
    IN  /\ At(Datapath, "input", "write")
        /\ console' = IF j.adapter \in linked
                      THEN [console EXCEPT ![j.adapter] =
                              IF j.pressed THEN <<j.client, j.slot>> ELSE Neutral]
                      ELSE console
        /\ Finish(Datapath)
        /\ UNCHANGED <<routerVars, sessions, approved, accepting, linked, owned>>

-----------------------------------------------------------------------------
(* The datapath's other handlers.                                          *)

\* AUTH passed the accept gate; the session is created a little later.
ReceiveAuth(c) ==
    /\ accepting
    /\ Start(Datapath, Job("auth", "create", c))
    /\ UNCHANGED <<routerVars, sessions, approved, accepting, linked, console, owned>>

\* handle_auth replaces the client's session, then _on_session_created.
CreateSession ==
    LET c == job[Datapath].client
    IN  /\ At(Datapath, "auth", "create")
        /\ sessions' = sessions \cup {c}
        /\ approved' = IF AutoApprove THEN approved \cup {c} ELSE approved \ {c}
        /\ Finish(Datapath)
        /\ IF AutoApprove
           THEN Invoke(Datapath, AutoCall(c, {Lowest(Slots)}))
           ELSE UNCHANGED routerVars
        /\ UNCHANGED <<accepting, linked, console, owned>>

\* SET_CONTROLLERS: a second auto_assign, now with the announced slots.
SetControllers(c, S) ==
    /\ accepting /\ c \in sessions /\ c \in approved /\ AutoApprove
    /\ Ready(Datapath)
    /\ Invoke(Datapath, AutoCall(c, S))
    /\ UNCHANGED <<sessions, approved, accepting, linked, console, job, owned>>

UnassignClientCall(t, c) == Invoke(t, Call("unassign_client", None, c, None, "lock"))

\* Mutants: DISCONNECT keeps the adapters; so does the reaping of a session.
DisconnectKeeping(c) ==
    /\ accepting /\ c \in sessions
    /\ Start(Datapath, Job("disconnect", "drop", c))
    /\ UNCHANGED <<routerVars, sessions, approved, accepting, linked, console, owned>>

ReapKeeping(c) ==
    /\ At(Datapath, "reap", "unassign") /\ c \in job[Datapath].rest
    /\ job' = [job EXCEPT ![Datapath].client = c, ![Datapath].at = "release"]
    /\ UNCHANGED <<routerVars, sessions, approved, accepting, linked, console, owned>>

ReceiveDisconnect(c) ==
    /\ accepting /\ c \in sessions
    /\ Start(Datapath, Job("disconnect", "drop", c))
    /\ UnassignClientCall(Datapath, c)
    /\ UNCHANGED <<sessions, approved, accepting, linked, console, owned>>

ForgetSession(t, kind) ==
    /\ At(t, kind, "drop")
    /\ sessions' = sessions \ {job[t].client}
    /\ Finish(t)
    /\ UNCHANGED <<routerVars, approved, accepting, linked, console, owned>>

DropDisconnected == ForgetSession(Datapath, "disconnect")

\* _maybe_maintenance: reap_expired drops every silent session at once ...
Reap(S) ==
    /\ S # {} /\ S \subseteq sessions
    /\ Start(Datapath, [Job("reap", "unassign", None) EXCEPT !.rest = S])
    /\ sessions' = sessions \ S
    /\ UNCHANGED <<routerVars, approved, accepting, linked, console, owned>>

\* ... then each one's adapters are unassigned ...
ReapUnassign(c) ==
    /\ At(Datapath, "reap", "unassign") /\ c \in job[Datapath].rest
    /\ UnassignClientCall(Datapath, c)
    /\ job' = [job EXCEPT ![Datapath].client = c, ![Datapath].at = "release"]
    /\ UNCHANGED <<sessions, approved, accepting, linked, console, owned>>

\* ... and _release_channels_for sends a neutral report on those it drives.
ReapRelease ==
    LET j == job[Datapath]
        rest == j.rest \ {j.client}
    IN  /\ At(Datapath, "reap", "release")
        /\ console' = [x \in Adapters |->
                         IF x \in Driven(j.client) \cap linked THEN Neutral ELSE console[x]]
        /\ IF rest = {} THEN Finish(Datapath)
           ELSE job' = [job EXCEPT ![Datapath].rest = rest, ![Datapath].at = "unassign"]
        /\ UNCHANGED <<routerVars, sessions, approved, accepting, linked, owned>>

-----------------------------------------------------------------------------
(* The operator's requests, on the asyncio thread.                         *)

WebApprove(c) ==
    /\ "approve" \in WebOps /\ Ready(Loop) /\ c \in sessions
    /\ approved' = approved \cup {c}
    /\ UNCHANGED <<routerVars, sessions, accepting, linked, console, job, owned>>

\* handle_assign: the session is looked up first, the router called later.
WebAssign(x, c, s) ==
    /\ "assign" \in WebOps /\ Ready(Loop) /\ c \in sessions
    /\ Invoke(Loop, Call("assign", x, c, s, "lock"))
    /\ UNCHANGED <<sessions, approved, accepting, linked, console, job, owned>>

WebUnassign(x) ==
    /\ "unassign" \in WebOps /\ Ready(Loop)
    /\ Invoke(Loop, Call("unassign", x, None, None, "lock"))
    /\ UNCHANGED <<sessions, approved, accepting, linked, console, job, owned>>

\* handle_deny: deny, unassign_client, drop.
WebDeny(c) ==
    /\ "deny" \in WebOps
    /\ Start(Loop, Job("deny", "drop", c))
    /\ approved' = IF c \in sessions THEN approved \ {c} ELSE approved
    /\ UnassignClientCall(Loop, c)
    /\ UNCHANGED <<sessions, accepting, linked, console, owned>>

DropDenied == ForgetSession(Loop, "deny")

\* set_accepting: the gate first, then the sessions that came through it.
OpenGate ==
    /\ "accepting" \in WebOps /\ Ready(Loop) /\ ~ accepting
    /\ accepting' = TRUE
    /\ UNCHANGED <<routerVars, sessions, approved, linked, console, job, owned>>

CloseGate ==
    /\ "accepting" \in WebOps /\ accepting
    /\ Start(Loop, Job("accepting", "list", None))
    /\ accepting' = FALSE
    /\ UNCHANGED <<routerVars, sessions, approved, linked, console, owned>>

\* handle_server_identity with a new password starts the same way.
WebPassword ==
    /\ "password" \in WebOps
    /\ Start(Loop, Job("password", "list", None))
    /\ UNCHANGED <<routerVars, sessions, approved, accepting, linked, console, owned>>

\* all_sessions() is a copy: what arrives later is not in it.
ListSessions(kind) ==
    /\ At(Loop, kind, "list")
    /\ job' = [job EXCEPT ![Loop].rest = sessions, ![Loop].at = "next"]
    /\ UNCHANGED <<routerVars, sessions, approved, accepting, linked, console, owned>>

NextSession(kind, c) ==
    /\ At(Loop, kind, "next") /\ c \in job[Loop].rest
    /\ UnassignClientCall(Loop, c)
    /\ job' = [job EXCEPT ![Loop].client = c, ![Loop].rest = @ \ {c},
                          ![Loop].at = IF kind = "accepting" THEN "drop one" ELSE "next"]
    /\ UNCHANGED <<sessions, approved, accepting, linked, console, owned>>

DropOne ==
    /\ At(Loop, "accepting", "drop one")
    /\ sessions' = sessions \ {job[Loop].client}
    /\ Advance(Loop, "next")
    /\ UNCHANGED <<routerVars, approved, accepting, linked, console, owned>>

GateClosed ==
    /\ At(Loop, "accepting", "next") /\ job[Loop].rest = {}
    /\ Finish(Loop)
    /\ UNCHANGED <<routerVars, sessions, approved, accepting, linked, console, owned>>

SetPassword ==
    /\ At(Loop, "password", "next") /\ job[Loop].rest = {}
    /\ sessions' = {}
    /\ Finish(Loop)
    /\ UNCHANGED <<routerVars, approved, accepting, linked, console, owned>>

-----------------------------------------------------------------------------
(* Adapters and consoles come and go.                                      *)

PlugIn(x) ==
    /\ "hotplug" \in WebOps /\ Ready(Loop) /\ x \notin channels
    /\ Invoke(Loop, Call("add", x, None, None, "lock"))
    /\ UNCHANGED <<sessions, approved, accepting, linked, console, job, owned>>

\* The adapter is unplugged or disabled: its link is already down, because the
\* dongle is gone or its HID server was stopped first (ConsoleGone).
Unplug(x) ==
    /\ "hotplug" \in WebOps /\ Ready(Loop) /\ x \in channels \ linked
    /\ Invoke(Loop, Call("remove", x, None, None, "lock"))
    /\ UNCHANGED <<sessions, approved, accepting, linked, console, job, owned>>

ConsoleConnects(x) ==
    /\ x \in channels \ linked
    /\ ~ (call[Loop].op = "remove" /\ call[Loop].adapter = x)
    /\ linked' = linked \cup {x}
    /\ UNCHANGED <<routerVars, sessions, approved, accepting, console, job, owned>>

\* The link is lost: the console no longer sees the controller at all.
ConsoleGone(x) ==
    /\ x \in linked
    /\ linked' = linked \ {x}
    /\ console' = [console EXCEPT ![x] = Neutral]
    /\ UNCHANGED <<routerVars, sessions, approved, accepting, job, owned>>

-----------------------------------------------------------------------------
InRouter(t) ==
    /\ RouterStep(t)
    /\ Follow(job[Datapath].client)
    /\ UNCHANGED <<sessions, approved, accepting, linked, console, job>>

\* The rest of a handler the datapath has begun.
DatapathStep == \/ Resolve \/ CheckClient \/ CheckSlot \/ WriteReport
                \/ CreateSession \/ DropDisconnected
                \/ \E c \in Clients : ReapUnassign(c)
                \/ ReapRelease

Packet == \/ \E c \in Clients, s \in Slots, p \in BOOLEAN : ReceiveInput(c, s, p)
          \/ \E c \in Clients : ReceiveAuth(c) \/ ReceiveDisconnect(c)
          \/ \E c \in Clients, S \in (SUBSET Slots) \ {{}} : SetControllers(c, S)

LoopStep == \/ DropDenied \/ DropOne \/ GateClosed \/ SetPassword
            \/ \E kind \in {"accepting", "password"} :
                 ListSessions(kind) \/ \E c \in Clients : NextSession(kind, c)

Request == \/ \E c \in Clients : WebApprove(c) \/ WebDeny(c)
           \/ \E x \in Adapters, c \in Clients, s \in Slots : WebAssign(x, c, s)
           \/ \E x \in Adapters : WebUnassign(x) \/ PlugIn(x) \/ Unplug(x)
           \/ OpenGate \/ CloseGate \/ WebPassword

Timeout == \E S \in SUBSET sessions : Reap(S)

Consoles == \E x \in Adapters : ConsoleConnects(x) \/ ConsoleGone(x)

PathNext == \/ Packet \/ Timeout \/ DatapathStep
        \/ Request \/ LoopStep
        \/ \E t \in Threads : InRouter(t)
        \/ Consoles

PathSpec == PathInit /\ [][PathNext]_vars

(* Each thread goes on with the handler it is in.  Strong fairness for the *)
(* router calls: a thread waiting for the router's lock gets it although   *)
(* the other thread keeps taking and releasing it, since each holds it for *)
(* microseconds and makes at most a few calls a second.                    *)
Fairness == /\ WF_vars(DatapathStep) /\ WF_vars(LoopStep)
            /\ \A t \in Threads : SF_vars(InRouter(t))

FairSpec == PathSpec /\ Fairness

-----------------------------------------------------------------------------
JobSet ==
    [kind : {"none", "input", "auth", "disconnect", "reap", "deny", "accepting", "password"},
     at : {"idle", "resolve", "client", "slot", "write", "create", "drop", "unassign",
           "release", "list", "next", "drop one"},
     client : Clients \cup {None}, slot : Slots \cup {None}, pressed : BOOLEAN,
     adapter : Adapters \cup {None}, rest : SUBSET Clients]

PathTypeOK ==
    /\ TypeOK
    /\ sessions \subseteq Clients /\ approved \subseteq Clients
    /\ accepting \in BOOLEAN /\ linked \subseteq Adapters
    /\ console \in [Adapters -> Keys \cup {Neutral}]
    /\ job \in [Threads -> JobSet]
    /\ owned \subseteq Adapters

\* A report about to be written goes to an adapter that was assigned to the
\* packet's own client at some moment since the packet arrived, however the
\* operator moves adapters about in between.
ReportsFollowOwner ==
    At(Datapath, "input", "write") => job[Datapath].adapter \in owned

Idle == Ready(Datapath) /\ Ready(Loop)

\* No adapter is left assigned to a client that has no session.
NoDanglingAssignment ==
    Idle => \A x \in channels : assigned_client[x] \in sessions \cup {None}

\* The adapters of a departed client become free, or it comes back.
DepartedIsUnassigned ==
    \A c \in Clients : c \notin sessions ~> (Driven(c) = {} \/ c \in sessions)
=============================================================================
