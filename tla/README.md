# Remote Bluetooth Game Control: specifications, model checks and proofs

A server owns Bluetooth adapters. Each acts as one emulated game controller that a console
is paired with. Clients stream the state of their physical controllers to the server over
UDP inside encrypted sessions; the server decides which client's controller drives which
adapter and writes HID reports to the console. Around this core there are a video path (a
capture host that streams the console's picture back to the clients), a rendezvous broker
that introduces peers behind NATs, and a web interface for the operator.

This directory holds TLA+ models of that program, the TLC configurations that check them on
small instances and the TLAPS proofs of what they promise for every instance.

| Path | Model | Checked by | Proved in |
|------|-------|------------|-----------|
| replay protection of a session | `ReplayWindow`, abstractly `FreshChannel` | `MCMediaChannel` | `MediaChannel_proofs` |
| frames of a picture over such a session | `FrameAssembly`, composed with `ReplayWindow` in `MediaChannel` | `MCMediaChannel` | `MediaChannel_proofs` |
| assignment of adapters to controllers | `Router`, abstractly `AdapterTable` | `MCInputPath` | `InputPath_proofs` |
| packet to report, with the operator at work | `InputPath` (extends `Router`) | `MCInputPath` | `InputPath_proofs` |
| report to console, with sync latency | `Sink`, abstractly `LatestRegister` | `MCSink` | `Sink_proofs` |
| handshake, sessions, rate limit, password | `Sessions` | `MCSessions` | `Sessions_proofs` |
| adapter to console: accept, reconnect, stop | `HIDServer` | `MCHIDServer` | `HIDServer_proofs` |
| dongles, HID servers and channels | `AdapterManager` | `MCAdapterManager` | `AdapterManager_proofs` |
| configuration of the video source, tickets | `VideoConfig` | `MCVideoConfig` | `Video_proofs` |
| a client's video from advert to picture | `VideoViewing` | `MCVideoViewing` | `Video_proofs` |
| making everybody equally late | `SyncGovernor` inside `SyncLatency` | `MCSyncLatency` | |
| meeting through the broker, relays | `Broker` | `MCBroker` | `Broker_proofs` |

Contents: 1 inventory, 2 what is modelled and how, 3 runs, 4 bounds and fairness, 5 proofs,
6 observations, 7 what is not modelled, 8 plan.

---------------------------------------------------------------------------------------

## 1 Inventory

### Threads

The server process has one **datapath thread** (receives every packet, runs every packet
handler, reaps silent sessions), one **asyncio thread** (web handlers, the adapter manager),
per adapter one **writer thread** and two **HID server threads** (accept, reconnect), a
**video link thread**, and a few helpers. They share: the router (a lock for writers, none
for readers), the session manager (one reentrant lock), each sink (one I/O lock), the video
registry (one lock), and a dozen flags and references read and written without any lock. The
client has a **transport thread** that reads the pad, sends and receives, and a **GUI
thread** that calls it. The broker is a single asyncio loop. Nothing but the configuration
is persisted, so a restart loses every session and starts afresh.

### Components

*Core, modelled.*

- **Replay protection** (`common/protocol.py` ReplayWindow, `common/crypto.py`). State: the
  highest counter seen and a 64-bit bitmap, per session and direction; the sender's counter.
  Operations: seal (draw the next counter), open (decrypt, then check and mark). Hard: UDP
  duplicates, reorders and loses; the distance of two counters is modular. Right when: no
  datagram is taken twice, and none inside the window is refused without reason.
- **Router** (`server/router.py`). State: the channels with their two assignment fields, the
  lookup table from (client, slot) to channel. Operations: add, remove, assign, unassign,
  unassign_client, auto_assign, resolve. Hard: writers hold the lock but readers do not, so
  every field assignment is visible on its own; auto_assign decides without the lock. Right
  when: table and fields agree whenever the lock is free, an adapter has at most one
  controller at every instant, and the ceiling on channels holds.
- **Datapath input path** (`server/datapath.py`, parts of `server/web/app.py`). State: which
  transports accept clients, the handler in progress. Operations: input, AUTH,
  SET_CONTROLLERS, DISCONNECT, reap; approve, deny, assign, unassign, change of password,
  close a transport, plug and unplug. Hard: each operation is several calls on router,
  sessions and sinks, and the two threads interleave between the calls. Right when: reports
  follow ownership, the departed hold no adapter, and consoles see no input of the departed.
- **Sessions and handshake** (`server/sessions.py`, `client/net/transport.py`). State: live
  sessions, pending randoms, the rate limiter, password, salt and key; the client's state,
  randoms and proof. Operations: HELLO, CHALLENGE, AUTH, ACCEPT and REJECT on both ends,
  drop, reap, set_password, rebinding of addresses. Hard: loss and retransmission, abandoned
  attempts whose datagrams arrive late, two critical sections in one handler, a password
  change that takes a second under the lock. Right when: one exchange opens at most one
  session, both ends hold the same key, ceilings and lockouts hold, and stale sessions end.
- **HID sink and delay line** (`server/bt/hid.py` L2CAPSink, `server/bt/sink.py`). State: the
  two sockets, the transmit buffer and its dirty flag, the delay line with its ring. Three
  threads write. Operations: attach, detach, offer, pump, keepalive, change of delay.
  Hard: references read before the lock and used after it; EAGAIN; links that die
  under any write; delay switched on, changed and off with reports held. Right when: the
  newest state is never lost inside the sink, none is early, none comes back, and a console
  sees nothing that was meant for the one before it.

- **Rendezvous broker** (`rendezvous/broker.py`). State: rooms with their peers, tokens,
  relay routes and allocated ports, each with a time to live. Operations: register, list,
  introduce, relay by token, allocate (over awaits), bye, prune, housekeeping. Hard: one
  socket carries messages and relayed data; four handlers write the relay tables; retries,
  BYE and expiry fall between the awaits of an allocation. Right when: every bound port has
  one owner, relays end on both sides together, and a server is never cut off.
- **Rendezvous client and hole punching** (`server/rendezvous.py`, `client/net/holepunch.py`).
  State: registration, the token told, relay prefix, introduced peers, STUN in flight. The
  broker's peers in the model; the punch itself is planned. Right when: two peers that can
  reach one another end up connected directly, and otherwise over the relay.

*Around the core, modelled in part.*

- **HID server** (`server/bt/hid.py` HIDServer). State: listening sockets, half-open pairs,
  the reconnect target, the session lock. Two threads, accept and reconnect, serve sessions on
  the same sink; the datapath, the writer and the adapter manager may close them. Hard: five
  threads on one pair of sockets, closed by whoever meets the dead link first; joins that time
  out. Right when: one console at a time is served, a pair of channels is of one host, and a
  stop ends everything. (`HIDServer`; the sink's data is in `Sink`.)
- **Adapter manager** (`server/bt/adapter.py`). State: adapters with their HID servers,
  pairing windows, what is saved of each, the radio's flags. Operations: rescan, reconcile,
  enable, pair, unpair, disconnect, wake, sleep and reset of all, change of profile, reports of
  links, interleaved at every await. Hard: a dongle pulled out between two awaits; a request in the middle of the
  watcher's pass; steps that fail half way. Right when: each adapter in use ends with one
  running server and a channel, and the others with neither.
- **Video registry and link** (`server/video.py`, `server/videolink.py`,
  `videoserver/control.py`). State: the configuration and its number, what the source has
  applied, the tickets minted and acknowledged. The link pushes until the status that comes
  back echoes the number. Hard: control messages sent again and applied in any order, late
  statuses, a restart of either side under the other. Right when: source and registry
  converge, a client is only told of a source that will let it in, and a revoked ticket ends
  its viewer's session.
- **Control channel and feedback** (client transport, server datapath). State: the client's
  unacknowledged control messages and its sequence number, the consent for rumble, its
  throttle. The client sends again every 500 ms until acknowledged; the server sends its own
  once. Modelled where it carries video: configuration (`VideoConfig`) and adverts
  (`VideoViewing`). Right when: every queued message is applied, the last setting wins, and no
  rumble reaches a player who has switched it off.
- **Media wire format and receiver** (`common/video.py`, `client/net/video.py`,
  `videoserver/net.py`). State: the frame being put together, its parity, the stall clock; the
  receiver's thread and session. Right when: a delivered frame is whole and frames never go
  back, and no session outlives its viewer (`FrameAssembly`, `MediaChannel`, `VideoViewing`).
- **Media pipelines** and **client windows**. Of the encoder its keyframe flag, of the decoder
  its reference chain and the count of empty frames, of the window the tick that starts,
  retries and stops the video (`VideoViewing`). Right when: a picture that froze comes back.

- **Sync latency governor** (`server/sync_latency.py`, its pass in `server/datapath.py`). State:
  the delay in force per client, the measured round trips, the verdict each session carries, the
  delay of each sink, what each client was told. Hard: what is in force outlives sessions and
  assignments; the web thread reassigns and switches between a verdict and its effect;
  announcements are lost. Right when: everybody ends up as late as the slowest, nobody else is
  held back, and who is held back knows. (`SyncGovernor`, `SyncLatency`; the line that holds
  the reports is in `Sink`.)

*Outside the scope, with the reason.*

| Component | Why it is left out |
|---|---|
| BLE peripheral (`server/bt/ble/`) | a second sink over D-Bus callbacks into bluetoothd, whose behaviour is not in the repository; it sits below the interface `Sink` models |
| Bluetooth plumbing (mgmt, hci, link, sdp, agent) | encodings of kernel and D-Bus requests, no state of their own |
| controller profiles | report layouts; `Sink` keeps from them that a subcommand is answered through the input sink |
| wire encodings | field layouts; the models exchange the fields |
| session cipher | external primitives; `ReplayWindow` keeps the counter, `Sessions` keeps the key as a term of its inputs |
| web application | the requests that change sessions or routing are actions of `InputPath` and `Sessions`; the rest is HTTP, TLS and rendering |
| LAN discovery | one stateless reply to one stateless probe |
| player labels and regions | joins and integer encodings, no concurrency of their own |
| client input | one thread that polls a pad and sends whole states: `InputPath`'s stream of inputs |
| client and video windows, the rest | presentation on one GUI thread that polls the others |
| media pipelines, the rest | latest-wins slots around external codecs; numeric image and sound processing |
| player identification | scoring over floating-point features in a child process |
| configuration and entry points | files read at start, and the wiring of the parts above |
| native filters, tools and packaging | shaders, measuring harnesses and build scripts outside the running system |

### How the parts interact

    client transport --UDP--> datapath --resolve--> Router --channel--> L2CAPSink --> console
          ^                      |  \                 ^                     ^
          |   handshake,         |   SessionManager   | assign, unassign    | attach, detach
          +--- control, acks ----+        ^           |                     |
                                          |    web handlers, adapter    HIDServer
                                     set_password   manager (asyncio)   (two threads)
                                          +-----------+

- the datapath **calls** the session manager (handshake, lookup, reap), the router (resolve,
  auto_assign, unassign_client) and the sinks (send_input_report, set_sync_delay_ns);
- web handlers **call** the same three from the asyncio thread, several calls per request
  with nothing held in between;
- the adapter manager **adds and removes** channels, and starts and stops HID servers;
- HID server threads **attach and detach** sockets on the sink, and answer subcommands
  through it;
- the client and the server **exchange datagrams** that may be lost, duplicated, delayed and
  reordered.

`PROJECT.json` lists the hazards at the line where each one bites, with the properties that
would catch it; those with no property say why.

---------------------------------------------------------------------------------------

## 2 What is modelled, and how

### ReplayWindow (with FreshChannel)

One direction of one session. `sent` is the sender's 64-bit counter, `net` the datagrams the
network still holds; `Deliver` may repeat, reorder or never take one of them. `highest` and
`bitmap` are the receiver's fields. `CheckFirst`, `CheckNewer` and `CheckOlder` are the three
branches of `check_and_update`, with the shift and the mask done on sets of ages. Two
constants are parameters instead of the code's 64 and 2^31: `Window`, and `SeqHalf`, half of
the modulus of `seq_is_newer`, so that distances wrap in small instances. The sender runs
ahead of the receiver by less than `SeqHalf`: both ends drop a session after ten silent
seconds, and nothing sends 2^31 datagrams in that time. `FreshChannel` is the promise:
a set of accepted datagrams, each accepted at most once, and never one refused that is
neither accepted nor behind the window.

### Router (with AdapterTable)

Each method that takes `Router._lock` is a sequence of steps of the calling thread: take the
lock, write one field, write the next, swap in the new table and release. auto_assign's two
unlocked reads (has the slot a channel already, which channel is free) are steps before it.
`assigned_client` and `assigned_slot` are separate variables, as they are separate stores in
the code, and `routes` is the published table. Both threads may call everything at any time.
`AdapterTable` is one function from adapters to controllers that changes in whole steps; the
refinement maps it to the reader's view, the published table.

### InputPath

Extends `Router`, so every router call of a handler interleaves with the other thread's.
`job[t]` is the handler thread `t` is in and its next step.

- Hot path: `ReceiveInput`, then `Resolve`, `CheckClient`, `CheckSlot` (three unlocked reads)
  and `WriteReport`.
- Datapath handlers: `ReceiveAuth` and `CreateSession`, `SetControllers`, `ReceiveDisconnect`
  and `DropDisconnected`, `Reap` with `ReapUnassign` and `ReapRelease` per client.
- Operator: `WebApprove`, `WebAssign`, `WebUnassign`, `WebDeny`, `OpenGate`, `CloseGate`,
  `WebPassword`; the last two list the sessions and then unassign and drop one by one.
- Adapters: `PlugIn`, `Unplug`, `ConsoleConnects`, `ConsoleGone`.

`console[x]` is what the console behind adapter `x` sees: nothing pressed, or whose
controller is held down. It stays until another report is written, because the sink repeats
the last report. `owned` is history: the adapters that were the client's own at some moment
since its packet arrived. The sink is a single write here; its own steps are in `Sink`. One
transport is modelled; `WebOps` says which requests the operator makes in an instance.

### Sink (with LatestRegister)

One adapter, three threads: `Dp` offers states and changes the delay, `Wr` pumps, `Ctl` serves
one connection after another and answers subcommands. A critical section under `_io_lock` is
one step; what a thread read before it is in `task[t]`, so a thread can hold a delay line or
a session that is no longer current. Delay lines are numbered, reports are numbered in the
order of their offers. A write has five outcomes: sent, lost (flushed by the radio after the
write succeeded), coalesced (EAGAIN), failed, dead. `now` is the clock, advanced by `Tick`. The
keepalive is always on: no caller gives the sink a policy other than the default 50 Hz.
`LatestRegister` is the promise to the console: what it is shown never goes back.

### Sessions

Clients, network and the server's `SessionManager`. Cryptography is symbolic: a key is the
pair of password and salt, a proof names the key and both randoms. `client_random` and the
source address are both drawn afresh per attempt and stand for one number, `attempt`. A
datagram to the server stays in `net` for ever: delivered twice it is a duplicate or the
client's own retransmission, which has the same bytes; never delivered it is lost. Answers go
to the socket they were sent to, if it is still open, and wait in `inbox`.

`handle_auth` is three steps, because it is in the code: find the pending entry under the
lock, verify without it, open the session under it again. `set_password` is two, with the
lock held between them, the salt already new and the key still old. `pending` keeps each
entry's place in the dict's order: a client that is pending already keeps its place, and at
the limit the first entry goes although the newcomer may need no room.

Choices that a reader should know: time is two actions per host (a failure leaves the window;
a lockout ends) with no clock; failures do not age while the host is locked out, since
nothing is counted then; sessions are a set of records, from which the index by address
follows as long as addresses do not move; silence, DISCONNECT and the operator are one
action, `Drop`; the rate limiter's failures are of the host, the operator's only other way
in (approval) is in `InputPath`.

### Broker

One room, its server and its clients; the video leg of a room is the same code with other
roles. A client is one run on one socket. A datagram is read at the moment it arrives, so a
lost one is a step not taken; of every answer the model chooses who hears it. `Signals(p)` is
the test at the head of `datagram_received`: while a peer has an entry in `relayRoutes`,
whatever it sends to the broker, unless framed with a token, is `Forward`ed. `_allocate` is
`RequestPorts`, then `BindPort` twice with other handlers in between, then `Allocated`, or
`NoPortLeft` at any bind, since other programs use ports too. `DropRelayState` works on a
record of the four tables, because `_prune_all` calls it for one peer after another, in the
order of a dict that the model leaves open. Expiry is by ages: a tick is a minute, so a
registration not renewed for one and a relay silent for two are old. `modern` is the set of
peers that sent `alloc`: today's do, older ones make the pair relay by token.

### FrameAssembly and MediaChannel

`FrameAssembly` cuts a frame into slices, adds the slice of parity and puts frames together
again. A payload is the set of the bytes it carries, so XOR is the bytes in an odd number of
operands, and what parity restores can be wrong: one operand too many or too few leaves other
bytes. The short last slice is padded for the parity and cut again, so it is a flag of the
payload. `Add` is all of `add`: straggler, newer frame, duplicate, recovery, assembly.
`MediaChannel` sends each slice as a datagram of `ReplayWindow`; `Receive` takes any datagram at
any time, and gives it to the assembler when the window calls it fresh.

### HIDServer

Five kinds of thread on one sink: the accept loop, the reconnect loop, the datapath, the
adapter manager and one writer per session. A console is its connections: control, then
interrupt, then gone. `AcceptPass` is one round of `_accept_loop` with both listeners, expiry of
halves and the pair that is complete. `_serve_session` is `Enter`, `Start`, `Configure`,
`ServeEnds`, `Release`, with every thread's `detach` as two steps, the flag and writer first,
the sockets under the lock later, so that they interleave. Every wait has a timeout in the code,
so a thread may go on at any time; in particular a join may give up on a writer.
`suspend_reconnect` is left to the choice of `Dial`, and the flag of `stop` is seen in the step
that would have waited.

### AdapterManager

The event loop's tasks: a watcher that rescans every ten seconds, and the operator's requests.
A step of `task[t]` is what runs between two awaits. The pass of `_reconcile` is `Begin`, `Drop`
and `Stopped` (channels that should go), `Quiet` and `Silence` (adapters that are not ours to
use), `EnsureConnectable`, then per adapter `Configure`, `BringUp`, `Name`, `StartHID`, `Listen`
with their failures, then `ReadLinks` and `ApplyLinks`. `plugged`, `linked` and the reports in
flight are the world, which changes at any await. `BringUp` saves the adapter as enabled, as
`_assign_number` does. "sleep all" and "reset all" are one request that visits, with awaits, the
adapters there were when it began. A dictionary that changes while it is iterated ends the pass (`Abort`),
and the watcher with it. `Converges` shows that this does not happen with the requests of the
run, which leave out the operator's own rescan: with it the watcher does end (section 6).

### VideoConfig

The registry, the link's transport and the source. `cfgSeq` is the number of the
configuration: every change of what travels in it moves it on (`Bump`). `pending` are the
messages not yet acknowledged; `OnControl` applies any of them, and again if the acknowledgement
is lost, so an older configuration may come back over a newer one. `statuses` are those late.
The block of settings is withheld in external mode until the source has reported its own or ten
seconds have passed, and then `owed`. `held` is history: the tickets the source has accepted in
its present life; `reborn` says that the server was restarted under a source that runs on.

### VideoViewing

One client's video. `offer` is what the server would answer now, `inFlight` its answers, each of
which may be lost. `gui` is where the GUI's tick is inside `_stop_video`, the only call that
waits; `rx` has the state of each receiver object and of its thread, which may outlive it. The
stream is one `picture`: whether the decoder has the frames its next one refers to (`chain`), how
many came out empty, a frame lost in part and not noticed yet, the keyframe request and the
encoder's flag. A frame is encoded, sent and decoded in one step; a keyframe request is in
flight for less than its own throttle (a quarter of a second); the source serves only open
sessions; the rungs of the connection ladder are one attempt that fails or succeeds.

### SyncGovernor and SyncLatency

`SyncGovernor` is the arithmetic of `compute` and `_settle`, with `applied` for `_applied_ms`. A
player is its `way`, half the median of its round trips, so what is wanted is a difference of
ways. `SyncLatency` is the datapath's pass in two steps, `Govern` (gather, decide, announce) and
`Apply` (set every sink), between which the web thread may `Assign`, `Unassign`, `SetCap`,
`SetSwitch` or deny (`Leave`). Probes are left out: `Measure` gives a client any way, at any time,
once it has samples enough. A pass may come at any time, so the code's shortcut after a switch
leaves no trace. Of the announcements the pass makes, `heard` are those the network does not lose;
those in flight arrive in any order.

---------------------------------------------------------------------------------------

## 3 Runs

### Runs that pass

**media_channel.** Four frames of one to three slices, protected or not, the last slice short
or not, over a window of 3, modulus 8, ten datagrams lost, repeated and reordered.
`ImplementsFreshChannel`: the detector refines the abstract channel, so it refuses nothing it
should take either. `FramesAreWhole`: what is handed to the decoder is one frame of the source,
byte for byte, also when rebuilt from parity. `DeliveredInOrder`: each frame at most once, none
after a later one.

**input_path_operator.** Every request of the operator against every packet.
`ReportsFollowOwner`: a report about to be written goes to an adapter that was the client's
own at some moment since the packet arrived. It need not be so any more at the instant of
writing: the code reads client, slot and liveness one after the other without the lock, so a
reassignment in the middle lets one report of the former owner through. That is the
strongest statement the code keeps. `RoutesAgree`: table and fields of the router agree whenever
its lock is free; the datapath compares the two on every packet. `ImplementsAdapterTable`: what
a lock-free reader sees changes in whole steps, with both threads inside the router.

**input_path_auto.** The server assigns by itself, the operator only takes adapters away or
unplugs them. `NoDanglingAssignment`: whenever no handler is running, every assigned adapter
belongs to a live session. `DepartedIsUnassigned` (liveness): the adapters of a client whose
session has gone become free, or it comes back.

**sink_switching.** Sync latency switched on, changed and off, reports held, due, lost, put off;
one connection, no subcommands. `NewestIsKept`: the newest state accepted is in the transmit
buffer, or last in the delay line in use, or last in the line being drained. `HeldForDelay`:
while a line stays in use no state it held is shown before its delay. `ImplementsRegister`: what
the console is shown never goes back. `NewestArrives` (liveness): a state that stays the newest
of the player's reaches the console unless the link goes. A subcommand's reply is no newer state
and no excuse; section 6 says what a reply does.

**sink_live.** Three connections in a row, subcommands answered, links dying under any write.
`NothingInherited`: a console never gets a report accepted for the one before it, as long as sync
latency is not switched off in between (section 6 says what happens then).

**handshake.** Two players and a viewer behind one address, one place for players, two
passwords and one change, lockout after two failures, room for two pending handshakes,
datagrams lost, duplicated, reordered. `Ceilings`: places are never overdrawn.
`NoReplayedSession`: one server random opens one session. `NewerReplaces`: only a later
attempt replaces a client's session. `SameExchange`: a client that was told ACCEPT has a key
the server's session shares. `AtMostOneStale`: after a change of password at most one session
of the old one can appear. `NoSessionWhileLocked`: a locked-out host is given no session,
although handle_auth asks the limiter once and verifies later.

**broker.** A server and two clients, three ports, either client old. `PortsAccounted`: every
port the broker has bound belongs to one pair, or to the one coroutine that is binding for
it, whatever is retried, forgotten or stopped between its binds. `RoutesEndTogether`: a route
has an entry by which it expires, and the server's leads to a client that leads back; the
server's swallowed REGISTERs keep its own entry young, so without the second part it could be
forwarded, and absent from the room, for ever.

**hid_server.** Two consoles and our own reconnects compete for one adapter, two connections in
all, and it is stopped at any moment. `SessionOwnsSink`: the sockets of the sink are those of the
session that holds the lock. `HostsNotSpliced`: control and interrupt of one pair belong to one
host. `StopEndsAll` (liveness): after stop every thread ends and no connection stays up.
`AdapterIsFreed` (liveness): a console that went away leaves the adapter to the next.

**adapter_manager.** Two dongles for one output, the watcher and one request at a time, four
events (plugging, failing, requests, links). `NeverOwnAddressInUse`: no HID server is started on
an adapter that another of ours is bound to. `NeverRefused`: no channel is added to a full
router. `BackedByServer`: between passes a channel that carries input has its server.
`Converges` (liveness): in the end exactly the adapters that should have a channel have one.
`LinkIsShown` (liveness): in the end an adapter in use is shown as linked exactly if it is.

**video_config.** One client with its ticket, external and embedded mode, three configurations,
a late status, and one fault: a restart of the server, of the source, or a lost link.
`AdvertsAreKnown`: a client is told of the video only once the source has accepted its ticket,
unless the server was restarted under the source (section 6). `TicketsConverge`,
`SettingsArrive` (liveness): left alone, the source ends with the registry's tickets and
settings, shows the picture to nobody else, and the registry knows.

**video_viewing.** Offers that come and go, adverts lost or late, attempts that fail or raise,
close during a handshake, frames lost whole or in part. `OpenIsHeld`: no session is left that
nobody will close. `OfferIsShown` (liveness): a client that knows nothing of a video, or knows
the one on offer, is shown it. `WithdrawnEnds` (liveness): a video withdrawn leaves no session.
`FreezeEnds` (liveness): a stream that gives no picture gets a keyframe, or ends.

**sync_latency.** Two players on two adapters come, go, say nothing more, are measured again and
are moved about; the switch and the ceiling are changed, also between the two halves of a pass.
`EndsLevel` (liveness): left alone, each player is delayed to the pace of the slowest, within the
deadband and as far as the ceiling allows, and every other sink by exactly nothing.
`EndsTold` (liveness): a player that is held back is told by how much, although announcements are
lost or late.

---------------------------------------------------------------------------------------

## 4 Bounds, symmetry and fairness

Every bound is a constant with "bound" in its comment.

| Bound | Where | Why it is enough |
|---|---|---|
| `Window = 3`, `SeqHalf = 4`, `MaxSent = 10` | MediaChannel | the window slides by less, exactly and more than its width, and counters go round the modulus; the replay properties are proved for all values besides |
| `MaxFrames = 4`, frames of 1 to 3 slices | MediaChannel | a frame is overtaken by the next and by the one after it, with the window between; parity covers one data slice of two |
| 2 adapters, 2 clients, 1 slot | InputPath | a reassignment swaps the adapters of two clients; several slots are covered in Router |
| `Depth = 2`, `MaxOffers = 3`, `MaxLines = 2`, `MaxTime = 3`, delays 1 and 2 | sink_switching | a ring overflows, a longer delay follows a shorter one and the reverse, a second line replaces a line still being drained |
| `MaxSessions = 3` | sink_live | a thread still busy with the first console's link meets the third's |
| `MaxAttempts = 2`, `MaxRandoms = 3`, `MaxChanges = 1` | Sessions | two attempts of one client or one each of two, one more HELLO than attempts, so that the pending table overflows; one change of password |
| `MaxFailures = 2`, `MaxPending = 2`, `MaxClients = 1`, `MaxAuxiliary = 0` | Sessions | the limit itself and one below; a race for the last place |
| 3 ports, 2 clients, `PeerTTL = 0`, `RelayTTL = 1` | Broker | two pairs compete for ports that suffice for one and a half; a registration expires within the life of a relay, as 45 s do within 120 s |
| `MaxTokens = 3` | Broker | a token for everybody, or a server that is issued a second one |
| 2 hosts, `MaxConnections = 2` | HIDServer | two consoles, one console twice, or a console against our own reconnect |
| 2 adapters, `MaxOutputs = 1`, 1 request at a time, `MaxEvents = 4` | AdapterManager | one adapter must wait for the other's place; a dongle pulled out and put back, twice, or once with a request between; an enumeration that fails is one of the four |
| 1 client, `MaxSeq = 3`, `MaxTickets = 1`, `MaxLate = 1`, `MaxFaults = 1` | VideoConfig | an older configuration applied over the two after it; tickets of several clients do not meet |
| 2 clients, 2 adapters, `Deadband = 2`, ceilings 2 and 3, ways 0, 1 and 4, `MaxFlight = 1`, `MaxEvents = 3` | SyncLatency | the run starts with both playing and measured, before the first pass, so that all three events fall into play: a client leaves, comes back and is measured; a switch off and on. Differences are below the deadband, above it and above each ceiling; an announcement may be lost, or come after the next pass |
| 1 endpoint, 2 receivers, `StarvedLimit = 2` | VideoViewing | a stale advert is one of an offer withdrawn since; a receiver's thread may linger while the next one starts; one empty frame that must not count for enough |

Symmetry: clients and ports are interchangeable in Broker; adapters and clients in the safety
runs of InputPath, as are passwords and controllers in Sessions. Liveness runs use none.

Deadlock is checked wherever something can always happen. In Sink and Sessions the bounds end
every behaviour, and in HIDServer all threads have ended after a stop, so there it is not.

Fairness, and why the code justifies it:

- *InputPath.* Weak fairness of each thread's next step inside a handler it has begun: threads
  are scheduled, and no step in a handler waits for an event. Strong fairness of steps inside
  the router: a thread may find the lock taken again and again, but each holder keeps it for
  microseconds and calls are few, so it is not starved. Packets, requests and timeouts are
  not fair: nothing has to happen.
- *Sink*, in sink_switching. Weak fairness of each thread's next step in what it has begun and of
  the writer's loop, which wakes by its own timeout; time passes. Strong fairness of one outcome, a
  successful repetition by the writer: a link that stays up carries a report now and then. The
  repetition is the code's own remedy for loss (`_pump`, the keepalive), so this is an
  assumption on the radio, not on the code.
- *HIDServer.* Weak fairness of each thread: every select, recv, join and backoff has a timeout.
  Consoles, traffic and the operator are not fair.
- *AdapterManager.* Weak fairness of each task that can go on, of the reports the HID threads
  hand over, and of the watcher's clock. Events are bounded, so the operator and the hot-plug
  rest in the end; nothing else is asked of them.
- *VideoConfig.* Weak fairness of the link (it connects, notices a dead session, pushes), per
  number of the message with that number being applied and acknowledged, since the transport
  sends it again until it is, and of a status that arrives, since the source sends one every
  second. Nothing is asked of `ReceiveSettings`: a source may never report its settings.
- *VideoViewing.* Weak fairness of the GUI's tick and of each receiver's thread. Strong fairness
  of what is repeated until it succeeds and may fail any number of times before: the client's
  query, its attempts, its keyframe requests, and frames of either kind. A keyframe nobody asked
  for may come and is not relied upon.
- *SyncLatency.* Weak fairness of the pass, which the datapath's loop makes every second, and of
  delivery; strong fairness of each client's announcement being made and not lost, which is what
  the code's repetition every five seconds is for. Players and the operator are not fair; their
  `MaxEvents` end.

---------------------------------------------------------------------------------------

## 5 What is proved

Every safety property and every refinement that a run checks is stated by a theorem; liveness
stays with TLC. The proofs assume the ASSUMEs of their module, and four theorems one hypothesis
more on which requests are made, because without it TLC finds the property violated:

| Theorem | Hypothesis | Without it |
|---------|------------|------------|
| `NewestKept`, `SinkIsRegister` | `NoReplies`: the profile answers no subcommands | a reply takes the place of the newest state, or passes reports still held |
| `ConsoleStartsFresh` | `LineStays`: sync latency is never switched on, or no line is taken from the sink afterwards | the newest report of a line that was taken is written to the next console |
| `NoneDangling` | `OperatorLetsBe`: the operator neither assigns adapters nor ends sessions (approving, taking adapters away and plugging are free) | with any one of "assign", "deny", "accepting" and "password" an adapter stays with a client that is gone |

Each hypothesis is what the run of the same property has in its .cfg, and section 6 describes
the behaviour it excludes. Each invariant was first checked by TLC on the instance of its run.

**MediaChannel_proofs, the replay window.** From `Window > 0` and `Window < SeqHalf`, for every
window, modulus and number of datagrams: `BitmapExact`, `AtMostOnce`, `Implements` (refinement of
`FreshChannel`). The inductive invariant is the type, `BitmapIsHistory` and `Lead`: the sender
is at most half the modulus ahead of the receiver. Without `Lead` the modular comparison and
the order of the counters may disagree, and `AtMostOnce` fails. Lemma `Order` turns the
modular distance into the difference; `CheckStep` follows the branches of `check_and_update`.

**MediaChannel_proofs, frames.** For frames of any number of slices, any window and whatever the
network does: `FramesWhole`, `InOrder` and `MediaImplements`. The invariant says what a datagram
carries (`WireInv`: a slice of a frame that was taken), what is being put together (`AsmInv`: the
slices of one frame of the source, as far as they have come) and that the assembler never goes back
(`HandedInv`: the frame in progress is newer than the last one handed over). Lemma `XorOfSurvivors`
is the arithmetic of the parity: a byte of a slice that arrived is in two operands, one of the lost
slice in one; `Whole` concludes that what is assembled is the frame. `MediaImplements` needs no
invariant: every step of the video path is one of the window's or leaves it alone.

**InputPath_proofs, the router.** For every finite set of adapters and any clients, slots and
threads: `Agreement`, `OneToOneAlways`, `CeilingHeld`, and `Implements` (refinement of
`AdapterTable`). `RoutesAgree` speaks of the lock being free, so it is not inductive; the invariant
adds `LockInv` (the thread that is in the middle of a method holds the lock), `ArgsInv` (a call
has the arguments its method reads), `MidInv` (for each method and step, which fields are
written and which entries of the table are out of date) and `FreeInv` (with the lock free,
none are). The refinement shows that the only step a reader sees is `Rebuild`, and that the
table swapped in is the old one with the method's change.

**InputPath_proofs, the path.** For every number of adapters and clients and any subset of
requests: `ReportsHeld` and `RefinesRouter`. The invariant is the router's, the type, `JobArgs`
(each job's fields at each step) and `Tracked` (while a packet is in hand, `owned` contains what its
client drives, and the adapter that passed the first check). `RefinesRouter` says that the
handlers use the router only as `Router` allows, so `PathAgreement` follows from `Agreement`
without a new proof.

**InputPath_proofs, sessions.** `NoneDangling`, under `OperatorLetsBe`. `NoDanglingAssignment` speaks
of moments when no handler runs. Its strengthening speaks of every moment: an adapter is nobody's, a
live client's, or that of a client on its way out (`Owners`, `Departing`), whom
`_maybe_maintenance` has taken from the sessions and has not come to yet; the datapath calls the
router for a live client, or to empty the adapters of the one its handler is about
(`CallsOfHandler`), and once that call is made they are empty (`Emptied`).

**Sink_proofs.** For any number of reports, lines, sessions and delays. The type includes that no
delay line outgrows its ring. Each property has an invariant of its own on top of it:

- `NewestKept`: a line taken by a thread is the sink's current line, the line being drained, or an
  older one that is empty (`OneLine`); the newest state is the last of its line (`NewestLast`); and
  it is in the buffer or in one of those two lines (`NewestSomewhere`).
- `SinkIsRegister`, the refinement of `LatestRegister`: reports are in the order of their numbers
  everywhere, what is held is newer than the buffer and the buffer no older than what the console
  has (`OrderInv`). It takes the facts of `NewestKept`: two lines with reports in them could be
  released in any order.
- `ConsoleStartsFresh`, under `LineStays`: whatever a line holds was accepted for the present link,
  and a thread that has read the line has read the one that attach and detach clear (`FreshInv`).
- `DelayHonoured`: the entries of a line are in the order of their times, what the buffer has of the
  line in use is due, and a line's number is never used again (`DelayInv`). That the oldest entry is
  due first is what lets the writer look at one entry only.

**Sessions_proofs.** For any clients, hosts, limits and bounds: `NeverReplayed`, `ReplacedByNewer`,
`LockedOutStaysOut`, `CeilingsHold`, `OneStale`, `SameExchangeHolds`. The invariant is

    TypeOK /\ BasicInv /\ LimitInv /\ RandomInv /\ IssuedInv /\ NewestInv /\ AttemptInv /\ OrderInv

`LimitInv`: a host that is not locked out has failures to spare, and the one whose AUTH is in
hand is not locked out, which holds because handlers run one at a time and nobody else
records failures. `RandomInv`: randoms are drawn once and leave with the session they open.
`NewestInv`: a client's pending entry carries the newest random issued to it. `AttemptInv`:
attempts are numbered and what is sent carries its attempt's number. `OrderInv`: a client's
later randoms were answered by its later attempts; with `NewestInv` it gives
`ReplacedByNewer`, which is the hard one: an AUTH delayed from an abandoned attempt must not
verify against the pending entry of a later one.

Three more stand on it. `CountInv`: sessions are finite in number and only `Create` adds one, which
looks at both ceilings in the step in which it adds. `StaleInv`: a proof verified before the
password changed is the only way to an old key, and while it is in hand no session has one, since
the change closed them all; so the one it may open is the only one. `ExchangeInv`: the session of a
client's current attempt was made from the AUTH that client sent last, and an ACCEPT in its inbox
was sent after that.

**HIDServer_proofs.** For any number of consoles, connections and reconnects: `SinkOwned` and
`NotSpliced`. The invariant: a thread is between taking and giving back the lock exactly if it
holds it (`LockHeld`), half-open channels are filed under the host they came from (`HalvesOfPeer`),
a pair in a thread's hands is one console's (`PairsInHand`), the reconnect thread dials somebody
(`DialsSomeone`), and a connection not open yet has no host (`Unopened`): a later one cannot change
the host of a channel somebody has. `detach` looks at no lock; `SessionOwnsSink` is kept
because whoever detaches leaves the sink with no sockets.

**AdapterManager_proofs.** For any finite set of adapters, any requests, ceiling and events:
`AddressFree`, `PlaceFree` and `AlwaysBacked`. None of the three is inductive. They rest on the pass
being alone in `_reconcile_lock` (`Alone`), from which it is known what may be half done: a server
that has left `_hid_servers` and still listens is the one being stopped (`Backed`), and the channels
are those the dropping has still to remove and those that were chosen (`Bounded`). That at
most `MaxOutputs` are chosen needs the list cut at MAX_OUTPUTS to exist (`FirstExists`), for any
finite set: a minimal counterexample is one adapter larger than a set for which there is one.

**Video_proofs, the configuration.** For any clients, tickets and bounds: `AdvertsKnown`. The
invariant says what a number of the configuration stands for: a message pending under the registry's
number carries the registry's tickets, and the source has `held` those tickets once it has applied
or reported that number (`PendingIsCurrent`, `AppliedIsHeld`, `ReportedIsHeld`). A change takes a
number that nothing bears yet. A restart of the server under a living source starts the numbers
again, which is why the property excepts it.

**Video_proofs, the viewer.** For any receivers and endpoints: `NoneLeftOpen`. The invariant
(`SessionHeld`) knows of each receiver whether its thread will look at `_stop` again: one with an open
session has a thread past its handshake; one that is not the current receiver any more is at that
very look; and a receiver given up while its thread is still connecting has been told to stop.
`_stop_video` sets `_stop` before it waits (`StopTold`), which is what makes the wait of three seconds
safe to give up.

**Broker_proofs.** For any clients, ports and expiry times: `PortsAreAccounted` and
`RoutesTogether`. The invariant of the first is `PortsTypeOK` with `PortsAccounted`, which is inductive by
itself: it says of coroutines what it says of pairs. `PortsClosed` and `PortsAged` are the two lemmas
that BYE, pruning, traffic and time share. The second speaks of the four tables of the relay by
token as one record (`Paired`), because pruning forgets any number of relays one after the other:
each keeps it (`DropKeeps`), and that the list of them is gone through to its end is an induction on
its length, by the least number for which it would fail (`Forgetting` is a recursive function for
that reason).

Some results are proved that no run lists: the type invariants of `ReplayWindow`, `Router`,
`InputPath`, `Sink`, `Sessions`, `HIDServer`, `AdapterManager`, `VideoConfig` and `Broker`,
`OneToOneAlways` and `CeilingHeld` of `Router`, `BitmapExact` and `AtMostOnce` of `ReplayWindow`. TLC
checks the replay properties through the refinement of `FreshChannel`.

**Only model-checked.** Liveness, which is out of the reach of these provers: `DepartedIsUnassigned`,
`NewestArrives`, `StopEndsAll`, `AdapterIsFreed`, `Converges`, `LinkIsShown`, `TicketsConverge`,
`SettingsArrive`, `OfferIsShown`, `WithdrawnEnds`, `FreezeEnds`, `EndsLevel`, `EndsTold`. Nothing is
proved of `SyncGovernor` and `SyncLatency`, whose properties are all of that kind.

---------------------------------------------------------------------------------------

## 6 Observations

What the models showed, or what came up while writing them, that a maintainer should know. Where
TLC shows one, the text says with what; no listed run expects a violation.

### Where the code does not do what a comment or docstring says

- **Held buttons of the departed.** When a client is reaped, `_maybe_maintenance` unassigns its
  adapters (`server/datapath.py:1373`) and then calls `_release_channels_for`, which visits only
  adapters still assigned to it: no neutral report is sent, although the comment says "Release any
  held input so the console does not latch it." The one way to a report is that the operator assigns
  an adapter to the departed client in between. DISCONNECT sends none at all. The keepalive repeats
  the last report. TLC shows it in `InputPath` with the invariant that, with both threads idle,
  `console[x]` belongs to a client with a session.
- **Dangling assignment.** Closing a transport unassigns a client and then drops its session
  (`server/datapath.py:315`). If the datapath is in auto_assign for that client in between, the
  adapter is assigned again and stays so with no session. Denying a client and changing the password
  unassign first and end sessions later too, and the operator's own assign looks the session up
  before it calls the router: `NoDanglingAssignment` fails with any one of "accepting", "deny",
  "password" and "assign" in `WebOps`, and with none of them it is proved.
- **Lost ACCEPT.** A client whose AUTH is answered, but whose ACCEPT is lost or late, sends the AUTH
  again; the randoms are gone (`server/sessions.py:538`), so it is refused as malformed although its
  session is open. A retransmitted HELLO may also replace the server's random under a proof already
  under way; the client is then told "Incorrect password." and counted by the rate limiter.
- **Relay prefix.** The server builds its relay prefix once (`server/rendezvous.py:456`). While it is
  relayed by token its registration expires, it is given another token afterwards, and the next
  relay by token is routed by the new one while the server frames with the old one. The docstring of
  `_allocate` says of this relay that it "carries one pair correctly" (`rendezvous/broker.py:635`).
- **The thread that accepts consoles can end.** `_serve_session` calls setblocking and settimeout on
  the new sockets before its `try` (`server/bt/hid.py:1051`), after a callback that saves the
  configuration. If the link is lost meanwhile the OSError ends `_accept_loop`, which its docstring
  says was rewritten so that no console can wedge it (817); none is accepted again until the adapter
  is restarted.
- **The adapter watcher can end.** `_reconcile_channels_locked` iterates the adapters with awaits
  inside (`server/bt/adapter.py:723`). A rescan by the operator meanwhile changes the dictionary, and
  the RuntimeError leaves `_watch_via_mgmt`, with the "10 s reconcile" that is called its safety
  net. TLC shows it in `AdapterManager` with "rescan" in `WebOps`.
- **A delay that went to zero is announced once.** The comment at `server/datapath.py:90` says that
  repetition keeps a player's readout from being wrong indefinitely, but only a delay that is not
  zero is repeated: a lost announcement of zero leaves the old figure. `EndsTold` without its
  condition fails.
- **Two threads, one control number.** `_queue_control`, "Safe to call from any thread", takes its
  number outside the lock (`client/net/transport.py:851`): two threads may share one, and one
  acknowledgement then removes both messages.
- **Errors of connect.** `ClientTransport.connect` "blocks until connected or raises TransportError",
  but lets the OSError of getaddrinfo and sendto through (`client/net/transport.py:268`). A video receiver's thread ends in
  CONNECTING, which nobody retries; the gameplay connection does not catch it either.
- **A stale advert.** "A lost advert costs a few seconds rather than the feature"
  (`server/datapath.py:1119`), since clients ask again while they know of no video, but a client that holds an advert of a source withdrawn since goes on
  trying it (`client/gui/app.py:2188`).
- **Broken chains that ask for nothing.** `gap_detected` (`common/video.py:394`) reports frames given up
  in part. Frames lost whole, overtaken or overwritten in `_pending_frame` break the chain as well;
  `FreezeEnds` holds because empty frames are counted and ask for a keyframe in the end.

### Datapath, routing and sessions

- handle_auth verifies without the lock. While set_password holds it, a verified AUTH waits, and
  then opens a session under the old key (`server/sessions.py:612`). `AtMostOneStale` bounds this:
  it happens to one session at most.
- auto_assign picks a free channel and calls assign, which takes the lock later
  (`server/router.py:285`); if the operator assigns that adapter in between, auto_assign takes it
  away again.
- A reassignment between the datapath's reads and its write lets one report of the former
  owner through (`server/datapath.py:726`, `741`).
- Two inputs reordered inside the replay window leave the older one in force until the client's next
  repetition: their sequence numbers are not compared (`server/datapath.py:681`).
- update_address removes the old address whoever holds it by now (`server/sessions.py:847`).
- The server's own control messages are sent once: a lost CAPACITY leaves a client's slots wrong
  (`server/datapath.py:1297`). send_rumble decides without a lock and sends later (`1470`).
- Of two quick changes of one setting the client may send the first again after the second was
  applied (`client/net/transport.py:876`); rumble, announced at connect and switched right after,
  can end the wrong way round.
- Sessions that do not play may fill `max_clients + 4` places together with the players', so
  viewers can take the room that the players' own ceiling leaves.
- handle_auth drops the client's previous session before it finds the server full
  (`server/sessions.py:596`), so a refused reconnection ends the old session too.
- A REJECT that answers HELLO is skipped by the client, which waits for CHALLENGE: version
  mismatch and rate limiting end as a timeout (`client/net/transport.py:515`).

### Sink and HID server

- A subcommand's reply goes through the buffer that holds the newest state. If that state was put
  off by EAGAIN, the reply replaces it and it is never sent (`server/bt/hid.py:1114`, `329`), although
  send_input_report promises that "the writer thread will transmit it as soon as the link drains"
  (`290`): with "reply" in `Ops`, `NewestIsKept` and `NewestArrives` fail.
- A thread whose write found a dead link calls detach after releasing the lock; a console that
  attached meanwhile loses its new link (`server/bt/hid.py:247`, `300`).
- A reply that read no delay line before sync latency was switched on is written straight to the
  link, past reports still held (`server/bt/hid.py:307`, `452`).
- Turning sync latency off waits to be written; if the console is replaced between taking the
  line and writing its newest report, the new console receives it (`server/bt/hid.py:198`,
  `479`). With "off" in `Ops` and two sessions `NothingInherited` fails: attach and detach clear the
  line of the sink, and the one being drained is no longer it.
- A writer that detaches its own session may live on into the next one (`server/bt/hid.py:204`), and
  the datapath's detach waits for a writer up to a second on the hot path.
- A dial that is under way while a pairing window opens sets again the target that the window has
  just forgotten.

### Sync latency

- After the ceiling is lowered by less than the deadband, the delay in force stays above it
  (`server/sync_latency.py:193`).
- DISCONNECT and deny do not call `forget`, only the reaper does (`server/datapath.py:1375`), so the
  count of levelled players includes some that have left. `EndsLevel` shows that nothing else does.
- An answer later than sixteen probes takes the send time of a newer probe (`server/sessions.py:277`)
  and gives a round trip too small; the docstring says 0 "if we did not".

### Adapter manager

- A dongle that is pulled out and put back finds its old HID server in `_hid_servers`
  (`server/bt/adapter.py:507`): its new channel gets no sink, and it is not tried again.
- A console that connects ends the pairing window's clock (`server/bt/adapter.py:2351`), so nobody
  switches Discoverable off; a request to pair may also race one to disable.
- An operator's disable is undone by what is saved late: `_remember_host` (2396), `_assign_number`
  (3250), `set_profile` (2659). A dongle never enabled is enabled by its first bring-up, and a
  fifth dongle gets the number 0.
- `sleep_all` and `reset_all` say that they leave the controllers switched off
  (`server/bt/adapter.py:2157`, `2228`); on Classic the radio stays connectable and the console may
  come back at once.

### Video

- A server restarted under a living source numbers its configurations from 1 again, and the source
  reports the last number of its earlier life: the registry may take a configuration as applied that
  was not (`server/video.py:190`, `395`). `AdvertsAreKnown` without `~reborn` fails.
- An older VIDEO_CONFIG sent again after a newer one drops a viewer, or lets a withdrawn ticket in,
  until the next push. An error while settings are applied returns without recording the number
  (`videoserver/control.py:209`), but the transport has the message acknowledged: the owed block is
  lost, and an older configuration that comes again may leave its settings over those of a newer one
  without being reported. With a step for that error in `VideoConfig`, `SettingsArrive` fails. A source that never reports its settings is pushed to every two
  seconds for ever.
- A request to forget what detection has learned is queued with the comment "Reliably queued: a reset
  replaced by the next periodic push before it was acknowledged would be lost without a word"
  (`server/videolink.py:314`). The next push does replace it: `queue_control_replacing` drops every
  unacknowledged message of the same op, the reset's too (`client/net/transport.py:861`).
- `_disconnect` stops the video before the input loop, so an advert may be stored after it.

### Broker

- While a server is relayed by token it disappears from its room and from the listing, because
  its REGISTERs are forwarded; new clients are told that the other side never appeared
  (`rendezvous/broker.py:371`).
- A client that went silent takes its token's partner with it when it expires, although the
  server's token may have been paired with another client since; that client's relay goes dead
  towards it (`rendezvous/broker.py:774`).
- The "relaying" answer of a relay by token is sent once: the client's retries are forwarded,
  so if it is lost the client gives up (`rendezvous/broker.py:732`).
- `_tokens` keeps the entry of a peer that expires without ever being relayed
  (`rendezvous/broker.py:230`).

---------------------------------------------------------------------------------------

## 7 What is not modelled in the modelled parts

- *ReplayWindow*: the cipher. A datagram is its counter; forged ones fail decryption before
  the window sees them.
- *Router*: the mirror of user names on channels, which is display data.
- *InputPath*: control messages other than SET_CONTROLLERS, heartbeats and statistics, rumble,
  sync latency (in `Sink` and `SyncLatency`), video. Several transports at once: one with its gate is modelled.
  Pairs of sessions of one client: `CreateSession` replaces, as `Sessions` does in detail.
- *Sink*: the release of a departing player with `discard_delayed` (`server/datapath.py:1390`), which
  the reaper does not reach (section 6); a policy without keepalive, under which the writer would not
  look at a clean sink and held reports would stay (`server/bt/hid.py:396`), but which nothing in the
  server asks for; `MockSink`, statistics, the setting of socket options, the writer of an earlier
  session that outlives `detach`'s join by more than a second.
- *Sessions*: the video server's tickets and viewer password, approval, the move of a session
  to another address, the silence that makes the reaper take a session (any session may be
  taken at any time instead), more than one datapath.
- *Broker*: several rooms and MAX_ROOMS, listings, the local and STUN addresses of an
  introduction, a peer whose address moves, the exception path of `_allocate`, which does what
  `NoPortLeft` does, and the turn of the loop after which a closed socket is really closed. That
  whatever is idle is pruned in the end is not checked as liveness: it would need the fairness
  of housekeeping and of time, on a state graph too large for it here.
- *FrameAssembly*, *MediaChannel*: sound, the receiver's queue of frames, the control of the bit
  rate, the wrap of frame numbers after 2^31 frames, the caps on sizes (a slice that breaks one is
  dropped before the assembler).
- *HIDServer*: what suspends reconnecting (left to choice), BLE, the contents of channels. The
  detection of `stop` is one step with the closing of what it finds.
- *AdapterManager*: BLE adapters, changes of identity, the tuner, SDP records and the
  pairing agent, suspend_reconnect, Discoverable; `_ensure_connectable` is one step. A fresh
  install chooses its adapters by index and not in the order of the registry
  (`server/bt/adapter.py:520`), and `ReadLinks` reads the links of the adapter itself; `NoteLink`
  does go by the index of the last rescan.
- *VideoConfig*: several clients' tickets at once, the preview, sound devices; the block of
  settings is one value; an error while settings are applied, with which `SettingsArrive` would not
  hold (section 6).
- *VideoViewing*: the direct and relayed rungs of a connection, sound, statistics, the window itself.
- *SyncGovernor*, *SyncLatency*: probes, the window of round trips and its median, rounding of what is
  told, the name of the slowest player, which is told besides, the report to the web interface.

The map covers about a tenth of the implementation. Most of the rest is windows, rendering, codecs,
image processing, Bluetooth encodings and web pages, listed in section 1 with the reason; what has
state and concurrency of its own and is still missing is in the plan.

---------------------------------------------------------------------------------------

## 8 Plan

The order follows what a player would notice first.

| # | Module | Models | Composes with | Abstract specification | Properties | To prove |
|---|---|---|---|---|---|---|
| 1 | `ControlChannel` | the client's queue, retransmission every 500 ms, acknowledgement; two calling threads and their shared sequence number; the server's messages sent once | `ReplayWindow` as its network | a log of settings whose last entry is in force | a queued message is applied; acknowledged means applied; the last setting wins (expected to fail when the first of two is sent again) | acknowledged means applied |
| 2 | `Rumble` | consent, slot and assignment read without a lock, throttle, feedback path | `ControlChannel`, `Router` | none | no rumble after consent is withdrawn and applied | the same |
| 3 | `Rebinding` | moves of a session's address, old packets arriving after new ones | `ReplayWindow`, `Sessions` | a map from live sessions to their newest address | index and sessions agree; a live session can be found; a replay never moves a session | index and sessions agree |
| 4 | `VideoSessions` | tickets against live viewers, one controlling session | `Sessions` | none | a viewer without a ticket is dropped; one controlling session | the latter |
| 5 | `HolePunch` | registration, introduction, probing, relay, STUN | `Broker` | none | both peers end connected or told so (liveness) | none |
| 6 | `AdapterManager`, more of it | changes of identity, BLE adapters | `HIDServer` | one server per adapter in use | channels and servers agree when idle | the same |

Runs that this adds use two clients (or a client and a web thread), one or two messages each,
two losses and one duplicate at most, two adapters. Where an instance covers an earlier one
(Rebinding contains the replay window), the larger run takes the smaller one's place.

What the runs check of safety is proved for what is modelled; the proofs still to write are those
of the last column. That an idle pair's ports are free in the end is liveness of `Broker` to
model-check on one client.
