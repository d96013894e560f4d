---------------------------- MODULE VideoViewing ----------------------------
(***************************************************************************)
(* The video of one client: adverts that tell it where the source is       *)
(* (server/datapath.py), the GUI's tick that starts, retries and stops the *)
(* stream (client/gui/app.py, _tick_video), the receiver's thread          *)
(* (client/net/video.py, VideoReceiver), and the keyframe requests that    *)
(* bring a picture back (client/media/decoder.py, videoserver/encode.py).  *)
(*                                                                         *)
(* Three threads of the client meet here: the input loop, which stores an  *)
(* advert; the GUI, whose _stop_video waits for the third; and the         *)
(* receiver's, of which an older one may still be at its handshake.        *)
(* The encoder, the network and the decoder handle one frame at a time.    *)
(***************************************************************************)
EXTENDS Integers, FiniteSets

CONSTANTS Endpoints,     \* where the source may be, with the ticket for it
          NoVideo,       \* available = False, or no advert at all
          Receivers,     \* VideoReceiver objects, used again when both they and
                         \* their thread are gone
          None,
          StarvedLimit   \* _STARVED_FRAMES_BEFORE_IDR

ASSUME ViewingAssumption ==
    /\ NoVideo \notin Endpoints /\ None \notin Receivers
    /\ StarvedLimit \in Nat \ {0}

Adverts == Endpoints \cup {NoVideo}

VARIABLES
    offer,      \* what _advert_for answers this client now
    inFlight,   \* VIDEO_SOURCE messages on their way
    connected,  \* the game session
    video_source, \* _video_source
    gui,        \* the GUI thread: where it is in _stop_video, why, and the advert
                \* that a tick which retries has read and will put back
    receiver,   \* _video_receiver
    rx,         \* of each VideoReceiver: its thread, the endpoint it was given,
                \* _stop and state
    open,       \* receivers whose transport has a session
    served,     \* those of them the source sends to
    picture     \* of the stream: the decoder's reference chain, its starved count,
                \* a frame lost in part, the last request, for as long as the
                \* throttle counts it, and the encoder's _idr_requested

viewerVars == <<offer, inFlight, connected, video_source, gui, receiver, rx, open, served, picture>>
serverVars == <<offer, inFlight>>
streamVars == <<rx, open, served, picture>>

Unused == [thread |-> "none", at |-> NoVideo, stop |-> FALSE,
           state |-> "DISCONNECTED"]
NoPicture == [chain |-> "empty", starved |-> 0, torn |-> FALSE,
              request |-> "none", idr |-> FALSE]
Idle == [at |-> "idle", why |-> "none", seen |-> NoVideo]

ViewerInit ==
    /\ offer \in Adverts
    /\ inFlight = {}
    /\ connected = FALSE
    /\ video_source = NoVideo
    /\ gui = Idle
    /\ receiver = None
    /\ rx = [r \in Receivers |-> Unused]
    /\ open = {} /\ served = {}
    /\ picture = NoPicture

-----------------------------------------------------------------------------
(* The server.  Its messages are sent once: any may be lost. *)

Sent(o, lost) == inFlight' = IF lost \/ ~ connected THEN inFlight ELSE inFlight \cup {o}

\* broadcast_video_source: the source comes, moves or goes, the ticket is known to it or
\* no longer, or something changes for others.  _answer_video_query to a VIDEO_QUERY
\* that comes late or twice is the same without a change.
Broadcast(o, lost) ==
    /\ offer' = o
    /\ Sent(o, lost)
    /\ UNCHANGED <<connected, video_source, gui, receiver, streamVars>>

\* _on_server_control, on the input loop's thread.
Deliver(a) ==
    /\ connected /\ a \in inFlight
    /\ inFlight' = inFlight \ {a}
    /\ video_source' = a
    /\ UNCHANGED <<offer, connected, gui, receiver, streamVars>>

-----------------------------------------------------------------------------
(* The GUI thread. *)

\* _connect.  Its VIDEO_QUERY is sent until it is acknowledged, and answered at some
\* time by a Broadcast.
ConnectToServer ==
    /\ ~ connected
    /\ connected' = TRUE
    /\ UNCHANGED <<serverVars, video_source, gui, receiver, streamVars>>

\* Mutant: asked again only while there is a receiver, which is when nobody needs it.
TickQueryWhileViewing(lost) ==
    /\ connected /\ gui = Idle
    /\ video_source = NoVideo /\ receiver # None
    /\ Sent(offer, lost)
    /\ UNCHANGED <<offer, connected, video_source, gui, receiver, streamVars>>

\* _maybe_requery_video, and the answer.
TickQuery(lost) ==
    /\ connected /\ gui = Idle
    /\ video_source = NoVideo /\ receiver = None
    /\ Sent(offer, lost)
    /\ UNCHANGED <<offer, connected, video_source, gui, receiver, streamVars>>

\* _start_video.
TickStart(r) ==
    /\ connected /\ gui = Idle
    /\ video_source # NoVideo /\ receiver = None
    /\ rx[r] = Unused
    /\ receiver' = r
    /\ rx' = [rx EXCEPT ![r] = [thread |-> "connecting", at |-> video_source, stop |-> FALSE,
                                state |-> "CONNECTING"]]
    /\ picture' = NoPicture
    /\ UNCHANGED <<serverVars, connected, video_source, gui, open, served>>

\* _stop_video reaches VideoReceiver.close, which sets _stop and joins the thread.
Stopping(why) ==
    /\ gui' = [at |-> "stopping", why |-> why,
                seen |-> IF why = "retry" THEN video_source ELSE NoVideo]
    /\ rx' = [rx EXCEPT ![receiver].stop = TRUE]
    /\ UNCHANGED <<serverVars, connected, video_source, receiver, open, served, picture>>

TickWithdrawn == connected /\ gui = Idle /\ receiver # None /\ video_source = NoVideo /\ Stopping("withdrawn")

TickRetry ==
    /\ connected /\ gui = Idle /\ receiver # None
    /\ video_source # NoVideo /\ rx[receiver].state = "FAILED"
    /\ Stopping("retry")

\* _disconnect: by the player, or by the tick that finds the connection lost.
Disconnect == connected /\ gui = Idle /\ receiver # None /\ Stopping("disconnect")

DisconnectIdle ==
    /\ connected /\ gui = Idle /\ receiver = None
    /\ gui' = [Idle EXCEPT !.at = "leaving"]
    /\ video_source' = NoVideo
    /\ UNCHANGED <<serverVars, connected, receiver, streamVars>>

Ended(r) == rx[r].thread \in {"done", "dead"}

\* Mutant: the transport stays open.
ClosedLeavingOpen(r) ==
    /\ rx' = [rx EXCEPT ![r] = Unused]
    /\ UNCHANGED <<open, served>>

\* The thread has ended and close closes the transport.
Closed(r) ==
    /\ rx' = [rx EXCEPT ![r] = Unused]
    /\ open' = open \ {r} /\ served' = served \ {r}

\* The join times out on a thread that is at its handshake: it ends by itself.
LeftBehind(r) == rx[r].thread = "connecting" /\ UNCHANGED <<rx, open, served>>

StopEnds ==
    /\ gui.at = "stopping"
    /\ \/ Ended(receiver) /\ Closed(receiver)
       \/ LeftBehind(receiver)
    /\ receiver' = None
    /\ video_source' = NoVideo
    /\ picture' = NoPicture
    /\ gui' = CASE gui.why = "retry" -> [gui EXCEPT !.at = "restoring"]
                [] gui.why = "disconnect" -> [Idle EXCEPT !.at = "leaving"]
                [] gui.why = "withdrawn" -> Idle
    /\ UNCHANGED <<serverVars, connected>>

\* The advert the tick began with is put back, over one that came meanwhile.
TickRestore ==
    /\ gui.at = "restoring"
    /\ video_source' = gui.seen
    /\ gui' = Idle
    /\ UNCHANGED <<serverVars, connected, receiver, streamVars>>

\* The rest of _disconnect: the input loop ends, the transport is closed.
Leave ==
    /\ gui.at = "leaving"
    /\ gui' = Idle
    /\ connected' = FALSE
    /\ inFlight' = {}
    /\ UNCHANGED <<offer, video_source, receiver, streamVars>>

Gui == \/ TickWithdrawn \/ TickRetry \/ StopEnds \/ TickRestore \/ Leave
       \/ \E r \in Receivers : TickStart(r)

-----------------------------------------------------------------------------
(* The receiver's thread: _run. *)

\* A thread left behind ends with nobody to hear of it.
After(r, thread, state) ==
    IF r # receiver /\ thread = "done" THEN Unused
    ELSE [rx[r] EXCEPT !.thread = thread, !.state = state]

\* An attempt of the ladder, begun before _stop was looked at, reaches the source.
Connects(r) ==
    /\ rx[r].thread = "connecting"
    /\ rx[r].at = offer
    /\ rx' = [rx EXCEPT ![r].thread = "connected"]
    /\ open' = open \cup {r} /\ served' = served \cup {r}
    /\ picture' = IF r = receiver THEN [picture EXCEPT !.idr = TRUE] ELSE picture
    /\ UNCHANGED <<serverVars, connected, video_source, gui, receiver>>

\* The attempts of the ladder (lan_host, host, broker) fail one by one: _stop, seen
\* before the next, ends the thread without a word, and the last leaves FAILED.
AttemptFails(r) ==
    /\ rx[r].thread = "connecting"
    /\ \E state \in {"FAILED"} \cup (IF rx[r].stop THEN {rx[r].state} ELSE {}) :
           rx' = [rx EXCEPT ![r] = After(r, "done", state)]
    /\ UNCHANGED <<serverVars, connected, video_source, gui, receiver, open, served, picture>>

\* An OSError of the name look-up or of sendto is no TransportError: it ends the
\* thread and leaves the state at CONNECTING.
AttemptRaises(r) ==
    /\ rx[r].thread = "connecting"
    /\ rx' = [rx EXCEPT ![r] = IF r = receiver THEN [rx[r] EXCEPT !.thread = "dead"] ELSE Unused]
    /\ UNCHANGED <<serverVars, connected, video_source, gui, receiver, open, served, picture>>

\* Mutant: close() during the handshake is not looked at again.
HonoursStopLate(r) == FALSE

\* close() may have been called meanwhile.
HonoursStop(r) == rx[r].stop

Connected(r) ==
    /\ rx[r].thread = "connected"
    /\ IF HonoursStop(r)
       THEN /\ rx' = [rx EXCEPT ![r] = After(r, "done", "DISCONNECTED")]
            /\ open' = open \ {r} /\ served' = served \ {r}
            /\ UNCHANGED picture
       ELSE /\ rx' = [rx EXCEPT ![r].thread = "streaming", ![r].state = "STREAMING"]
            /\ picture' = [picture EXCEPT !.request = "sent"]
            /\ UNCHANGED <<open, served>>
    /\ UNCHANGED <<serverVars, connected, video_source, gui, receiver>>

StreamEnds(r, state) ==
    /\ rx' = [rx EXCEPT ![r] = After(r, "done", state)]
    /\ picture' = NoPicture
    /\ UNCHANGED <<serverVars, connected, video_source, gui, receiver, open, served>>

LoopStops(r) == rx[r].thread = "streaming" /\ rx[r].stop /\ StreamEnds(r, rx[r].state)

\* No media for _STALL_AFTER_NS: STALLED, and a request that no throttle holds back.
Stalls(r) ==
    /\ rx[r].thread = "streaming" /\ rx[r].state = "STREAMING"
    /\ rx' = [rx EXCEPT ![r].state = "STALLED"]
    /\ picture' = [picture EXCEPT !.request = "sent"]
    /\ UNCHANGED <<serverVars, connected, video_source, gui, receiver, open, served>>

\* No media for _FAIL_AFTER_NS, or the transport has heard that its session is over.
GivesUp(r) ==
    /\ rx[r].thread = "streaming"
    /\ rx[r].state = "STALLED" \/ r \notin served
    /\ StreamEnds(r, "FAILED")

\* The source closes the session.
SourceLeaves(r) ==
    /\ r \in served
    /\ served' = served \ {r}
    /\ UNCHANGED <<serverVars, connected, video_source, gui, receiver, rx, open, picture>>

Thread(r) ==
    \/ AttemptFails(r)
    \/ Connected(r)
    \/ LoopStops(r)
    \/ r \notin served /\ (Stalls(r) \/ GivesUp(r))

-----------------------------------------------------------------------------
(* The picture. *)

Viewing(r) == r = receiver /\ rx[r].thread = "streaming"

\* _request_idr with its throttle, _IDR_MIN_INTERVAL_NS.
Ask(p) == IF p.request # "none" THEN p ELSE [p EXCEPT !.request = "sent"]

\* Media in _handle_slice: the gap of a frame lost in part is noticed at the next one.
Noticed(p) == IF p.torn THEN Ask([p EXCEPT !.torn = FALSE]) ELSE p

\* Mutant: only an error of the decoder counts, never a run of empty frames.
StarvedNotCounted(p) == p

\* A frame that gave no picture: at the limit the codec is reset and a keyframe
\* asked for.
Starved(p) ==
    IF p.starved + 1 = StarvedLimit
    THEN Ask([p EXCEPT !.starved = 0, !.chain = "empty"])
    ELSE [p EXCEPT !.starved = @ + 1]

\* VideoDecoder._run.  Without all it refers to, a frame may give a damaged picture,
\* nothing, or an error that resets the codec; after a reset, nothing.
Decoded(p, key) ==
    IF key THEN {[p EXCEPT !.chain = "good", !.starved = 0]}
    ELSE CASE p.chain = "good" -> {[p EXCEPT !.starved = 0]}
           [] p.chain = "damaged" -> {[p EXCEPT !.starved = 0], Starved(p),
                                      Starved([p EXCEPT !.chain = "empty"])}
           [] p.chain = "empty" -> {Starved(p)}

\* A keyframe is encoded for a request, _take_idr_request, or because it is time.
Encoded(p, key) == IF key THEN [p EXCEPT !.idr = FALSE] ELSE p

Revived(r) == IF rx[r].state = "STALLED" THEN [rx EXCEPT ![r].state = "STREAMING"] ELSE rx

FrameArrives(r, key) ==
    /\ Viewing(r) /\ r \in served
    /\ picture' \in Decoded(Noticed(Encoded(picture, key)), key)
    /\ rx' = Revived(r)
    /\ UNCHANGED <<serverVars, connected, video_source, gui, receiver, open, served>>

\* A frame lost: in the sender's place for one, on the network, or for a newer one
\* in the queue before the decoder.
Broken(p) == [p EXCEPT !.chain = IF @ = "good" THEN "damaged" ELSE @]

FrameLost(r, key) ==
    /\ Viewing(r) /\ r \in served
    /\ picture' = Broken(Encoded(picture, key))
    /\ UNCHANGED <<serverVars, connected, video_source, gui, receiver, rx, open, served>>

FrameTorn(r, key) ==
    /\ Viewing(r) /\ r \in served
    /\ picture' = [Broken(Encoded(Noticed(picture), key)) EXCEPT !.torn = TRUE]
    /\ rx' = Revived(r)
    /\ UNCHANGED <<serverVars, connected, video_source, gui, receiver, open, served>>

\* The player turns hardware decoding on or off: a new decoder.
SwitchDecoder(r) ==
    /\ Viewing(r)
    /\ picture' = Ask([picture EXCEPT !.chain = "empty"])
    /\ UNCHANGED <<serverVars, connected, video_source, gui, receiver, rx, open, served>>

\* _handle_idr_request and VideoEncoder.request_idr.
RequestArrives ==
    /\ picture.request = "sent"
    /\ picture' = [picture EXCEPT !.request = "gone", !.idr = TRUE]
    /\ UNCHANGED <<serverVars, connected, video_source, gui, receiver, rx, open, served>>

RequestLost ==
    /\ picture.request = "sent"
    /\ picture' = [picture EXCEPT !.request = "gone"]
    /\ UNCHANGED <<serverVars, connected, video_source, gui, receiver, rx, open, served>>

\* The interval passes.
CoolDown ==
    /\ picture.request = "gone"
    /\ picture' = [picture EXCEPT !.request = "none"]
    /\ UNCHANGED <<serverVars, connected, video_source, gui, receiver, rx, open, served>>

-----------------------------------------------------------------------------
ViewerNext ==
    \/ \E o \in Adverts, lost \in BOOLEAN : Broadcast(o, lost)
    \/ \E lost \in BOOLEAN : TickQuery(lost)
    \/ \E a \in Adverts : Deliver(a)
    \/ ConnectToServer \/ Disconnect \/ DisconnectIdle
    \/ Gui
    \/ \E r \in Receivers : \/ Thread(r) \/ Connects(r) \/ AttemptRaises(r)
                            \/ Stalls(r) \/ GivesUp(r) \/ SourceLeaves(r) \/ SwitchDecoder(r)
                            \/ \E key \in BOOLEAN : \/ FrameArrives(r, key)
                                                    \/ FrameLost(r, key) \/ FrameTorn(r, key)
    \/ RequestArrives \/ RequestLost \/ CoolDown

ViewerSpec == ViewerInit /\ [][ViewerNext]_viewerVars

KeyframeArrives == \E r \in Receivers : picture.idr /\ FrameArrives(r, TRUE)
DeltaArrives == \E r \in Receivers : FrameArrives(r, FALSE)

(* Every thread goes on, and the network lets through what is sent again   *)
(* and again: answers, attempts, requests and frames of either kind.  A    *)
(* keyframe without a request is allowed but not relied upon.              *)
FairSpec ==
    /\ ViewerSpec
    /\ WF_viewerVars(Gui)
    /\ \A r \in Receivers : WF_viewerVars(Thread(r))
    /\ \A a \in Adverts : WF_viewerVars(Deliver(a))
    /\ SF_viewerVars(TickQuery(FALSE))
    /\ SF_viewerVars(\E r \in Receivers : r = receiver /\ Connects(r))
    /\ WF_viewerVars(CoolDown)
    /\ SF_viewerVars(RequestArrives)
    /\ SF_viewerVars(KeyframeArrives) /\ SF_viewerVars(DeltaArrives)

-----------------------------------------------------------------------------
\* No session is left that nobody will close: one that is open belongs to the current
\* receiver or to a thread that is still to look at _stop.
OpenIsHeld == \A r \in open : r = receiver \/ rx[r].thread = "connected"

\* The advert the client goes by, restored ones included.
Known == CASE gui.at = "restoring" -> gui.seen
           [] gui.at = "stopping" /\ gui.why = "retry" -> gui.seen
           [] OTHER -> video_source

Shown(e) == receiver # None /\ rx[receiver].state = "STREAMING" /\ rx[receiver].at = e
Dead == receiver # None /\ rx[receiver].thread = "dead"

\* A client that knows of no video learns of what is offered, and one that knows it is
\* shown it, however often attempts and answers fail, unless the offer changes, the
\* player leaves, it goes by an older advert, or an OSError has ended the thread.
OfferIsShown ==
    \A e \in Endpoints :
        (connected /\ offer = e /\ Known \in {NoVideo, e})
            ~> (Shown(e) \/ Dead \/ ~ connected \/ offer # e \/ Known \notin {NoVideo, e})

\* A video that is withdrawn, or a game that is left, leaves no session open.
WithdrawnEnds ==
    (~ connected \/ Known = NoVideo) ~> (open = {} \/ (connected /\ Known # NoVideo))

\* A stream that gives no picture gets a keyframe by asking, whatever was lost, or ends.
Dark == receiver # None /\ rx[receiver].thread = "streaming" /\ picture.chain = "empty"

FreezeEnds == Dark ~> ~ Dark
=============================================================================
