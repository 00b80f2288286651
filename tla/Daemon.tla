------------------------------- MODULE Daemon -------------------------------
(***************************************************************************)
(* A daemon as App.Run wires it: the watcher's callback is BroadcastLocal, *)
(* and what clients and peers deliver is written with LocalWrite.  The     *)
(* watcher polls: a tick may come at any moment, so its checks come at     *)
(* least whenever signals could start them.                                *)
(*                                                                         *)
(* Watcher and Hub are instantiated side by side.  They meet in three      *)
(* places: the watcher's goroutine is in the hub while it broadcasts, a    *)
(* connection's goroutine is in the watcher while it writes, and so is the *)
(* goroutine that reads from a peer.                                       *)
(***************************************************************************)
EXTENDS Content, FiniteSets

CONSTANTS
    Backend, Copies, ToolsFail,                 \* see Watcher
    Conns, Peers, Watch, Api, None, MaxClients, \* see Hub
    Stalled, Messages, ApiClips, Oversize, MaxClips,
    MaxInputs       \* bound on clips from the user, clients, peers and the API

VARIABLES
    clipboard, owner, copies, clipMu, pending, writes,      \* see Watcher
    run, listed, seen, lastHash, skipHash, reported,
    pc, work, entry, up, clients, peers, mu, todo,          \* see Hub
    lastBroadcast, lastIn, log, got, entered,
    writer,     \* the goroutine in LocalWrite
    shows,      \* the hash of the clip a client last sent or received
    inputs,     \* the clips that entered, the one there at the start first
    unwritten,  \* those whose write to the clipboard failed
    calm,       \* each entered when nothing was going on, and none repeats
    sound       \* every read so far returned the copy or the clip as it reads

\* What may be on the clipboard: a copy of the user, or a clip delivered.
Offers == Copies \cup {Written(MsgToContent(m)) : m \in {n \in Messages : Decodable(n)}}
\* What can be read of it, whole or torn, or when tools fail.
Local ==
    UNION {Fetch(Backend, Listed(Backend, before), offer) \cup Misread(Backend, offer) :
              before \in Offers, offer \in Offers}

H == INSTANCE Hub WITH LocalClips <- Local
\* While it polls, the watcher has no notifier: ~TRUE is a FALSE TLC can prime.
W == INSTANCE Watcher WITH
        notifier <- "off", events <- 0, notify <- ~TRUE, cancelled <- ~TRUE, mu <- clipMu, pc <- run,
        Notifiers <- {"off"}, Remote <- H!RemoteClips,
        MaxCopies <- MaxInputs + 1, MaxWrites <- MaxInputs

\* The goroutines are told apart, and the parts get what they assume.
ASSUME DaemonAssumption ==
    /\ Backend \in Backends
    /\ ToolsFail \in BOOLEAN
    /\ Conns \cap Peers = {} /\ {Watch, Api} \cap (Conns \cup Peers) = {} /\ Watch # Api
    /\ None \notin Conns \cup Peers \cup {Watch, Api}
    /\ MaxClients \in Nat /\ MaxClips \in Nat /\ MaxInputs \in Nat
    /\ Oversize \subseteq H!Clips

history == <<shows, inputs, unwritten, calm, sound>>
watcher == <<clipboard, owner, copies, clipMu, pending, writes, run, listed, seen,
             lastHash, skipHash, reported>>
hub == <<pc, work, entry, up, clients, peers, mu, todo, lastBroadcast, lastIn, log, got, entered>>
vars == <<watcher, hub, writer, history>>

Shown == CHOOSE c \in Read(Backend, clipboard) : TRUE
Sources == {"start", "user", "client", "peer", "api"}
Input(x, via) == [clip |-> x, via |-> via]

Init ==
    /\ W!Init
    /\ H!Init
    /\ writer = None
    /\ shows = [c \in Conns |-> NoHash]
    /\ inputs = <<Input(Shown, "start")>>
    /\ unwritten = {}
    /\ calm = TRUE
    /\ sound = TRUE

\* Nothing is under way: no clip is handled, written or unread.
Settled ==
    /\ mu = None /\ \A p \in H!Threads : ~H!Busy(p)
    /\ run = "select" /\ clipMu = "free"
    /\ lastHash = hashContent(Shown)

Enters(x, via) ==
    /\ Len(inputs) <= MaxInputs
    /\ inputs' = Append(inputs, Input(x, via))
    /\ calm' = (calm /\ Settled /\ \A i \in 1..Len(inputs) : inputs[i].clip # x)

----------------------------------------------------------------------------
(* The watcher's goroutine *)

WatcherStays == UNCHANGED <<watcher, writer, unwritten, sound>>
HubStays == UNCHANGED <<hub, shows>>
NoInput == UNCHANGED <<inputs, calm>>

\* What is copied before the first snapshot was there at the start.
UserCopy(offer) ==
    /\ W!UserCopy(offer)
    /\ Enters(CHOOSE c \in Read(Backend, offer) : TRUE, IF run \in {"init", "first"} THEN "start" ELSE "user")
    /\ HubStays
    /\ UNCHANGED <<writer, unwritten, sound>>

\* The watcher; Idle says that it is not in its callback.
Watches(step) ==
    /\ step
    /\ HubStays /\ NoInput
    /\ UNCHANGED <<writer, unwritten>>
Idle == pc[Watch] = "idle"

Snapshot ==
    \/ Idle /\ Watches(W!SnapshotList) /\ UNCHANGED sound
    \/ Idle /\ Watches(W!Snapshot) /\ sound' = (sound /\ seen'.whole)
Tick == Idle /\ Watches(W!Tick) /\ UNCHANGED sound
CheckList == Watches(W!CheckList) /\ UNCHANGED sound
CheckRead == Watches(W!CheckRead) /\ sound' = (sound /\ seen'.whole)
CheckDecide == Watches(W!CheckDecide) /\ UNCHANGED sound

\* The callback broadcasts what check read, whatever has been written since.
Report ==
    /\ W!OnChange
    /\ H!Report(seen.content)
    /\ NoInput
    /\ UNCHANGED <<writer, shows, unwritten, sound>>

----------------------------------------------------------------------------
(* writeRemote: a delivered clip is written with LocalWrite *)

\* Fault: the clip is written to the clipboard behind the watcher's back.
WriteUnmarked(c) ==
    /\ pc[c] = "apply"
    /\ W!SetClipboard(Written(work[c]), "daemon")
    /\ H!Apply(c)
    /\ NoInput
    /\ UNCHANGED <<copies, clipMu, pending, writes, run, listed, seen, lastHash, skipHash,
                   reported, writer, shows, unwritten, sound>>

\* A connection's goroutine takes w.mu and writes,
Write(c) ==
    /\ pc[c] = "apply"
    /\ W!WriteClip(work[c])
    /\ writer' = c
    /\ HubStays /\ NoInput
    /\ UNCHANGED <<unwritten, sound>>

\* marks what it wrote and goes on to relay it,
Mark(c) ==
    /\ writer = c
    /\ W!WriteMark
    /\ H!Apply(c)
    /\ writer' = None
    /\ NoInput
    /\ UNCHANGED <<shows, unwritten, sound>>

\* Fault: a clip that could not be written is not relayed.
WriteFailsReturns(c) ==
    /\ pc[c] = "apply"
    /\ W!WriteFails
    /\ H!Goto(c, "loop")
    /\ unwritten' = unwritten \cup {work[c]}
    /\ NoInput
    /\ UNCHANGED <<writer, shows, sound>>

\* or could not write, and relays it all the same.
WriteFails(c) ==
    /\ pc[c] = "apply"
    /\ W!WriteFails
    /\ H!Apply(c)
    /\ unwritten' = unwritten \cup {work[c]}
    /\ NoInput
    /\ UNCHANGED <<writer, shows, sound>>

\* A clip read from a peer is written but not relayed.
PeerWrite(q, m) ==
    /\ q \in peers /\ up[q]
    /\ Decodable(m)
    /\ W!WriteClip(MsgToContent(m))
    /\ Enters(MsgToContent(m), "peer")
    /\ writer' = q
    /\ HubStays
    /\ UNCHANGED <<unwritten, sound>>

PeerMark(q) ==
    /\ writer = q
    /\ W!WriteMark
    /\ writer' = None
    /\ HubStays /\ NoInput
    /\ UNCHANGED <<unwritten, sound>>

PeerWriteFails(q, m) ==
    /\ q \in peers /\ up[q]
    /\ Decodable(m)
    /\ W!WriteFails
    /\ Enters(MsgToContent(m), "peer")
    /\ unwritten' = unwritten \cup {MsgToContent(m)}
    /\ HubStays
    /\ UNCHANGED <<writer, sound>>

----------------------------------------------------------------------------
(* The rest of the hub *)

Handshake(c) == H!Handshake(c) /\ WatcherStays /\ NoInput /\ UNCHANGED shows

ReadClip(c, m) ==
    /\ H!ReadClip(c, m)
    /\ Enters(MsgToContent(m), "client")
    /\ shows' = [shows EXCEPT ![c] = hashContent(MsgToContent(m))]
    /\ WatcherStays

Serve(c) ==
    /\ H!ReadFails(c) \/ H!Leave(c) \/ H!Dedup(c)
    /\ WatcherStays /\ NoInput
    /\ UNCHANGED shows

Deliver(p, t) ==
    /\ H!Deliver(p, t)
    /\ shows' = IF t \in Conns THEN [shows EXCEPT ![t] = hashContent(work[p])] ELSE shows
    /\ WatcherStays /\ NoInput

Send(p) ==
    /\ \/ H!DropBig(p) \/ H!Begin(p) \/ H!Finish(p)
       \/ \E t \in H!Targets : H!Skip(p, t) \/ H!WriteFails(p, t)
    /\ WatcherStays /\ NoInput
    /\ UNCHANGED shows

ApiSend(x) == H!ApiSend(x) /\ Enters(x, "api") /\ WatcherStays /\ UNCHANGED shows

\* A link is taken out of the registry when its reader has returned.
Link(q) == writer # q /\ H!Link(q) /\ WatcherStays /\ NoInput /\ UNCHANGED shows
Environment == H!Environment /\ WatcherStays /\ NoInput /\ UNCHANGED shows

----------------------------------------------------------------------------
Watching == Snapshot \/ Tick \/ CheckList \/ CheckRead \/ CheckDecide \/ Report
LocalWrite(c) == Write(c) \/ Mark(c) \/ WriteFails(c)
PeerPush(q) == (\E m \in Messages : PeerWrite(q, m) \/ PeerWriteFails(q, m)) \/ PeerMark(q)
Sends(p) == Send(p) \/ \E t \in H!Targets : Deliver(p, t)

Next ==
    \/ \E offer \in Copies : UserCopy(offer)
    \/ Watching
    \/ \E c \in Conns : Handshake(c) \/ (\E m \in Messages : ReadClip(c, m)) \/ Serve(c) \/ LocalWrite(c)
    \/ \E p \in H!Threads : Sends(p)
    \/ \E x \in ApiClips : ApiSend(x)
    \/ \E q \in Peers : Link(q) \/ PeerPush(q)
    \/ Environment

Spec == Init /\ [][Next]_vars

----------------------------------------------------------------------------
(* Properties *)

\* The wiring keeps to the protocols of its parts: LocalWrite and the
\* callback are used as Watcher describes, and the hub sees no more of the
\* watcher than Hub allows, so what holds of each holds of the daemon.
WatcherSpec == W!Spec
HubSpec == H!Spec

Clip(i) == inputs[i].clip

\* A clip is meant for every client, unless it came from a peer, whose pushes
\* are not relayed (peer.go:136), or is an image of another client too big to
\* be relayed (broadcast.go:14-18).
MeantFor(i, c) ==
    /\ inputs[i].via # "peer"
    /\ inputs[i].via = "client" /\ Clip(i) \in Oversize => shows[c] = hashContent(Clip(i))

\* Clips that come one at a time and never repeat get everywhere: once the
\* daemon is settled, each client shows the newest clip that was meant for it,
\* from the user, the API, another client or itself, unless it has neither
\* sent nor received anything ("a copy on your desktop appears on your phone
\* (and vice versa)", README.md:5).  What failing tools made of a clip would
\* be broadcast in its place, so all reads must have been sound.
ClientsAgree ==
    calm /\ sound /\ Settled => \A c \in clients :
        up[c] /\ shows[c] # NoHash =>
            LET I == {i \in 1..Len(inputs) : MeantFor(i, c)}
            IN  \E i \in I : shows[c] = hashContent(Clip(i)) /\ \A j \in I : j <= i

\* Likewise the desktop holds the newest clip that was copied there or
\* delivered, unless its write failed, whatever failing tools make the daemon
\* broadcast meanwhile (app.go:121-135).
DesktopAgrees ==
    calm /\ Settled =>
        LET I == {i \in 1..Len(inputs) : inputs[i].via # "api" /\ Clip(i) \notin unwritten}
        IN  \E i \in I : Shown = Clip(i) /\ \A j \in I : j <= i

\* However clips race, with the callback outside the lock and relays after
\* the write: what a settled daemon has on its desktop was broadcast, unless
\* it was there at the start, came from a peer, or is an image too big to be
\* relayed (watch.go:133-148, handlers.go:131-145).
NothingUnsent ==
    Settled =>
        \/ \E i \in 1..Len(log) : log[i].clip = Shown
        \/ \E i \in 1..Len(inputs) : Clip(i) = Shown /\ inputs[i].via \in {"start", "peer"}
        \/ Shown \in Oversize
=============================================================================
