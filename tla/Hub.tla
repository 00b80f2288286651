-------------------------------- MODULE Hub --------------------------------
(***************************************************************************)
(* websocket.Server of one daemon: the goroutine that serves each inbound  *)
(* connection (handleWS, handleClient, handleClipboard), the goroutines    *)
(* that broadcast local changes (the watcher's callback and the API's send *)
(* handler), and the outbound peers as targets of a broadcast.             *)
(*                                                                         *)
(* s.mu guards the registries and lastBroadcast and is held for the whole  *)
(* of a broadcast; c.mu only makes one write or one record atomic, so a    *)
(* write is one step here.  Every wait for s.mu is a guard mu = None.      *)
(***************************************************************************)
EXTENDS Content, FiniteSets

CONSTANTS
    Conns,          \* inbound connections, each used once
    Peers,          \* configured outbound peers
    Watch, Api,     \* the goroutines that call BroadcastLocal
    None,           \* nobody
    MaxClients,     \* s.maxClients, 0 for no limit
    Stalled,        \* connections whose client has stopped reading
    Messages,       \* clipboard messages clients and peers send
    LocalClips,     \* contents the watcher reports
    ApiClips,       \* contents of API requests
    Oversize,       \* images above max_image_bytes
    MaxClips        \* bound on clips that enter the hub

Locals == {Watch, Api}
Threads == Conns \cup Locals
Targets == Conns \cup Peers

\* What MsgToContent makes of the messages the hub can decode.
RemoteClips == {MsgToContent(m) : m \in {n \in Messages : Decodable(n)}}
Clips == RemoteClips \cup LocalClips \cup ApiClips

ASSUME HubAssumption ==
    /\ Conns \cap Peers = {} /\ Conns \cap Locals = {} /\ Peers \cap Locals = {}
    /\ Watch # Api
    /\ None \notin Threads
    /\ MaxClients \in Nat /\ MaxClips \in Nat
    /\ Oversize \subseteq Clips

VARIABLES
    pc,             \* control state of each goroutine
    work,           \* the content it is handling
    up,             \* the connection to a target is open
    clients,        \* s.clients
    peers,          \* s.peers
    mu,             \* the goroutine that holds s.mu across steps
    todo,           \* the targets the broadcast in progress has not reached
    entry,          \* the position in log of a goroutine's broadcast
    lastBroadcast,  \* s.lastBroadcast
    lastIn,         \* c.lastInKey of each connection
    log, got,       \* broadcasts, and what each target received of them
    entered         \* number of clips that entered the hub

threads == <<pc, work, entry>>
registry == <<clients, peers>>
echo == <<lastBroadcast, lastIn>>
traffic == <<log, got>>
vars == <<threads, up, registry, mu, todo, echo, traffic, entered>>

ConnStates == {"new", "hello", "hook", "reply", "loop", "dedup", "apply", "relay",
               "send", "leave", "gone"}
LocalStates == {"idle", "relay", "send"}

Keys == {hashContent(x) : x \in Clips} \cup {NoHash}
Busy(p) == pc[p] \in {"dedup", "apply", "relay", "send"}

TypeOK ==
    /\ pc \in [Threads -> ConnStates \cup LocalStates]
    /\ \A c \in Conns : pc[c] \in ConnStates
    /\ \A p \in Locals : pc[p] \in LocalStates
    /\ work \in [Threads -> Clips \cup {Blank}]
    /\ \A p \in Threads : Busy(p) => work[p] \in Clips
    /\ entry \in [Threads -> Nat]
    /\ up \in [Targets -> BOOLEAN]
    /\ clients \in SUBSET Conns
    /\ peers \in SUBSET Peers
    /\ mu \in Threads \cup {None}
    /\ todo \in SUBSET Targets
    /\ lastBroadcast \in Keys
    /\ lastIn \in [Conns -> Keys]
    /\ log \in Seq([clip : Clips, by : Threads])
    /\ got \in [Targets -> Seq(Nat)]
    /\ entered \in 0..MaxClips

Init ==
    /\ pc = [p \in Threads |-> IF p \in Conns THEN "new" ELSE "idle"]
    /\ work = [p \in Threads |-> Blank]
    /\ entry = [p \in Threads |-> 0]
    /\ up = [t \in Targets |-> FALSE]
    /\ clients = {}
    /\ peers = {}
    /\ mu = None
    /\ todo = {}
    /\ lastBroadcast = NoHash
    /\ lastIn = [c \in Conns |-> NoHash]
    /\ log = <<>>
    /\ got = [t \in Targets |-> <<>>]
    /\ entered = 0

----------------------------------------------------------------------------
(* handleWS: admission *)

\* Fault: the limit is off by one.
FullLate == MaxClients > 0 /\ Cardinality(clients) > MaxClients
Full == MaxClients > 0 /\ Cardinality(clients) >= MaxClients

Accept(c) ==
    /\ pc[c] = "new"
    /\ mu = None
    /\ ~Full
    /\ clients' = clients \cup {c}
    /\ up' = [up EXCEPT ![c] = TRUE]
    /\ pc' = [pc EXCEPT ![c] = "hello"]
    /\ UNCHANGED <<work, entry, peers, mu, todo, echo, traffic, entered>>

\* A wrong token, a failed upgrade, or a full server: never registered.
Refuse(c) ==
    /\ pc[c] = "new"
    /\ pc' = [pc EXCEPT ![c] = "gone"]
    /\ UNCHANGED <<work, entry, up, registry, mu, todo, echo, traffic, entered>>

----------------------------------------------------------------------------
(* handleClient: the handshake *)

Goto(c, state) ==
    /\ pc' = [pc EXCEPT ![c] = state]
    /\ UNCHANGED <<work, entry, up, registry, mu, todo, echo, traffic, entered>>

Hello(c) ==
    /\ pc[c] = "hello"
    /\ up[c]
    /\ Goto(c, "hook")

\* Fault: a refused connection returns before its clean-up is deferred.
HelloFailsLeaks(c) ==
    /\ pc[c] = "hello"
    /\ Goto(c, "gone")

\* Something else than a hello, a device that is not in the whitelist, a
\* closed connection, or nothing within HelloTimeout.
HelloFails(c) ==
    /\ pc[c] = "hello"
    /\ Goto(c, "leave")

\* s.mu is taken to read the connect hook, which the daemon does not set.
ReadHook(c) ==
    /\ pc[c] = "hook"
    /\ mu = None
    /\ Goto(c, "reply")

\* The reply's write error is ignored.
HelloReply(c) ==
    /\ pc[c] = "reply"
    /\ Goto(c, "loop")

----------------------------------------------------------------------------
(* handleClient: the read loop.  Pings, pongs, malformed or unknown messages *)
(* and payloads MsgToContent refuses are answered or skipped: no state here  *)
(* changes.                                                                  *)

Enters ==
    /\ entered < MaxClips
    /\ entered' = entered + 1

ReadClip(c, m) ==
    /\ pc[c] = "loop"
    /\ up[c]
    /\ Decodable(m)
    /\ Enters
    /\ LET x == MsgToContent(m)
       IN  /\ lastIn' = [lastIn EXCEPT ![c] = hashContent(x)]
           /\ work' = [work EXCEPT ![c] = x]
    /\ pc' = [pc EXCEPT ![c] = "dedup"]
    /\ UNCHANGED <<entry, up, registry, mu, todo, lastBroadcast, traffic>>

\* Fault: a read error is treated like a malformed message.
ReadFailsContinues(c) ==
    /\ pc[c] = "loop"
    /\ ~up[c]
    /\ Goto(c, "loop")

ReadFails(c) ==
    /\ pc[c] = "loop"
    /\ ~up[c]
    /\ Goto(c, "leave")

\* The deferred clean-up.
Leave(c) ==
    /\ pc[c] = "leave"
    /\ mu = None
    /\ clients' = clients \ {c}
    /\ up' = [up EXCEPT ![c] = FALSE]
    /\ pc' = [pc EXCEPT ![c] = "gone"]
    /\ UNCHANGED <<work, entry, peers, mu, todo, echo, traffic, entered>>

----------------------------------------------------------------------------
(* handleClipboard *)

IsEcho(c) == hashContent(work[c]) = lastBroadcast

\* The echo check and the record it leaves are one critical section.  What
\* equals the last clip counts as its echo while the echo window lasts, and
\* the window may be over whenever it is consulted.
Dedup(c) ==
    /\ pc[c] = "dedup"
    /\ mu = None
    /\ \/ IsEcho(c) /\ pc' = [pc EXCEPT ![c] = "loop"]
       \/ pc' = [pc EXCEPT ![c] = "apply"]
    /\ lastBroadcast' = hashContent(work[c])
    /\ UNCHANGED <<work, entry, up, registry, mu, todo, lastIn, traffic, entered>>

\* onRemoteClip returns, whether it could write the desktop clipboard or not.
Apply(c) ==
    /\ pc[c] = "apply"
    /\ pc' = [pc EXCEPT ![c] = "relay"]
    /\ UNCHANGED <<work, entry, up, registry, mu, todo, echo, traffic, entered>>

----------------------------------------------------------------------------
(* Broadcast (by a connection's goroutine) and BroadcastLocal *)

\* Fault: a goroutine that relayed a clip does not go back to reading.
ReturnIdle(p) == "idle"
Return(p) == IF p \in Conns THEN "loop" ELSE "idle"

\* Broadcast drops oversize images; BroadcastLocal has no such check.
TooBig(p) == p \in Conns /\ work[p] \in Oversize

DropBig(p) ==
    /\ pc[p] = "relay"
    /\ TooBig(p)
    /\ Goto(p, Return(p))

\* Faults: the broadcast does not hold s.mu; the origin is not left out.
BeginUnlocked(p) ==
    /\ pc[p] = "relay"
    /\ ~TooBig(p)
    /\ todo' = (clients \ {p}) \cup peers
    /\ log' = Append(log, [clip |-> work[p], by |-> p])
    /\ entry' = [entry EXCEPT ![p] = Len(log) + 1]
    /\ pc' = [pc EXCEPT ![p] = "send"]
    /\ UNCHANGED <<work, up, registry, mu, echo, got, entered>>
BeginToAll(p) ==
    /\ pc[p] = "relay"
    /\ ~TooBig(p)
    /\ mu = None
    /\ mu' = p
    /\ todo' = clients \cup peers
    /\ log' = Append(log, [clip |-> work[p], by |-> p])
    /\ entry' = [entry EXCEPT ![p] = Len(log) + 1]
    /\ pc' = [pc EXCEPT ![p] = "send"]
    /\ UNCHANGED <<work, up, registry, echo, got, entered>>

\* It takes s.mu, with every client but the origin and every peer ahead.
Begin(p) ==
    /\ pc[p] = "relay"
    /\ ~TooBig(p)
    /\ mu = None
    /\ mu' = p
    /\ todo' = (clients \ {p}) \cup peers
    /\ log' = Append(log, [clip |-> work[p], by |-> p])
    /\ entry' = [entry EXCEPT ![p] = Len(log) + 1]
    /\ pc' = [pc EXCEPT ![p] = "send"]
    /\ UNCHANGED <<work, up, registry, echo, got, entered>>

\* Fault: any clip sent lately counts, not this one.
sentAnything(c, x) == lastIn[c] # NoHash
\* BroadcastLocal passes over a client that sent this content within the
\* window.
recentlySent(c, x) == lastIn[c] = hashContent(x)
MaySkip(p, t) == p \in Locals /\ t \in Conns /\ recentlySent(t, work[p])

\* Clients come before peers, in no particular order.
Turn(p, t) ==
    /\ pc[p] = "send"
    /\ t \in todo
    /\ t \in Peers => todo \cap Conns = {}

Skip(p, t) ==
    /\ Turn(p, t)
    /\ MaySkip(p, t)
    /\ todo' = todo \ {t}
    /\ UNCHANGED <<threads, up, registry, mu, echo, traffic, entered>>

Deliver(p, t) ==
    /\ Turn(p, t)
    /\ up[t] /\ t \notin Stalled
    /\ got' = [got EXCEPT ![t] = Append(@, entry[p])]
    /\ todo' = todo \ {t}
    /\ UNCHANGED <<threads, up, registry, mu, echo, log, entered>>

\* Fault: a write has no timeout.
WriteFailsUntimed(p, t) ==
    /\ Turn(p, t)
    /\ ~up[t]
    /\ todo' = todo \ {t}
    /\ UNCHANGED <<threads, up, registry, mu, echo, traffic, entered>>

\* The write fails, or takes WriteTimeout and closes the connection.
WriteFails(p, t) ==
    /\ Turn(p, t)
    /\ ~up[t] \/ t \in Stalled
    /\ up' = [up EXCEPT ![t] = FALSE]
    /\ todo' = todo \ {t}
    /\ UNCHANGED <<threads, registry, mu, echo, traffic, entered>>

Finish(p) ==
    /\ pc[p] = "send"
    /\ todo = {}
    /\ mu' = None
    /\ pc' = [pc EXCEPT ![p] = Return(p)]
    /\ UNCHANGED <<work, entry, up, registry, todo, echo, traffic, entered>>

----------------------------------------------------------------------------
(* Where local clips come from *)

LocalStart(p, x) ==
    /\ pc[p] = "idle"
    /\ Enters
    /\ work' = [work EXCEPT ![p] = x]
    /\ pc' = [pc EXCEPT ![p] = "relay"]
    /\ UNCHANGED <<entry, up, registry, mu, todo, echo, traffic>>

\* The watcher's callback, and handleSend, call BroadcastLocal.
Report(x) == LocalStart(Watch, x)
ApiSend(x) == LocalStart(Api, x)

----------------------------------------------------------------------------
(* The outbound links *)

registerPeer(q) ==
    /\ mu = None
    /\ q \notin peers
    /\ peers' = peers \cup {q}
    /\ up' = [up EXCEPT ![q] = TRUE]
    /\ UNCHANGED <<threads, clients, mu, todo, echo, traffic, entered>>

unregisterPeer(q) ==
    /\ mu = None
    /\ q \in peers
    /\ ~up[q]
    /\ peers' = peers \ {q}
    /\ UNCHANGED <<threads, up, clients, mu, todo, echo, traffic, entered>>

----------------------------------------------------------------------------
(* The environment *)

\* A connection ends, at the other side or because a reply's write timed out.
Drop(t) ==
    /\ up[t]
    /\ up' = [up EXCEPT ![t] = FALSE]
    /\ UNCHANGED <<threads, registry, mu, todo, echo, traffic, entered>>

----------------------------------------------------------------------------
Handshake(c) == Accept(c) \/ Refuse(c) \/ Hello(c) \/ HelloFails(c) \/ ReadHook(c) \/ HelloReply(c)
Serve(c) == (\E m \in Messages : ReadClip(c, m)) \/ ReadFails(c) \/ Leave(c) \/ Dedup(c) \/ Apply(c)
Write(p, t) == Skip(p, t) \/ Deliver(p, t) \/ WriteFails(p, t)
Send(p) == DropBig(p) \/ Begin(p) \/ (\E t \in Targets : Write(p, t)) \/ Finish(p)
Input == (\E x \in LocalClips : Report(x)) \/ (\E x \in ApiClips : ApiSend(x))
Link(q) == registerPeer(q) \/ unregisterPeer(q)
Environment == \E t \in Targets : Drop(t)

Next ==
    \/ \E c \in Conns : Handshake(c) \/ Serve(c)
    \/ \E p \in Threads : Send(p)
    \/ \E q \in Peers : Link(q)
    \/ Input
    \/ Environment

\* What a goroutine does next without waiting for its client: a hello that
\* does not come ends by HelloTimeout.
Step(c) == \/ HelloFails(c) \/ ReadHook(c) \/ HelloReply(c)
           \/ ReadFails(c) \/ Leave(c) \/ Dedup(c) \/ Apply(c)

\* Goroutines that can run do, and s.mu is handed over in turn: a step that
\* is possible again and again, whenever s.mu is free, is taken.
Fairness ==
    /\ \A c \in Conns : SF_vars(Step(c) \/ Send(c))
    /\ \A p \in Locals : SF_vars(Send(p))

Spec == Init /\ [][Next]_vars
FairSpec == Spec /\ Fairness

----------------------------------------------------------------------------
(* Properties *)

Live(c) == pc[c] \notin {"new", "gone"}

\* The registry holds exactly the connections being served: none is left
\* behind, whichever way its goroutine ends, and none is missing
\* (handlers.go:30-50).
RegistryExact == \A c \in Conns : c \in clients <=> Live(c)

\* No more clients than SetMaxClients allows, however connections race
\* (handlers.go:30-38).
ClientCap == MaxClients > 0 => Cardinality(clients) <= MaxClients

\* A broadcast in progress only has registered targets ahead, and it is the
\* holder of s.mu that sends: no client is removed under it, and none is
\* written to after its removal (broadcast.go:21-33, 44-57).
TargetsRegistered ==
    /\ todo \subseteq clients \cup peers
    /\ \A p \in Threads : pc[p] = "send" <=> mu = p

\* When the relay of a client's clip is about to end, every other client and
\* every peer whose connection is open has received it, as its latest clip,
\* and the origin has not (broadcast.go:13-34).
F == INSTANCE Fanout WITH Clips <- [clip : Clips, by : Threads]
RelayReachesAll ==
    \A c \in Conns : pc[c] = "send" /\ todo = {} =>
        \A t \in clients \cup peers :
            up[t] => (F!Latest(t) = entry[c] <=> t # c)

\* All targets see broadcasts in one order: the hub implements Fanout.
FanoutSpec == F!Spec

\* A goroutine that handles or broadcasts a clip finishes, whatever clients
\* do: one that stopped reading costs each broadcast at most WriteTimeout, and
\* s.mu is never kept (client.go:27-33, broadcast.go:21-33, 44-57).
ClipHandled == \A p \in Threads : Busy(p) ~> ~Busy(p)

\* A connection that broke is taken out of the registry (handlers.go:44-50,
\* 96-99).
BrokenLeaves == \A c \in Conns : c \in clients /\ ~up[c] ~> c \notin clients

=============================================================================
