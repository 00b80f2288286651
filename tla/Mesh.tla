-------------------------------- MODULE Mesh --------------------------------
(***************************************************************************)
(* Several daemons, linked by their `peers` configuration.  A link <<d, e>>*)
(* says that d dials e: d sees e as a peer, e sees d as a client.  What a  *)
(* client sends is handled and relayed; what a peer pushes is only written.*)
(*                                                                         *)
(* Every handler is one step here; how steps inside one daemon interleave  *)
(* is the matter of Daemon.  A clip stands for its content and its hash.   *)
(***************************************************************************)
EXTENDS Naturals, Sequences, FiniteSets, SequencesExt

CONSTANTS
    Daemons,
    Clips,          \* each is copied once, somewhere
    NoClip,         \* the clipboard at the start, and no hash
    Nobody,         \* where a clip that was not copied yet comes from
    Topologies,     \* the sets of links to consider
    WindowsExpire,  \* the echo window may be over when it is consulted
    MaxFaults       \* bound on broken links and restarts

Links == {l \in Daemons \X Daemons : l[1] # l[2]}
Client(l) == l[1]
Server(l) == l[2]

ASSUME MeshAssumption ==
    /\ IsFiniteSet(Daemons)
    /\ NoClip \notin Clips
    /\ Nobody \notin Daemons
    /\ Topologies \subseteq SUBSET Links
    /\ WindowsExpire \in BOOLEAN
    /\ MaxFaults \in Nat

VARIABLES
    dials,                          \* the links, which do not change
    desktop, lastHash, skipHash,    \* of each daemon: its clipboard, its watcher
    lastBroadcast,                  \* its server's echo check
    lastIn,                         \* the last clip each link's client sent
    up, down,                       \* the wire of each link, to and from its server
    origin,                         \* where each clip was copied
    sent,                           \* how often a daemon broadcast a clip, up to 2
    calm,                           \* clips were copied when nothing was under way
    faults

watchers == <<desktop, lastHash, skipHash>>
wires == <<up, down>>
vars == <<dials, watchers, lastBroadcast, lastIn, wires, origin, sent, calm, faults>>

TypeOK ==
    /\ dials \in Topologies
    /\ desktop \in [Daemons -> Clips \cup {NoClip}]
    /\ lastHash \in [Daemons -> Clips \cup {NoClip}]
    /\ skipHash \in [Daemons -> Clips \cup {NoClip}]
    /\ lastBroadcast \in [Daemons -> Clips \cup {NoClip}]
    /\ lastIn \in [Links -> Clips \cup {NoClip}]
    /\ up \in [Links -> Seq(Clips)]
    /\ down \in [Links -> Seq(Clips)]
    /\ origin \in [Clips -> Daemons \cup {Nobody}]
    /\ sent \in [Daemons -> [Clips -> 0..2]]
    /\ calm \in BOOLEAN
    /\ faults \in 0..MaxFaults

Init ==
    /\ dials \in Topologies
    /\ desktop = [d \in Daemons |-> NoClip]
    /\ lastHash = desktop
    /\ skipHash = desktop
    /\ lastBroadcast = desktop
    /\ lastIn = [l \in Links |-> NoClip]
    /\ up = [l \in Links |-> <<>>]
    /\ down = up
    /\ origin = [x \in Clips |-> Nobody]
    /\ sent = [d \in Daemons |-> [x \in Clips |-> 0]]
    /\ calm = TRUE
    /\ faults = 0

Unread(d) == desktop[d] # lastHash[d]
Quiet ==
    /\ \A d \in Daemons : ~Unread(d)
    /\ \A l \in Links : up[l] = <<>> /\ down[l] = <<>>

----------------------------------------------------------------------------
(* What a broadcast puts on the wires *)

ToPeers(d, x, wire) ==
    [l \in Links |-> IF l \in dials /\ Client(l) = d THEN Append(wire[l], x) ELSE wire[l]]
ToClients(d, x, skipped, wire) ==
    [l \in Links |-> IF l \in dials \ skipped /\ Server(l) = d THEN Append(wire[l], x) ELSE wire[l]]
Take(l, wire) == [wire EXCEPT ![l] = Tail(@)]

Counted(d, x) == sent' = [sent EXCEPT ![d][x] = IF @ < 2 THEN @ + 1 ELSE @]

\* LocalWrite: the clip is on the desktop and marked as the daemon's own.
LocalWrite(d, x) ==
    /\ desktop' = [desktop EXCEPT ![d] = x]
    /\ lastHash' = [lastHash EXCEPT ![d] = x]
    /\ skipHash' = [skipHash EXCEPT ![d] = x]

----------------------------------------------------------------------------
(* The user and the watcher *)

UserCopy(d, x) ==
    /\ origin[x] = Nobody
    /\ origin' = [origin EXCEPT ![x] = d]
    /\ desktop' = [desktop EXCEPT ![d] = x]
    /\ calm' = (calm /\ Quiet)
    /\ UNCHANGED <<dials, lastHash, skipHash, lastBroadcast, lastIn, wires, sent, faults>>

\* Links whose client sent this clip within the echo window; the window may
\* be over.
RecentlySent(x) == {l \in dials : lastIn[l] = x}
Skips(x) == IF WindowsExpire THEN SUBSET RecentlySent(x) ELSE {RecentlySent(x)}

\* Fault: a local change goes to the clients, not to the peers.
CheckClientsOnly(d) ==
    /\ Unread(d)
    /\ lastHash' = [lastHash EXCEPT ![d] = desktop[d]]
    /\ Counted(d, desktop[d])
    /\ \E skipped \in Skips(desktop[d]) : down' = ToClients(d, desktop[d], skipped, down)
    /\ UNCHANGED <<dials, desktop, skipHash, lastBroadcast, lastIn, up, origin, calm, faults>>

\* A change that was not written by the daemon itself is broadcast.
\* BroadcastLocal leaves lastBroadcast alone.
Check(d) ==
    /\ Unread(d)
    /\ lastHash' = [lastHash EXCEPT ![d] = desktop[d]]
    /\ \/ /\ desktop[d] = skipHash[d]
          /\ UNCHANGED <<wires, sent>>
       \/ /\ desktop[d] # skipHash[d]
          /\ Counted(d, desktop[d])
          /\ up' = ToPeers(d, desktop[d], up)
          /\ \E skipped \in Skips(desktop[d]) : down' = ToClients(d, desktop[d], skipped, down)
    /\ UNCHANGED <<dials, desktop, skipHash, lastBroadcast, lastIn, origin, calm, faults>>

----------------------------------------------------------------------------
(* Clips that arrive *)

\* Fault: the relay does not leave out the client the clip came from.
FromClientToAll(l) ==
    /\ up[l] # <<>>
    /\ LET x == Head(up[l])
           e == Server(l)
       IN  /\ lastIn' = [lastIn EXCEPT ![l] = x]
           /\ lastBroadcast' = [lastBroadcast EXCEPT ![e] = x]
           /\ LocalWrite(e, x)
           /\ Counted(e, x)
           /\ up' = ToPeers(e, x, Take(l, up))
           /\ down' = ToClients(e, x, {}, down)
    /\ UNCHANGED <<dials, origin, calm, faults>>

\* handleClipboard drops what it relayed last, while the echo window lasts.
Echo(l) ==
    /\ up[l] # <<>>
    /\ Head(up[l]) = lastBroadcast[Server(l)]
    /\ lastIn' = [lastIn EXCEPT ![l] = Head(up[l])]
    /\ up' = Take(l, up)
    /\ UNCHANGED <<dials, watchers, lastBroadcast, down, origin, sent, calm, faults>>

\* Anything else is written and relayed to the other clients and the peers.
FromClient(l) ==
    /\ up[l] # <<>>
    /\ Head(up[l]) # lastBroadcast[Server(l)] \/ WindowsExpire
    /\ LET x == Head(up[l])
           e == Server(l)
       IN  /\ lastIn' = [lastIn EXCEPT ![l] = x]
           /\ lastBroadcast' = [lastBroadcast EXCEPT ![e] = x]
           /\ LocalWrite(e, x)
           /\ Counted(e, x)
           /\ up' = ToPeers(e, x, Take(l, up))
           /\ down' = ToClients(e, x, {l}, down)
    /\ UNCHANGED <<dials, origin, calm, faults>>

\* Fault: a peer's clip is handled like a client's.
FromPeerRelays(l) ==
    /\ down[l] # <<>>
    /\ LET x == Head(down[l])
           d == Client(l)
       IN  /\ LocalWrite(d, x)
           /\ Counted(d, x)
           /\ up' = [k \in Links |-> IF k \in dials \ {l} /\ Client(k) = d
                                     THEN Append(up[k], x) ELSE up[k]]
           /\ down' = ToClients(d, x, {}, Take(l, down))
    /\ UNCHANGED <<dials, lastBroadcast, lastIn, origin, calm, faults>>

\* readLoop hands a peer's clip to writeRemote; it goes no further.
FromPeer(l) ==
    /\ down[l] # <<>>
    /\ LocalWrite(Client(l), Head(down[l]))
    /\ down' = Take(l, down)
    /\ UNCHANGED <<dials, lastBroadcast, lastIn, up, origin, sent, calm, faults>>

----------------------------------------------------------------------------
(* Failures *)

Cleared(wire, cut) == [l \in Links |-> IF l \in cut THEN <<>> ELSE wire[l]]
Cut(cut) ==
    /\ faults < MaxFaults
    /\ faults' = faults + 1
    /\ up' = Cleared(up, cut)
    /\ down' = Cleared(down, cut)
    /\ lastIn' = [l \in Links |-> IF l \in cut THEN NoClip ELSE lastIn[l]]

\* A connection breaks and is made again: what was on its wires, or was
\* broadcast meanwhile, is lost, and the server knows a new client.
Break(l) ==
    /\ l \in dials
    /\ Cut({l})
    /\ UNCHANGED <<dials, watchers, lastBroadcast, origin, sent, calm>>

\* Fault: a restarted watcher has no first snapshot.
RestartUnread(d) ==
    /\ Cut({l \in Links : d \in {Client(l), Server(l)}})
    /\ lastHash' = [lastHash EXCEPT ![d] = NoClip]
    /\ skipHash' = [skipHash EXCEPT ![d] = NoClip]
    /\ lastBroadcast' = [lastBroadcast EXCEPT ![d] = NoClip]
    /\ UNCHANGED <<dials, desktop, origin, sent, calm>>

\* A daemon starts again: the clipboard stays, the first snapshot takes it
\* as known, and nothing else is remembered.
Restart(d) ==
    /\ Cut({l \in Links : d \in {Client(l), Server(l)}})
    /\ lastHash' = [lastHash EXCEPT ![d] = desktop[d]]
    /\ skipHash' = [skipHash EXCEPT ![d] = NoClip]
    /\ lastBroadcast' = [lastBroadcast EXCEPT ![d] = NoClip]
    /\ UNCHANGED <<dials, desktop, origin, sent, calm>>

----------------------------------------------------------------------------
Arrive(l) == Echo(l) \/ FromClient(l) \/ FromPeer(l)

Next ==
    \/ \E d \in Daemons, x \in Clips : UserCopy(d, x)
    \/ \E d \in Daemons : Check(d) \/ Restart(d)
    \/ \E l \in Links : Arrive(l) \/ Break(l)

\* Watchers keep checking, and each side of a connection keeps reading.
Fairness ==
    /\ \A d \in Daemons : WF_vars(Check(d))
    /\ \A l \in Links : WF_vars(Echo(l) \/ FromClient(l)) /\ WF_vars(FromPeer(l))

Spec == Init /\ [][Next]_vars
FairSpec == Spec /\ Fairness

----------------------------------------------------------------------------
(* Properties *)

\* No loop: any links touch more daemons than there are links.
Touched(S) == UNION {{Client(l), Server(l)} : l \in S}
Loopless(T) == \A S \in SUBSET T : S # {} => Cardinality(Touched(S)) > Cardinality(S)

\* Any two daemons are linked, or dial the same server.
Covering(T) ==
    \A d, e \in Daemons : d # e =>
        \/ <<d, e>> \in T \/ <<e, d>> \in T
        \/ \E h \in Daemons : <<d, h>> \in T /\ <<e, h>> \in T

\* In a mesh without loops no clip is ever on its way back to the daemon
\* where it was copied, whatever windows expire, links break and daemons
\* restart (handlers.go:127-144, broadcast.go:26-33, 46-57).
NoEcho ==
    Loopless(dials) =>
        \A l \in Links :
            /\ \A x \in ToSet(up[l]) : origin[x] # Server(l)
            /\ \A x \in ToSet(down[l]) : origin[x] # Client(l)

\* In a mesh without loops no daemon broadcasts a clip twice ("never
\* rebroadcasts content it wrote itself", README.md:22).
BroadcastOnce == Loopless(dials) => \A d \in Daemons, x \in Clips : sent[d][x] <= 1

\* Where any two daemons are linked or dial one server, clips that are copied
\* one at a time get to every desktop ("relay clipboard data between two
\* desktops", docs/configuration.md:30).
Converges ==
    Covering(dials) /\ calm /\ faults = 0 /\ Quiet =>
        \A d, e \in Daemons : desktop[d] = desktop[e]

\* Whatever is copied, traffic ends: clips do not circulate (for links that
\* form no directed cycle; two daemons that dial each other may go on).
Settles == <>[]Quiet

\* The echo of a daemon's own broadcast is ignored (handlers.go:127-128):
\* it broadcasts the clip that was copied there once, in any mesh.
OwnEchoIgnored == \A x \in Clips : origin[x] # Nobody => sent[origin[x]][x] <= 1
=============================================================================
