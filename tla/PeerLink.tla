------------------------------ MODULE PeerLink ------------------------------
(***************************************************************************)
(* websocket.PeerClient: one outbound link to a remote daemon, dialed and  *)
(* redialed by run, written by the broadcasts that call Send, with the     *)
(* remote's handler as the reader of what is written.                      *)
(*                                                                         *)
(* s.mu is held by a broadcast while it calls Send, and by run for each    *)
(* change of the peer registry.  A connection is named by a number that no *)
(* Send in progress still uses.                                            *)
(***************************************************************************)
EXTENDS Naturals, Sequences

CONSTANTS
    Initial,       \* timing.peer_backoff_initial
    Maximum,       \* timing.peer_backoff_max
    WireCap        \* bound on frames in flight

ASSUME PeerLinkAssumption ==
    /\ Initial \in Nat \ {0} /\ Maximum \in Nat \ {0}
    /\ WireCap \in Nat

NoConn == 0
ConnIds == {1, 2}

VARIABLES
    pc,            \* control state of run
    backoff,       \* its local backoff
    conn,          \* pc.conn, NoConn for nil
    registered,    \* the link is in s.peers
    open,          \* the connections still open
    wire,          \* frames written to the newest one and not read yet
    remote,        \* the remote handler of it: "none", "hello" or "loop"
    sender,        \* a broadcast: "idle", or "write" once it copied conn
    target,        \* the connection it copied
    cancelled      \* ctx is done

link == <<conn, registered>>
far == <<open, wire, remote>>
broadcast == <<sender, target>>
vars == <<pc, backoff, link, far, broadcast, cancelled>>

\* A fault: broadcasts release s.mu before they write.
muFreeEarly == TRUE

\* A broadcast holds s.mu from before it copies conn until it has written.
muFree == sender = "idle"

TypeOK ==
    /\ pc \in {"start", "dial", "wait", "register", "hello", "read", "unregister", "undo",
               "pause", "done"}
    /\ backoff \in Nat \ {0}
    /\ conn \in ConnIds \cup {NoConn}
    /\ registered \in BOOLEAN
    /\ open \in SUBSET ConnIds
    /\ wire \in Seq({"hello", "clip", "ping"})
    /\ remote \in {"none", "hello", "loop"}
    /\ sender \in {"idle", "write"}
    /\ target \in ConnIds \cup {NoConn}
    /\ cancelled \in BOOLEAN

Init ==
    /\ pc = "start"
    /\ backoff = Initial
    /\ conn = NoConn
    /\ registered = FALSE
    /\ open = {}
    /\ wire = <<>>
    /\ remote = "none"
    /\ sender = "idle"
    /\ target = NoConn
    /\ cancelled = FALSE

----------------------------------------------------------------------------
(* run *)

\* peerTLSConfig reads the pair and the pool once: if it cannot, the link is
\* over before its first dial, for as long as the daemon runs.
TlsConfig ==
    /\ pc = "start"
    /\ pc' \in {"dial", "done"}
    /\ UNCHANGED <<backoff, link, far, broadcast, cancelled>>

\* A fault: a new connection clears the backoff instead of restarting it.
DialClears ==
    /\ pc = "dial"
    /\ ~cancelled
    /\ \E c \in ConnIds \ {target} : conn' = c /\ open' = {c}
    /\ wire' = <<>>
    /\ remote' = "hello"
    /\ backoff' = 0
    /\ pc' = "register"
    /\ UNCHANGED <<registered, broadcast, cancelled>>

\* Dial succeeds: the backoff starts over and pc.conn is set.
Dial ==
    /\ pc = "dial"
    /\ ~cancelled
    /\ \E c \in ConnIds \ {target} : conn' = c /\ open' = {c}
    /\ wire' = <<>>
    /\ remote' = "hello"
    /\ backoff' = Initial
    /\ pc' = "register"
    /\ UNCHANGED <<registered, broadcast, cancelled>>

DialFails ==
    /\ pc = "dial"
    /\ pc' = IF cancelled THEN "done" ELSE "wait"
    /\ UNCHANGED <<backoff, link, far, broadcast, cancelled>>

\* A fault: run gives up once the maximum is reached.
WaitedGivesUp ==
    /\ pc = "wait"
    /\ backoff' = IF backoff < Maximum THEN 2 * backoff ELSE backoff
    /\ pc' = IF backoff < Maximum THEN "dial" ELSE "done"
    /\ UNCHANGED <<link, far, broadcast, cancelled>>

\* The wait after a failed dial doubles the next one.
Waited ==
    /\ pc = "wait"
    /\ backoff' = IF backoff < Maximum THEN 2 * backoff ELSE backoff
    /\ pc' = "dial"
    /\ UNCHANGED <<link, far, broadcast, cancelled>>

Register ==
    /\ pc = "register"
    /\ muFree
    /\ registered' = TRUE
    /\ pc' = "hello"
    /\ UNCHANGED <<backoff, conn, far, broadcast, cancelled>>

HelloWrite ==
    /\ pc = "hello"
    /\ conn \in open
    /\ wire' = Append(wire, "hello")
    /\ pc' = "read"
    /\ UNCHANGED <<backoff, link, open, remote, broadcast, cancelled>>

\* close(): the connection is closed and pc.conn is nil.
Close == open' = open \ {conn} /\ conn' = NoConn

\* A fault: the failed hello closes the connection and keeps the link listed.
HelloFailsLinked ==
    /\ pc = "hello"
    /\ conn \notin open \/ cancelled
    /\ Close
    /\ pc' = "dial"
    /\ UNCHANGED <<backoff, registered, wire, remote, broadcast, cancelled>>

\* The hello could not be written: close, unregister, dial at once.
HelloFails ==
    /\ pc = "hello"
    /\ conn \notin open \/ cancelled
    /\ Close
    /\ pc' = "undo"
    /\ UNCHANGED <<backoff, registered, wire, remote, broadcast, cancelled>>

Undo ==
    /\ pc = "undo"
    /\ muFree
    /\ registered' = FALSE
    /\ pc' = "dial"
    /\ UNCHANGED <<backoff, conn, far, broadcast, cancelled>>

\* keepalive, while the connection lives.
Ping ==
    /\ pc = "read"
    /\ conn \in open
    /\ Len(wire) < WireCap
    /\ wire' = Append(wire, "ping")
    /\ UNCHANGED <<pc, backoff, link, open, remote, broadcast, cancelled>>

\* A fault: the read is not bound to ctx.
ReadEndsUnbound ==
    /\ pc = "read"
    /\ conn \notin open
    /\ Close
    /\ pc' = "unregister"
    /\ UNCHANGED <<backoff, registered, wire, remote, broadcast, cancelled>>

\* readLoop returns on a read error, then close().
ReadEnds ==
    /\ pc = "read"
    /\ conn \notin open \/ cancelled
    /\ Close
    /\ pc' = "unregister"
    /\ UNCHANGED <<backoff, registered, wire, remote, broadcast, cancelled>>

\* unregisterPeer, then the pause before the next dial.
Unregister ==
    /\ pc = "unregister"
    /\ muFree
    /\ registered' = FALSE
    /\ pc' = "pause"
    /\ UNCHANGED <<backoff, conn, far, broadcast, cancelled>>

Paused ==
    /\ pc = "pause"
    /\ pc' = "dial"
    /\ UNCHANGED <<backoff, link, far, broadcast, cancelled>>

\* Both waits also listen to ctx.
Stop ==
    /\ cancelled
    /\ pc \in {"wait", "pause"}
    /\ pc' = "done"
    /\ UNCHANGED <<backoff, link, far, broadcast, cancelled>>

----------------------------------------------------------------------------
(* Send, called by a broadcast for the peers that are registered *)

SendCopy ==
    /\ registered
    /\ muFree
    /\ sender' = "write"
    /\ target' = conn
    /\ UNCHANGED <<pc, backoff, link, far, cancelled>>

\* A nil or closed connection swallows the clip; errors are ignored.
SendWrite ==
    /\ sender = "write"
    /\ target \in open => Len(wire) < WireCap
    /\ wire' = IF target \in open THEN Append(wire, "clip") ELSE wire
    /\ sender' = "idle"
    /\ target' = NoConn
    /\ UNCHANGED <<pc, backoff, link, open, remote, cancelled>>

----------------------------------------------------------------------------
(* The remote daemon and the network *)

\* handleClient there: the first frame must be a hello, or it hangs up.
RemoteReads ==
    /\ wire # <<>>
    /\ open # {}
    /\ remote # "none"
    /\ wire' = Tail(wire)
    /\ IF remote = "hello" /\ Head(wire) # "hello"
       THEN remote' = "none" /\ open' = {}
       ELSE remote' = "loop" /\ UNCHANGED open
    /\ UNCHANGED <<pc, backoff, link, broadcast, cancelled>>

\* The network, the remote's HelloTimeout or its shutdown ends a connection.
Break ==
    /\ open # {}
    /\ open' = {}
    /\ remote' = "none"
    /\ UNCHANGED <<pc, backoff, link, wire, broadcast, cancelled>>

Cancel ==
    /\ ~cancelled
    /\ cancelled' = TRUE
    /\ UNCHANGED <<pc, backoff, link, far, broadcast>>

----------------------------------------------------------------------------
run == \/ TlsConfig \/ Dial \/ DialFails \/ Waited \/ Register \/ HelloWrite \/ HelloFails
       \/ Undo \/ ReadEnds \/ Unregister \/ Paused \/ Stop
Send == SendCopy \/ SendWrite

Next == run \/ Ping \/ Send \/ RemoteReads \/ Break \/ Cancel

\* The goroutine of run goes on, a select that finds ctx done picks it at
\* random, s.mu is handed over in turn, a Send ends within WriteTimeout, and
\* a remote that can be reached again and again is.
Fairness ==
    /\ WF_vars(run) /\ WF_vars(SendWrite) /\ WF_vars(RemoteReads)
    /\ SF_vars(Register) /\ SF_vars(Undo) /\ SF_vars(Unregister)
    /\ SF_vars(Dial) /\ SF_vars(Stop)

Spec == Init /\ [][Next]_vars
FairSpec == Spec /\ Fairness

----------------------------------------------------------------------------
(* Properties *)

\* A broadcast never writes to a connection that another one has replaced: it
\* holds s.mu, so run can close the connection under it but neither
\* unregister nor install the next one (peer.go:86-104, 154-166).
NoStaleSend ==
    sender = "write" =>
        target = conn \/ (conn = NoConn /\ pc \in {"undo", "unregister"})

\* Before run dials, while it dials or waits, and after it returned,
\* broadcasts do not see the link and no connection of it stays open
\* (peer.go:51-55, 67-110).
UnlinkedWhileWaiting ==
    pc \in {"start", "dial", "wait", "pause", "done"} =>
        ~registered /\ conn = NoConn /\ open = {}

\* The backoff stays below twice the maximum.  It may exceed the maximum, as
\* it is compared before it is doubled: 32 s for the default of 30 s
\* (peer.go:66, 79-85).
BackoffBounded == Initial <= backoff /\ (backoff < 2 * Maximum \/ backoff = Initial)

\* The first frame the remote reads is the hello it insists on ("expected
\* hello message", handlers.go:59-60).
HelloFirst == remote = "hello" /\ wire # <<>> => Head(wire) = "hello"

\* A link that has dialled is up again each time it goes down, as long as the
\* remote can be reached again and again (peer.go:29-30).
Reconnects == pc = "dial" ~> (pc = "register" \/ cancelled)

\* When the daemon stops, the link ends, out of the registry and closed,
\* wherever run is and whatever a broadcast is writing to it
\* (peer.go:67-110, 113-119).
LinkEnds == cancelled ~> (pc = "done" /\ ~registered /\ open = {})

=============================================================================
