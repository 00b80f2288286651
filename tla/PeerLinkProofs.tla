--------------------------- MODULE PeerLinkProofs ---------------------------
(***************************************************************************)
(* The safety of an outbound link, for every backoff and every bound.      *)
(***************************************************************************)
EXTENDS PeerLink, TLAPS

\* Where run holds a connection.
ConnInv ==
    /\ pc \in {"register", "hello", "read"} <=> conn # NoConn
    /\ open \subseteq {conn}

\* Where no broadcast can be using the link.
IdleInv ==
    pc \in {"start", "dial", "wait", "register", "pause", "done"} => ~registered /\ sender = "idle"

LinkInv == TypeOK /\ ConnInv /\ IdleInv /\ NoStaleSend

USE DEF ConnIds, NoConn

\* A new connection has no frame in flight.
LEMMA NoFrames == <<>> \in Seq({"hello", "clip", "ping"})
  OBVIOUS

----------------------------------------------------------------------------
\* Every variable of the link keeps its type (peer.go:21-27, 42-111, 154-175).
THEOREM TypeCorrect == Spec => []TypeOK
<1>1. Init => TypeOK
  BY PeerLinkAssumption, NoFrames DEF Init, TypeOK
<1>2. TypeOK /\ [Next]_vars => TypeOK'
  <2> SUFFICES ASSUME TypeOK, [Next]_vars PROVE TypeOK'
    OBVIOUS
  <2> USE DEF TypeOK
  <2>1. CASE Dial
    <3>1. PICK c \in ConnIds \ {target} : conn' = c /\ open' = {c}
      BY <2>1 DEF Dial
    <3>2. conn' \in ConnIds /\ open' \in SUBSET ConnIds
      BY <3>1
    <3>3. backoff' \in Nat \ {0}
      BY <2>1, PeerLinkAssumption DEF Dial
    <3> QED
      BY <2>1, <3>2, <3>3, NoFrames DEF Dial, broadcast
  <2>2. CASE TlsConfig \/ DialFails \/ Waited \/ Paused \/ Stop
    <3>1. backoff' \in Nat \ {0}
      BY <2>2, PeerLinkAssumption
      DEF TlsConfig, DialFails, Waited, Paused, Stop
    <3>2. pc' \in {"dial", "wait", "done"}
      BY <2>2 DEF TlsConfig, DialFails, Waited, Paused, Stop
    <3> QED
      BY <2>2, <3>1, <3>2
      DEF TlsConfig, DialFails, Waited, Paused, Stop, link, far, broadcast
  <2>3. CASE Register \/ Undo \/ Unregister
    BY <2>3 DEF Register, Undo, Unregister, far, broadcast
  <2>4. CASE HelloWrite \/ Ping
    <3>1. wire' = Append(wire, "hello") \/ wire' = Append(wire, "ping")
      BY <2>4 DEF HelloWrite, Ping
    <3>2. wire' \in Seq({"hello", "clip", "ping"})
      BY <3>1
    <3> QED
      BY <2>4, <3>2 DEF HelloWrite, Ping, link, broadcast
  <2>5. CASE HelloFails \/ ReadEnds
    BY <2>5 DEF HelloFails, ReadEnds, Close, broadcast
  <2>6. CASE SendCopy
    BY <2>6 DEF SendCopy, link, far
  <2>7. CASE SendWrite
    BY <2>7 DEF SendWrite, link
  <2>8. CASE RemoteReads
    <3>1. wire' \in Seq({"hello", "clip", "ping"})
      BY <2>8 DEF RemoteReads
    <3> QED
      BY <2>8, <3>1 DEF RemoteReads, link, broadcast
  <2>9. CASE Break \/ Cancel
    BY <2>9 DEF Break, Cancel, link, far, broadcast
  <2>10. CASE UNCHANGED vars
    BY <2>10 DEF vars, link, far, broadcast
  <2> QED
    BY <2>1, <2>2, <2>3, <2>4, <2>5, <2>6, <2>7, <2>8, <2>9, <2>10
    DEF Next, run, Send
<1> QED
  BY <1>1, <1>2, PTL DEF Spec

----------------------------------------------------------------------------
\* The backoff never runs away, whatever the two delays are configured to
\* (peer.go:66, 79-85).
THEOREM BackoffIsBounded == Spec => []BackoffBounded
<1>1. Init => BackoffBounded
  BY PeerLinkAssumption DEF Init, BackoffBounded
<1>2. TypeOK /\ BackoffBounded /\ [Next]_vars => BackoffBounded'
  <2> SUFFICES ASSUME TypeOK, BackoffBounded, [Next]_vars PROVE BackoffBounded'
    OBVIOUS
  <2> USE DEF TypeOK, BackoffBounded
  <2>1. CASE Dial
    BY <2>1, PeerLinkAssumption DEF Dial
  <2>2. CASE Waited
    BY <2>2, PeerLinkAssumption DEF Waited
  <2>3. CASE UNCHANGED backoff
    BY <2>3
  <2> QED
    BY <2>1, <2>2, <2>3
    DEF Next, run, Send, vars, TlsConfig, DialFails, Register, HelloWrite, HelloFails, Undo,
        ReadEnds, Unregister, Paused, Stop, Ping, SendCopy, SendWrite, RemoteReads,
        Break, Cancel
<1> QED
  BY <1>1, <1>2, TypeCorrect, PTL DEF Spec

----------------------------------------------------------------------------
LEMMA LinkInvHolds == Spec => []LinkInv
<1>1. Init => LinkInv
  BY PeerLinkAssumption, NoFrames DEF Init, LinkInv, TypeOK, ConnInv, IdleInv, NoStaleSend
<1>2. LinkInv /\ TypeOK' /\ [Next]_vars => LinkInv'
  <2> SUFFICES ASSUME LinkInv, TypeOK', [Next]_vars
               PROVE  (ConnInv /\ IdleInv /\ NoStaleSend)'
    BY DEF LinkInv
  <2> USE DEF LinkInv, TypeOK, ConnInv, IdleInv, NoStaleSend, muFree
  <2>1. CASE Dial
    BY <2>1 DEF Dial, broadcast
  <2>2. CASE TlsConfig \/ DialFails \/ Waited \/ Paused \/ Stop
    BY <2>2 DEF TlsConfig, DialFails, Waited, Paused, Stop, link, far, broadcast
  <2>3. CASE Register \/ Undo \/ Unregister
    BY <2>3 DEF Register, Undo, Unregister, far, broadcast
  <2>4. CASE HelloWrite \/ Ping
    BY <2>4 DEF HelloWrite, Ping, link, broadcast
  <2>5. CASE HelloFails \/ ReadEnds
    BY <2>5 DEF HelloFails, ReadEnds, Close, broadcast
  <2>6. CASE SendCopy
    BY <2>6 DEF SendCopy, link, far
  <2>7. CASE SendWrite
    BY <2>7 DEF SendWrite, link
  <2>8. CASE RemoteReads
    BY <2>8 DEF RemoteReads, link, broadcast
  <2>9. CASE Break \/ Cancel
    BY <2>9 DEF Break, Cancel, link, far, broadcast
  <2>10. CASE UNCHANGED vars
    BY <2>10 DEF vars, link, far, broadcast
  <2> QED
    BY <2>1, <2>2, <2>3, <2>4, <2>5, <2>6, <2>7, <2>8, <2>9, <2>10
    DEF Next, run, Send
<1> QED
  BY <1>1, <1>2, TypeCorrect, PTL DEF Spec

\* No broadcast writes to a connection that was replaced, although run closes
\* connections without s.mu (peer.go:86-104, 154-166).
THEOREM SendsAreFresh == Spec => []NoStaleSend
<1>1. LinkInv => NoStaleSend
  BY DEF LinkInv
<1> QED
  BY <1>1, LinkInvHolds, PTL

\* Between two connections the link is in no registry and holds no connection
\* (peer.go:67-110).
THEOREM WaitsAreUnlinked == Spec => []UnlinkedWhileWaiting
<1>1. LinkInv => UnlinkedWhileWaiting
  BY DEF LinkInv, TypeOK, ConnInv, IdleInv, UnlinkedWhileWaiting
<1> QED
  BY <1>1, LinkInvHolds, PTL
=============================================================================
