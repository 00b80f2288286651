----------------------------- MODULE HubProofs -----------------------------
(* Theorems about Hub, for every value of its constants. *)
EXTENDS Hub, FiniteSetTheorems, TLAPS

USE HubAssumption DEF HubAssumption, Locals, Threads, Targets

----------------------------------------------------------------------------
(* Types *)

LEMMA RemoteClip ==
    ASSUME NEW m \in Messages, Decodable(m)
    PROVE  MsgToContent(m) \in Clips
  BY DEF Clips, RemoteClips

LEMMA KeyOf == ASSUME NEW x \in Clips PROVE hashContent(x) \in Keys
  BY DEF Keys

LEMMA TypeInit == Init => TypeOK
<1> SUFFICES ASSUME Init PROVE TypeOK
  OBVIOUS
<1>1. \A p \in Threads : ~Busy(p)
  BY DEF Init, Busy
<1> QED BY <1>1 DEF Init, TypeOK, Keys, ConnStates, LocalStates

LEMMA TypeStep == TypeOK /\ [Next]_vars => TypeOK'
<1> SUFFICES ASSUME TypeOK, [Next]_vars PROVE TypeOK'
  OBVIOUS
<1> USE DEF TypeOK, Busy, ConnStates, LocalStates, threads, registry, echo, traffic
<1>1. ASSUME NEW c \in Conns, Accept(c) PROVE TypeOK'
  BY <1>1 DEF Accept
<1>2. ASSUME NEW c \in Conns, NEW s \in {"hook", "leave", "reply", "loop", "gone"}, Goto(c, s)
      PROVE  TypeOK'
  BY <1>2 DEF Goto
<1>3. ASSUME NEW c \in Conns, Refuse(c) \/ Hello(c) \/ HelloFails(c) \/ ReadHook(c)
                              \/ HelloReply(c) \/ ReadFails(c)
      PROVE  TypeOK'
  BY <1>3, <1>2 DEF Refuse, Hello, HelloFails, ReadHook, HelloReply, ReadFails, Goto
<1>4. ASSUME NEW c \in Conns, NEW m \in Messages, ReadClip(c, m) PROVE TypeOK'
  <2>1. MsgToContent(m) \in Clips /\ hashContent(MsgToContent(m)) \in Keys
    BY <1>4, RemoteClip, KeyOf DEF ReadClip
  <2> QED BY <1>4, <2>1 DEF ReadClip, Enters
<1>5. ASSUME NEW c \in Conns, Leave(c) PROVE TypeOK'
  BY <1>5 DEF Leave
<1>6. ASSUME NEW c \in Conns, Dedup(c) PROVE TypeOK'
  <2>1. work[c] \in Clips /\ hashContent(work[c]) \in Keys
    BY <1>6, KeyOf DEF Dedup
  <2> QED BY <1>6, <2>1 DEF Dedup
<1>7. ASSUME NEW c \in Conns, Apply(c) PROVE TypeOK'
  BY <1>7 DEF Apply
<1>8. ASSUME NEW p \in Threads, DropBig(p) PROVE TypeOK'
  <2>1. p \in Conns /\ Goto(p, "loop")
    BY <1>8 DEF DropBig, TooBig, Return
  <2> QED BY <2>1, <1>2
<1>9. ASSUME NEW p \in Threads, Begin(p) PROVE TypeOK'
  <2>1. [clip |-> work[p], by |-> p] \in [clip : Clips, by : Threads]
    BY <1>9 DEF Begin
  <2>2. Len(log) + 1 \in Nat
    OBVIOUS
  <2> QED BY <1>9, <2>1, <2>2 DEF Begin
<1>10. ASSUME NEW p \in Threads, NEW t \in Targets, Write(p, t) PROVE TypeOK'
  <2>1. CASE Skip(p, t)
    BY <2>1 DEF Skip
  <2>2. CASE Deliver(p, t)
    <3>1. work[p] \in Clips /\ hashContent(work[p]) \in Keys
      BY <2>2, KeyOf DEF Deliver, Turn
    <3>2. got' \in [Targets -> Seq(Nat)]
      BY <2>2, <3>1 DEF Deliver
    <3> QED BY <2>2, <3>2 DEF Deliver
  <2>3. CASE WriteFails(p, t)
    BY <2>3 DEF WriteFails
  <2> QED BY <1>10, <2>1, <2>2, <2>3 DEF Write
<1>11. ASSUME NEW p \in Threads, Finish(p) PROVE TypeOK'
  BY <1>11 DEF Finish, Return
<1>12. ASSUME NEW x \in LocalClips, Report(x) PROVE TypeOK'
  BY <1>12 DEF Report, LocalStart, Enters, Clips
<1>13. ASSUME NEW x \in ApiClips, ApiSend(x) PROVE TypeOK'
  BY <1>13 DEF ApiSend, LocalStart, Enters, Clips
<1>14. ASSUME NEW q \in Peers, registerPeer(q) \/ unregisterPeer(q) PROVE TypeOK'
  BY <1>14 DEF registerPeer, unregisterPeer
<1>16. ASSUME NEW t \in Targets, Drop(t) PROVE TypeOK'
  BY <1>16 DEF Drop
<1>18. CASE UNCHANGED vars
  BY <1>18 DEF vars
<1> QED BY <1>1, <1>3, <1>4, <1>5, <1>6, <1>7, <1>8, <1>9, <1>10, <1>11, <1>12,
           <1>13, <1>14, <1>16, <1>18
        DEF Next, Handshake, Serve, Send, Input, Link, Environment

\* Every variable of the hub keeps its type; in particular whatever a
\* goroutine checks, writes or broadcasts is a clip that came in.
THEOREM TypeCorrect == Spec => []TypeOK
  BY TypeInit, TypeStep, PTL DEF Spec

----------------------------------------------------------------------------
(* The registry *)

\* Nothing is ahead of a broadcast when no broadcast is in progress.
LockInv ==
    /\ TargetsRegistered
    /\ mu = None => todo = {}

RegInv == TypeOK /\ RegistryExact /\ LockInv

LEMMA RegInit == Init => RegInv
  BY TypeInit DEF Init, RegInv, RegistryExact, LockInv, TargetsRegistered, Live

LEMMA RegStep == RegInv /\ [Next]_vars => RegInv'
<1> SUFFICES ASSUME RegInv, [Next]_vars PROVE RegInv'
  OBVIOUS
<1>0. TypeOK /\ TypeOK'
  BY TypeStep DEF RegInv
<1> USE <1>0 DEF RegInv, RegistryExact, LockInv, TargetsRegistered, Live, threads, registry
<1>1. ASSUME NEW c \in Conns, Accept(c) PROVE RegInv'
  BY <1>1 DEF Accept, TypeOK
<1>2. ASSUME NEW c \in Conns, Refuse(c) PROVE RegInv'
  BY <1>2 DEF Refuse, TypeOK
<1>3. ASSUME NEW c \in Conns, Hello(c) \/ HelloFails(c) \/ ReadHook(c)
                              \/ HelloReply(c) \/ ReadFails(c)
      PROVE  RegInv'
  BY <1>3 DEF Hello, HelloFails, ReadHook, HelloReply, ReadFails, Goto, TypeOK
<1>4. ASSUME NEW c \in Conns, NEW m \in Messages, ReadClip(c, m) PROVE RegInv'
  BY <1>4 DEF ReadClip, TypeOK
<1>5. ASSUME NEW c \in Conns, Leave(c) PROVE RegInv'
  BY <1>5 DEF Leave, TypeOK
<1>6. ASSUME NEW c \in Conns, Dedup(c) \/ Apply(c) PROVE RegInv'
  BY <1>6 DEF Dedup, Apply, TypeOK
<1>7. ASSUME NEW p \in Threads, DropBig(p) PROVE RegInv'
  BY <1>7 DEF DropBig, TooBig, Return, Goto, TypeOK
<1>8. ASSUME NEW p \in Threads, Begin(p) PROVE RegInv'
  <2>1. RegistryExact'
    BY <1>8 DEF Begin, TypeOK
  <2>2. TargetsRegistered'
    BY <1>8 DEF Begin, TypeOK
  <2>3. mu' # None
    BY <1>8 DEF Begin
  <2> QED BY <2>1, <2>2, <2>3
<1>9. ASSUME NEW p \in Threads, NEW t \in Targets, Write(p, t) PROVE RegInv'
  BY <1>9 DEF Write, Turn, Skip, Deliver, WriteFails, TypeOK
<1>10. ASSUME NEW p \in Threads, Finish(p) PROVE RegInv'
  <2>1. RegistryExact'
    BY <1>10 DEF Finish, Return, TypeOK
  <2>2. \A r \in Threads : r # p => pc'[r] = pc[r] /\ pc[r] # "send"
    BY <1>10 DEF Finish, TypeOK
  <2>3. pc'[p] # "send"
    BY <1>10 DEF Finish, Return, TypeOK
  <2> QED BY <1>10, <2>1, <2>2, <2>3 DEF Finish
<1>11. ASSUME (\E x \in LocalClips : Report(x)) \/ (\E x \in ApiClips : ApiSend(x))
       PROVE  RegInv'
  BY <1>11 DEF Report, ApiSend, LocalStart, TypeOK
<1>12. ASSUME NEW q \in Peers, registerPeer(q) \/ unregisterPeer(q) PROVE RegInv'
  BY <1>12 DEF registerPeer, unregisterPeer, TypeOK
<1>14. ASSUME Environment PROVE RegInv'
  BY <1>14 DEF Environment, Drop
<1>15. CASE UNCHANGED vars
  BY <1>15 DEF vars
<1> QED BY <1>1, <1>2, <1>3, <1>4, <1>5, <1>6, <1>7, <1>8, <1>9, <1>10, <1>11,
           <1>12, <1>14, <1>15
        DEF Next, Handshake, Serve, Send, Input, Link

\* The registry holds exactly the connections being served, for any number
\* of connections (handlers.go:30-50).
THEOREM RegistryIsExact == Spec => []RegistryExact
<1>1. RegInv => RegistryExact
  BY DEF RegInv
<1> QED BY RegInit, RegStep, <1>1, PTL DEF Spec

\* Only the holder of s.mu broadcasts, and only to registered targets
\* (broadcast.go:21-33, 44-57).
THEOREM BroadcastIsLocked == Spec => []TargetsRegistered
<1>1. RegInv => TargetsRegistered
  BY DEF RegInv, LockInv
<1> QED BY RegInit, RegStep, <1>1, PTL DEF Spec

----------------------------------------------------------------------------
(* The limit on clients *)

LEMMA CapStep ==
    IsFiniteSet(clients) /\ ClientCap /\ [Next]_vars => (IsFiniteSet(clients) /\ ClientCap)'
<1> SUFFICES ASSUME IsFiniteSet(clients), ClientCap, [Next]_vars
             PROVE  (IsFiniteSet(clients) /\ ClientCap)'
  OBVIOUS
<1>1. ASSUME NEW c \in Conns, Accept(c) PROVE (IsFiniteSet(clients) /\ ClientCap)'
  <2>1. clients' = clients \cup {c} /\ (MaxClients > 0 => Cardinality(clients) < MaxClients)
    BY <1>1, FS_CardinalityType DEF Accept, Full
  <2>2. IsFiniteSet(clients') /\ Cardinality(clients') <= Cardinality(clients) + 1
    <3>1. /\ IsFiniteSet(clients \cup {c})
          /\ Cardinality(clients \cup {c}) \in {Cardinality(clients), Cardinality(clients) + 1}
      BY FS_AddElement
    <3> QED BY <2>1, <3>1, FS_CardinalityType
  <2> QED BY <2>1, <2>2, FS_CardinalityType DEF ClientCap
<1>2. ASSUME NEW c \in Conns, Leave(c) PROVE (IsFiniteSet(clients) /\ ClientCap)'
  <2>1. clients' = clients \ {c}
    BY <1>2 DEF Leave
  <2>2. IsFiniteSet(clients') /\ Cardinality(clients') <= Cardinality(clients)
    BY <2>1, FS_Subset, FS_CardinalityType
  <2> QED BY <2>2, FS_CardinalityType DEF ClientCap
<1>3. CASE UNCHANGED clients
  BY <1>3 DEF ClientCap
<1>4. UNCHANGED clients \/ \E c \in Conns : Accept(c) \/ Leave(c)
  BY DEF Next, Handshake, Refuse, Hello, HelloFails, ReadHook, HelloReply, Goto,
         Serve, ReadClip, ReadFails, Dedup, Apply, Send, DropBig, Begin, Write, Skip,
         Deliver, WriteFails, Finish, Input, Report, ApiSend, LocalStart, Link, registerPeer,
         unregisterPeer, Environment, Drop,
         registry, vars
<1> QED BY <1>1, <1>2, <1>3, <1>4

\* The registry never exceeds MaxClients (handlers.go:30-38).
THEOREM ClientsAreCapped == Spec => []ClientCap
<1>1. Init => IsFiniteSet(clients) /\ ClientCap
  BY FS_EmptySet DEF Init, ClientCap
<1> QED BY <1>1, CapStep, PTL DEF Spec

----------------------------------------------------------------------------
(* Delivery *)

\* The broadcast in progress is the newest of the log, and its targets ahead
\* have not received it.
OrderInv ==
    /\ \A p \in Threads : pc[p] = "send" => entry[p] = Len(log) /\ p \notin todo
    /\ \A t \in Targets : F!Latest(t) \in Nat /\ F!Latest(t) <= Len(log)
    /\ \A t \in todo : F!Latest(t) < Len(log)

\* The targets behind it have, unless their connection is closed.
BehindInv ==
    \A c \in Conns : pc[c] = "send" =>
        \A t \in (clients \cup peers) \ todo :
            up[t] => (F!Latest(t) = entry[c] <=> t # c)

DeliveryInv == RegInv /\ OrderInv /\ BehindInv

LEMMA LatestOf ==
    ASSUME TypeOK, NEW t \in Targets, NEW u \in Targets, NEW n \in Nat,
           got' = [got EXCEPT ![t] = Append(@, n)]
    PROVE  F!Latest(u)' = IF u = t THEN n ELSE F!Latest(u)
<1>1. CASE u = t
  <2>1. got[t] \in Seq(Nat) /\ got'[t] = Append(got[t], n)
    BY DEF TypeOK
  <2>2. got'[t] # <<>> /\ got'[t][Len(got'[t])] = n
    BY <2>1
  <2> QED BY <1>1, <2>2 DEF F!Latest
<1>2. CASE u # t
  BY <1>2 DEF TypeOK, F!Latest
<1> QED BY <1>1, <1>2

LEMMA DeliveryInit == Init => DeliveryInv
<1> SUFFICES ASSUME Init PROVE DeliveryInv
  OBVIOUS
<1>1. \A t \in Targets : F!Latest(t) = 0
  BY DEF Init, F!Latest
<1>2. Len(log) = 0 /\ todo = {} /\ \A p \in Threads : pc[p] # "send"
  BY DEF Init
<1> QED BY RegInit, <1>1, <1>2 DEF DeliveryInv, OrderInv, BehindInv

\* Steps that touch neither a broadcast nor the registry.
LEMMA Frame ==
    ASSUME DeliveryInv, RegInv',
           UNCHANGED <<entry, clients, peers, todo, got, log>>,
           \A p \in Threads : pc'[p] = "send" => pc[p] = "send",
           \A t \in Targets : up'[t] => up[t]
    PROVE  DeliveryInv'
<1>1. \A t \in Targets : F!Latest(t)' = F!Latest(t)
  BY DEF F!Latest
<1>2. clients \cup peers \subseteq Targets /\ todo \subseteq Targets
  BY DEF DeliveryInv, RegInv, TypeOK
<1>3. OrderInv'
  BY <1>1, <1>2 DEF DeliveryInv, OrderInv
<1>4. BehindInv'
  BY <1>1, <1>2 DEF DeliveryInv, BehindInv
<1> QED BY <1>3, <1>4 DEF DeliveryInv

\* Steps after which nobody broadcasts, or nobody relays.
LEMMA IdleFrame ==
    ASSUME DeliveryInv, RegInv',
           UNCHANGED <<got, log, entry>>, todo' \subseteq todo,
           \A p \in Threads : pc'[p] = "send" => pc[p] = "send" /\ p \in Locals
    PROVE  DeliveryInv'
<1>1. \A t \in Targets : F!Latest(t)' = F!Latest(t)
  BY DEF F!Latest
<1>2. todo \subseteq Targets
  BY DEF DeliveryInv, RegInv, TypeOK
<1>3. OrderInv'
  BY <1>1, <1>2 DEF DeliveryInv, OrderInv
<1>4. BehindInv'
  BY DEF BehindInv
<1> QED BY <1>3, <1>4 DEF DeliveryInv

LEMMA DeliveryStep == DeliveryInv /\ [Next]_vars => DeliveryInv'
<1> SUFFICES ASSUME DeliveryInv, [Next]_vars PROVE DeliveryInv'
  OBVIOUS
<1>0. RegInv /\ RegInv' /\ TypeOK /\ Len(log) \in Nat
  BY RegStep DEF DeliveryInv, RegInv, TypeOK
<1>a. mu = None => \A p \in Threads : pc[p] # "send"
  BY <1>0 DEF RegInv, LockInv, TargetsRegistered
<1> USE <1>0 DEF threads, registry, traffic
<1>1. ASSUME NEW c \in Conns, Accept(c) \/ Leave(c) PROVE DeliveryInv'
  <2>1. mu = None /\ UNCHANGED <<got, log, entry, todo>>
    BY <1>1 DEF Accept, Leave
  <2>2. \A p \in Threads : pc'[p] # "send"
    BY <1>1, <1>a, <2>1 DEF Accept, Leave, TypeOK
  <2> QED BY <2>1, <2>2, IdleFrame
<1>2. ASSUME NEW c \in Conns, NEW s \in {"hook", "leave", "reply", "loop", "gone"}, Goto(c, s)
      PROVE  DeliveryInv'
  <2>1. UNCHANGED <<entry, clients, peers, todo, got, log, up>>
    BY <1>2 DEF Goto
  <2>2. \A p \in Threads : pc'[p] = "send" => pc[p] = "send"
    BY <1>2 DEF Goto, TypeOK
  <2> QED BY <2>1, <2>2, Frame
<1>3. ASSUME NEW c \in Conns, Refuse(c) \/ Hello(c) \/ HelloFails(c) \/ ReadHook(c)
                              \/ HelloReply(c) \/ ReadFails(c)
      PROVE  DeliveryInv'
  <2>1. \E s \in {"hook", "leave", "reply", "loop", "gone"} : Goto(c, s)
    BY <1>3 DEF Refuse, Hello, HelloFails, ReadHook, HelloReply, ReadFails, Goto
  <2> QED BY <2>1, <1>2
<1>4. ASSUME NEW c \in Conns, NEW m \in Messages, ReadClip(c, m) PROVE DeliveryInv'
  <2>1. UNCHANGED <<entry, clients, peers, todo, got, log, up>>
    BY <1>4 DEF ReadClip
  <2>2. \A p \in Threads : pc'[p] = "send" => pc[p] = "send"
    BY <1>4 DEF ReadClip, TypeOK
  <2> QED BY <2>1, <2>2, Frame
<1>6. ASSUME NEW c \in Conns, Dedup(c) \/ Apply(c) PROVE DeliveryInv'
  <2>1. UNCHANGED <<entry, clients, peers, todo, got, log, up>>
    BY <1>6 DEF Dedup, Apply
  <2>2. \A p \in Threads : pc'[p] = "send" => pc[p] = "send"
    BY <1>6 DEF Dedup, Apply, TypeOK
  <2> QED BY <2>1, <2>2, Frame
<1>7. ASSUME NEW p \in Threads, DropBig(p) PROVE DeliveryInv'
  <2>1. p \in Conns /\ Goto(p, "loop")
    BY <1>7 DEF DropBig, TooBig, Return
  <2> QED BY <2>1, <1>2
<1>8. ASSUME NEW p \in Threads, Begin(p) PROVE DeliveryInv'
  <2>1. /\ log' = Append(log, [clip |-> work[p], by |-> p])
        /\ entry' = [entry EXCEPT ![p] = Len(log) + 1]
        /\ pc' = [pc EXCEPT ![p] = "send"]
        /\ todo' = (clients \ {p}) \cup peers
        /\ UNCHANGED <<up, clients, peers, got>>
    BY <1>8 DEF Begin
  <2>2. Len(log') = Len(log) + 1
    BY <2>1 DEF TypeOK
  <2>3. \A r \in Threads : r # p => pc[r] # "send" /\ pc'[r] = pc[r]
    BY <1>8, <2>1 DEF Begin, RegInv, LockInv, TargetsRegistered, TypeOK
  <2>4. entry'[p] = Len(log')
    BY <2>1, <2>2 DEF TypeOK
  <2>5. \A t \in Targets : F!Latest(t)' = F!Latest(t)
    BY <2>1 DEF F!Latest
  <2>6. p \notin todo' /\ todo' \subseteq Targets
    BY <2>1 DEF TypeOK
  <2>7. OrderInv'
    BY <2>1, <2>2, <2>3, <2>4, <2>5, <2>6 DEF DeliveryInv, OrderInv
  <2>8. \A t \in (clients' \cup peers') \ todo' : t = p /\ F!Latest(t)' # entry'[p]
    BY <2>1, <2>2, <2>4, <2>5 DEF DeliveryInv, OrderInv, TypeOK
  <2>9. BehindInv'
    BY <2>3, <2>8 DEF BehindInv
  <2> QED BY <2>7, <2>9 DEF DeliveryInv
<1>9. ASSUME NEW p \in Threads, NEW t \in Targets, Skip(p, t) PROVE DeliveryInv'
  <2>1. p \in Locals /\ mu = p /\ UNCHANGED <<pc, entry, got, log>> /\ todo' \subseteq todo
    BY <1>9 DEF Skip, MaySkip, Turn, RegInv, LockInv, TargetsRegistered
  <2>2. \A r \in Threads : pc'[r] = "send" => pc[r] = "send" /\ r = p
    BY <2>1 DEF RegInv, LockInv, TargetsRegistered
  <2> QED BY <2>1, <2>2, IdleFrame
<1>10. ASSUME NEW p \in Threads, NEW t \in Targets, Deliver(p, t) PROVE DeliveryInv'
  <2>1. /\ pc[p] = "send" /\ mu = p /\ t \in todo /\ todo' = todo \ {t}
        /\ got' = [got EXCEPT ![t] = Append(@, entry[p])]
        /\ UNCHANGED <<pc, entry, up, clients, peers, log>>
    BY <1>10 DEF Deliver, Turn, RegInv, LockInv, TargetsRegistered
  <2>2. entry[p] = Len(log) /\ t # p /\ todo \subseteq Targets
    BY <2>1 DEF DeliveryInv, OrderInv, TypeOK
  <2>3. \A u \in Targets : F!Latest(u)' = IF u = t THEN Len(log) ELSE F!Latest(u)
    BY <2>1, <2>2, LatestOf
  <2>4. OrderInv'
    BY <2>1, <2>2, <2>3 DEF DeliveryInv, OrderInv
  <2>5. \A c \in Conns : pc'[c] = "send" => c = p
    BY <2>1 DEF RegInv, LockInv, TargetsRegistered
  <2>6. clients \cup peers \subseteq Targets
    BY DEF TypeOK
  <2>7. BehindInv'
    BY <2>1, <2>2, <2>3, <2>5, <2>6 DEF DeliveryInv, BehindInv
  <2> QED BY <2>4, <2>7 DEF DeliveryInv
<1>11. ASSUME NEW p \in Threads, NEW t \in Targets, WriteFails(p, t) PROVE DeliveryInv'
  <2>1. /\ UNCHANGED <<pc, entry, clients, peers, got, log>>
        /\ todo' = todo \ {t} /\ up' = [up EXCEPT ![t] = FALSE]
    BY <1>11 DEF WriteFails
  <2>2. \A u \in Targets : F!Latest(u)' = F!Latest(u)
    BY <2>1 DEF F!Latest
  <2>3. clients \cup peers \subseteq Targets /\ todo \subseteq Targets
    BY DEF TypeOK
  <2>4. OrderInv'
    BY <2>1, <2>2, <2>3 DEF DeliveryInv, OrderInv
  <2>5. \A u \in Targets : up'[u] => up[u] /\ u # t
    BY <2>1 DEF TypeOK
  <2>6. BehindInv'
    BY <2>1, <2>2, <2>3, <2>5 DEF DeliveryInv, BehindInv
  <2> QED BY <2>4, <2>6 DEF DeliveryInv
<1>12. ASSUME NEW p \in Threads, Finish(p) PROVE DeliveryInv'
  <2>1. UNCHANGED <<got, log, entry, todo>>
    BY <1>12 DEF Finish
  <2>2. \A r \in Threads : pc'[r] # "send"
    BY <1>12 DEF Finish, Return, RegInv, LockInv, TargetsRegistered, TypeOK
  <2> QED BY <2>1, <2>2, IdleFrame
<1>13. ASSUME (\E x \in LocalClips : Report(x)) \/ (\E x \in ApiClips : ApiSend(x))
       PROVE  DeliveryInv'
  <2>1. UNCHANGED <<entry, clients, peers, todo, got, log, up>>
    BY <1>13 DEF Report, ApiSend, LocalStart
  <2>2. \A p \in Threads : pc'[p] = "send" => pc[p] = "send"
    BY <1>13 DEF Report, ApiSend, LocalStart, TypeOK
  <2> QED BY <2>1, <2>2, Frame
<1>14. ASSUME NEW q \in Peers, registerPeer(q) \/ unregisterPeer(q) PROVE DeliveryInv'
  <2>1. mu = None /\ UNCHANGED <<got, log, entry, todo, pc>>
    BY <1>14 DEF registerPeer, unregisterPeer
  <2> QED BY <2>1, <1>a, IdleFrame
<1>16. ASSUME Environment PROVE DeliveryInv'
  <2>1. UNCHANGED <<entry, clients, peers, todo, got, log, pc>>
    BY <1>16 DEF Environment, Drop
  <2>2. \A t \in Targets : up'[t] => up[t]
    BY <1>16 DEF Environment, Drop, TypeOK
  <2> QED BY <2>1, <2>2, Frame
<1>17. CASE UNCHANGED vars
  <2>1. UNCHANGED <<entry, clients, peers, todo, got, log, up, pc>>
    BY <1>17 DEF vars
  <2> QED BY <2>1, Frame
<1> QED BY <1>1, <1>3, <1>4, <1>6, <1>7, <1>8, <1>9, <1>10, <1>11, <1>12,
           <1>13, <1>14, <1>16, <1>17
        DEF Next, Handshake, Serve, Send, Write, Input, Link

\* Relaying a clip misses no client and no peer whose connection is open, and
\* never comes back to the origin (broadcast.go:13-34).
THEOREM RelaysAreComplete == Spec => []RelayReachesAll
<1>1. DeliveryInv => RelayReachesAll
  BY DEF DeliveryInv, BehindInv, RelayReachesAll
<1> QED BY DeliveryInit, DeliveryStep, <1>1, PTL DEF Spec

\* The hub implements the abstract fan-out: one order of broadcasts for
\* everybody, for any number of clients, peers and local senders.
THEOREM HubImplementsFanout == Spec => FanoutSpec
<1>1. Init => F!Init
  BY DEF Init, F!Init
<1>2. DeliveryInv /\ [Next]_vars => [F!Next]_<<log, got>>
  <2> SUFFICES ASSUME DeliveryInv, [Next]_vars PROVE [F!Next]_<<log, got>>
    OBVIOUS
  <2>1. ASSUME NEW p \in Threads, Begin(p) PROVE F!Next
    <3>1. F!Post([clip |-> work[p], by |-> p])
      BY <2>1 DEF Begin, F!Post
    <3>2. [clip |-> work[p], by |-> p] \in [clip : Clips, by : Threads]
      BY <2>1 DEF Begin, Busy, DeliveryInv, RegInv, TypeOK
    <3> QED BY <3>1, <3>2 DEF F!Next
  <2>2. ASSUME NEW p \in Threads, NEW t \in Targets, Deliver(p, t) PROVE F!Next
    <3>1. F!Deliver(t)
      BY <2>2 DEF Deliver, Turn, DeliveryInv, OrderInv, F!Deliver, traffic
    <3> QED BY <3>1 DEF F!Next
  <2>3. \/ UNCHANGED <<log, got>>
        \/ \E p \in Threads : Begin(p) \/ \E t \in Targets : Deliver(p, t)
    BY DEF Next, Handshake, Accept, Refuse, Hello, HelloFails, ReadHook, HelloReply,
           Goto, Serve, ReadClip, ReadFails, Leave, Dedup, Apply, Send, DropBig, Write,
           Skip, WriteFails, Finish, Input, Report, ApiSend, LocalStart, Link, registerPeer,
           unregisterPeer, Environment, Drop,
           traffic, vars
  <2> QED BY <2>1, <2>2, <2>3
<1> QED BY DeliveryInit, DeliveryStep, <1>1, <1>2, PTL DEF Spec, FanoutSpec, F!Spec

----------------------------------------------------------------------------
(* What follows from the abstract fan-out alone *)

\* What a target received are increasing positions of the log.
Increasing(s) == \A i, j \in 1..Len(s) : i < j => s[i] < s[j]
GotInv ==
    /\ Len(log) \in Nat
    /\ got \in [Targets -> Seq(Nat)]
    /\ \A t \in Targets : Increasing(got[t]) /\ \A i \in 1..Len(got[t]) : got[t][i] <= Len(log)

\* Appending a number above the last keeps a sequence increasing.
LEMMA AppendIncreases ==
    ASSUME NEW s \in Seq(Nat), Increasing(s), NEW n \in Nat,
           s = <<>> \/ s[Len(s)] < n
    PROVE  Increasing(Append(s, n))
<1> DEFINE r == Append(s, n)
<1>1. Len(r) = Len(s) + 1 /\ r[Len(s) + 1] = n /\ \A i \in 1..Len(s) : r[i] = s[i]
  OBVIOUS
<1>2. \A i \in 1..Len(s) : s[i] < n
  <2> SUFFICES ASSUME NEW i \in 1..Len(s) PROVE s[i] < n
    OBVIOUS
  <2>1. s[Len(s)] < n /\ (i = Len(s) \/ s[i] < s[Len(s)])
    BY DEF Increasing
  <2>2. s[i] \in Nat /\ s[Len(s)] \in Nat
    OBVIOUS
  <2> QED BY <2>1, <2>2
<1>3. ASSUME NEW i \in 1..Len(r), NEW j \in 1..Len(r), i < j PROVE r[i] < r[j]
  <2>1. i \in 1..Len(s) /\ (j \in 1..Len(s) \/ j = Len(s) + 1)
    BY <1>1, <1>3
  <2> QED BY <1>1, <1>2, <1>3, <2>1 DEF Increasing
<1> QED BY <1>3 DEF Increasing

LEMMA GotStep ==
    ASSUME GotInv, log \in Seq([clip : Clips, by : Threads]), [F!Next]_<<log, got>>
    PROVE  GotInv'
<1>1. ASSUME NEW x, F!Post(x) PROVE GotInv'
  <2>1. Len(log') = Len(log) + 1 /\ got' = got
    BY <1>1 DEF F!Post
  <2>2. \A t \in Targets : \A i \in 1..Len(got[t]) : got[t][i] \in Nat
    BY DEF GotInv
  <2> QED BY <2>1, <2>2 DEF GotInv
<1>2. ASSUME NEW t \in Targets, F!Deliver(t) PROVE GotInv'
  <2>1. /\ Len(log) \in Nat /\ log' = log
        /\ got[t] \in Seq(Nat)
        /\ got[t] = <<>> \/ got[t][Len(got[t])] < Len(log)
        /\ got' = [got EXCEPT ![t] = Append(got[t], Len(log))]
    BY <1>2 DEF F!Deliver, F!Latest, GotInv
  <2>2. got'[t] = Append(got[t], Len(log)) /\ \A u \in Targets : u # t => got'[u] = got[u]
    BY <2>1 DEF GotInv
  <2>3. Increasing(got'[t])
    BY <2>1, <2>2, AppendIncreases DEF GotInv
  <2>4. \A i \in 1..Len(got'[t]) : got'[t][i] <= Len(log)
    BY <2>1, <2>2 DEF GotInv
  <2>5. got' \in [Targets -> Seq(Nat)]
    BY <2>1 DEF GotInv
  <2> QED BY <2>1, <2>2, <2>3, <2>4, <2>5 DEF GotInv
<1>3. CASE UNCHANGED <<log, got>>
  BY <1>3 DEF GotInv
<1> QED BY <1>1, <1>2, <1>3 DEF F!Next

\* No client or peer receives a broadcast twice or after a newer one, so any
\* two see the broadcasts they both receive in the same order
\* (broadcast.go:13-57).
THEOREM DeliveriesAreOrdered == Spec => []F!InOrder
<1>1. Init => GotInv
  BY DEF Init, GotInv, Increasing
<1>2. GotInv => F!InOrder
  BY DEF GotInv, Increasing, F!InOrder
<1>3. TypeOK /\ GotInv /\ [F!Next]_<<log, got>> => GotInv'
  BY GotStep DEF TypeOK
<1> QED BY HubImplementsFanout, TypeCorrect, <1>1, <1>2, <1>3, PTL DEF Spec, FanoutSpec, F!Spec
=============================================================================
