-------------------------- MODULE TransientProofs --------------------------
(***************************************************************************)
(* Proofs about Transient, for any number of connections and any clips.    *)
(***************************************************************************)
EXTENDS Transient, FiniteSetTheorems, TLAPS

USE TransientAssumption

\* The variables of the network and of the handlers' hand-over.
shared == <<pc, up, clients, greeted, signal, once, panicked, got, command>>

LEMMA CommandLeaves ==
    [Command \/ Expire]_vars => UNCHANGED shared
BY DEF Command, Ask, Listen, Signalled, Timeout, Interrupt, Expire, End, vars, process, handler,
       registry, handover, clips, shared

----------------------------------------------------------------------------
(* Types *)

\* The variables keep their types (send.go:77-121, watch.go:41-97).
THEOREM TypeCorrect == Spec => []TypeOK
<1>1. Init => TypeOK
  BY DEF Init, TypeOK
<1>2. TypeOK /\ [Next]_vars => TypeOK'
  <2> SUFFICES ASSUME TypeOK, [Next]_vars PROVE TypeOK'
    OBVIOUS
  <2>1. CASE UNCHANGED vars
    BY <2>1 DEF TypeOK, vars, process, handler, registry, handover, clips
  <2>2. CASE Command
    BY <2>2 DEF TypeOK, Command, Ask, Listen, Signalled, Timeout, Interrupt, End, Running,
       handler, registry, handover, clips
  <2>3. CASE Expire
    BY <2>3 DEF TypeOK, Expire, process, handler, registry, handover
  <2>4. ASSUME NEW c \in Conns, NEW s, Goto(c, s),
               s \in {"gone", "leave", "hook", "reply", "loop", "check", "close"}
        PROVE TypeOK'
    BY <2>4 DEF TypeOK, Goto, process, registry, handover, clips
  <2>5. ASSUME NEW c \in Conns, Handshake(c) PROVE TypeOK'
    <3>1. CASE Refuse(c) \/ HelloFails(c) \/ HookOver(c) \/ HelloReply(c)
      BY <2>4, <3>1 DEF Refuse, HelloFails, HookOver, HelloReply
    <3>2. CASE Accept(c)
      BY <3>2 DEF TypeOK, Accept, process, handover, clips
    <3>3. CASE Hello(c)
      BY <3>3 DEF TypeOK, Hello, process, handover, clips
    <3>4. CASE Hook(c)
      BY <3>4 DEF TypeOK, Hook, process, registry, clips
    <3>5. CASE Push(c)
      <4>1. got' \subseteq Conns /\ up' \subseteq Conns
        BY <3>5 DEF TypeOK, Push
      <4> QED BY <3>5, <4>1 DEF TypeOK, Push, process, handover
    <3>6. CASE Mark(c)
      BY <3>6 DEF TypeOK, Mark, CloseChannel, process, registry, clips
    <3> QED BY <2>5, <3>1, <3>2, <3>3, <3>4, <3>5, <3>6 DEF Handshake
  <2>6. ASSUME NEW c \in Conns, Serve(c) PROVE TypeOK'
    <3>1. CASE Ignore(c) \/ WriteFails(c) \/ ReadFails(c)
      BY <2>4, <3>1 DEF Ignore, WriteFails, ReadFails
    <3>2. CASE CheckSignal(c)
      BY <2>4, <3>2 DEF CheckSignal
    <3>3. ASSUME NEW x \in Pushes, ReadPush(c, x) PROVE TypeOK'
      BY <3>3 DEF TypeOK, ReadPush, process, registry, handover
    <3>4. CASE Write(c)
      BY <3>4 DEF TypeOK, Write, process, registry, handover
    <3>5. CASE CloseSignal(c)
      BY <3>5 DEF TypeOK, CloseSignal, CloseChannel, process, registry, clips
    <3>6. CASE Leave(c)
      BY <3>6 DEF TypeOK, Leave, process, handover, clips
    <3> QED BY <2>6, <3>1, <3>2, <3>3, <3>4, <3>5, <3>6 DEF Serve
  <2>7. ASSUME NEW c \in Conns, Drop(c) PROVE TypeOK'
    BY <2>7 DEF TypeOK, Drop, process, handler, handover, clips
  <2> QED BY <2>1, <2>2, <2>3, <2>5, <2>6, <2>7 DEF Next
<1> QED BY <1>1, <1>2, PTL DEF Spec

----------------------------------------------------------------------------
(* One client at a time *)

\* The registry holds the connection being served, and there is only one.
OneClient ==
    /\ \A c \in Conns : pc[c] \notin {"new", "gone"} <=> c \in clients
    /\ \A c, d \in clients : c = d

\* Who is past the handshake, or was, has said hello.
Greeted ==
    /\ \A c \in Conns : pc[c] \notin {"new", "hello", "leave", "gone"} => c \in greeted
    /\ \A c \in greeted : pc[c] # "new"

\* What the stages of send's hook and of watch's callback rely on: the one
\* client being served is the only one that can close the channel.
Stages ==
    /\ once = "fresh" => got = {}
    /\ command = "send" /\ once = "fresh" => signal = "open"
    /\ \A c \in Conns :
        /\ pc[c] = "push" => got = {}
        /\ pc[c] \in {"push", "mark"} =>
               once # "fresh" /\ command = "send" /\ signal = "open"
        /\ pc[c] = "mark" /\ got = {} => c \notin up
        /\ pc[c] \in {"check", "close"} => command = "watch"
        /\ pc[c] = "close" => signal = "open"

HandoverOK ==
    /\ TypeOK /\ OneClient /\ Greeted /\ Stages
    /\ SentOnce /\ NeverPanics /\ ServedOrBroken

\* A server that is not full serves nobody.
LEMMA NotFull ==
    TypeOK /\ ~Full => clients = {}
<1> SUFFICES ASSUME TypeOK, ~Full PROVE clients = {}
  OBVIOUS
<1>1. IsFiniteSet(clients)
  BY FS_Subset DEF TypeOK
<1>2. Cardinality(clients) = 0
  BY <1>1, FS_CardinalityType DEF Full
<1> QED BY <1>1, <1>2, FS_EmptySet

LEMMA HandoverInvariant == Spec => []HandoverOK
<1>1. Init => HandoverOK
  BY DEF Init, HandoverOK, TypeOK, OneClient, Greeted, Stages, OnlyGreeted, SentOnce,
     NeverPanics, ServedOrBroken
<1>2. HandoverOK /\ TypeOK' /\ [Next]_vars => HandoverOK'
  <2> SUFFICES ASSUME HandoverOK, TypeOK', [Next]_vars PROVE HandoverOK'
    OBVIOUS
  <2> DEFINE Rest == OnlyGreeted /\ SentOnce /\ NeverPanics /\ ServedOrBroken
  <2> SUFFICES OneClient' /\ Greeted' /\ Stages' /\ Rest'
    BY DEF HandoverOK
  <2> USE DEF HandoverOK, TypeOK
  <2>1. CASE UNCHANGED shared
    BY <2>1 DEF shared, OneClient, Greeted, Stages, OnlyGreeted, SentOnce, NeverPanics, ServedOrBroken
  <2>2. ASSUME NEW c \in Conns, NEW s \in {"reply", "loop", "leave"}, Goto(c, s),
               pc[c] \notin {"new", "gone"}, c \in greeted
        PROVE OneClient' /\ Greeted' /\ Stages' /\ Rest'
    <3>1. OneClient' /\ Greeted'
      BY <2>2 DEF Goto, registry, OneClient, Greeted
    <3>2. Stages'
      BY <2>2 DEF Goto, process, registry, handover, clips, Stages
    <3>3. Rest'
      BY <2>2 DEF Goto, process, registry, handover, clips, OnlyGreeted, SentOnce, NeverPanics,
         ServedOrBroken
    <3> QED BY <3>1, <3>2, <3>3
  <2>6. ASSUME NEW c \in Conns, Goto(c, "leave"), pc[c] = "hello"
        PROVE OneClient' /\ Greeted' /\ Stages' /\ Rest'
    <3>1. OneClient' /\ Greeted'
      BY <2>6 DEF Goto, registry, OneClient, Greeted
    <3>2. Stages'
      BY <2>6 DEF Goto, process, registry, handover, clips, Stages
    <3>3. Rest'
      BY <2>6 DEF Goto, process, registry, handover, clips, OnlyGreeted, SentOnce, NeverPanics,
         ServedOrBroken
    <3> QED BY <3>1, <3>2, <3>3
  <2>3. ASSUME NEW c \in Conns, Handshake(c)
        PROVE OneClient' /\ Greeted' /\ Stages' /\ Rest'
    <3>1. CASE HelloFails(c) \/ HookOver(c) \/ HelloReply(c)
      <4>1. CASE HelloFails(c)
        BY <2>6, <4>1 DEF HelloFails
      <4>2. CASE HookOver(c)
        <5>1. Goto(c, "reply") /\ pc[c] = "hook" /\ c \in greeted
          BY <4>2 DEF HookOver, Greeted
        <5> QED BY <2>2, <5>1
      <4>3. CASE HelloReply(c)
        <5>1. Goto(c, "loop") /\ pc[c] = "reply" /\ c \in greeted
          BY <4>3 DEF HelloReply, Greeted
        <5> QED BY <2>2, <5>1
      <4> QED BY <3>1, <4>1, <4>2, <4>3
    <3>2. CASE Refuse(c)
      <4>1. OneClient' /\ Greeted'
        BY <3>2 DEF Refuse, Goto, registry, OneClient, Greeted
      <4>2. Stages'
        BY <3>2 DEF Refuse, Goto, process, registry, handover, clips, Stages
      <4>3. Rest'
        BY <3>2 DEF Refuse, Goto, process, registry, handover, clips, OnlyGreeted, SentOnce,
           NeverPanics, ServedOrBroken
      <4> QED BY <4>1, <4>2, <4>3
    <3>3. CASE Accept(c)
      <4>1. clients = {}
        BY <3>3, NotFull DEF Accept
      <4>2. c \notin greeted
        BY <3>3 DEF Accept, Greeted
      <4>3. OneClient' /\ Greeted'
        BY <3>3, <4>1, <4>2 DEF Accept, OneClient, Greeted
      <4>4. Stages'
        BY <3>3 DEF Accept, process, handover, clips, Stages
      <4>5. Rest'
        BY <3>3, <4>2 DEF Accept, process, handover, clips, OnlyGreeted, SentOnce, NeverPanics,
           ServedOrBroken
      <4> QED BY <4>3, <4>4, <4>5
    <3>4. CASE Hello(c)
      <4>1. OneClient' /\ Greeted'
        BY <3>4 DEF Hello, OneClient, Greeted
      <4>2. Stages'
        BY <3>4 DEF Hello, process, handover, clips, Stages
      <4>3. Rest'
        BY <3>4 DEF Hello, process, handover, clips, OnlyGreeted, SentOnce, NeverPanics,
           ServedOrBroken
      <4> QED BY <4>1, <4>2, <4>3
    <3>5. CASE Hook(c)
      <4>1. OneClient' /\ Greeted'
        BY <3>5 DEF Hook, registry, OneClient, Greeted
      <4>2. Stages'
        BY <3>5 DEF Hook, process, registry, clips, Stages
      <4>3. Rest'
        BY <3>5 DEF Hook, process, registry, clips, OnlyGreeted, SentOnce, NeverPanics,
           ServedOrBroken
      <4> QED BY <4>1, <4>2, <4>3
    <3>6. CASE Push(c)
      <4>1. clients = {c} /\ c \in greeted /\ got = {} /\ command = "send" /\ signal = "open"
        BY <3>6 DEF Push, OneClient, Greeted, Stages
      <4>2. \A d \in Conns : pc[d] \in {"push", "mark", "check", "close"} => d = c
        BY <4>1 DEF OneClient
      <4>3. PICK reached \in SUBSET (clients \cap up) :
                got' = got \cup reached /\ up' = (up \ clients) \cup reached
        BY <3>6 DEF Push
      <4>4. got' \subseteq {c} /\ (got' = {} => c \notin up')
        BY <4>1, <4>3
      <4>5. OneClient' /\ Greeted'
        BY <3>6 DEF Push, OneClient, Greeted
      <4>6. Stages'
        <5>1. once # "fresh"
          BY <3>6 DEF Push, Stages
        <5>2. \A d \in Conns : pc'[d] \in {"push", "mark", "check", "close"} => d = c /\ pc'[d] = "mark"
          BY <3>6, <4>2 DEF Push
        <5> QED BY <3>6, <4>1, <4>4, <5>1, <5>2 DEF Push, process, handover, Stages
      <4>7. Rest'
        BY <3>6, <4>1, <4>4 DEF Push, process, handover, OnlyGreeted, SentOnce, NeverPanics,
           ServedOrBroken
      <4> QED BY <4>5, <4>6, <4>7
    <3>7. CASE Mark(c)
      <4>1. c \in greeted /\ signal = "open" /\ clients = {c} /\ command = "send"
            /\ (got = {} => c \notin up)
        BY <3>7 DEF Mark, OneClient, Greeted, Stages
      <4>2. \A d \in Conns : pc'[d] \notin {"push", "mark", "check", "close"}
        BY <3>7, <4>1 DEF Mark, OneClient
      <4>3. OneClient' /\ Greeted'
        BY <3>7, <4>1 DEF Mark, registry, OneClient, Greeted
      <4>4. Stages'
        BY <3>7, <4>2 DEF Mark, CloseChannel, registry, clips, Stages
      <4>5. Rest'
        BY <3>7, <4>1 DEF Mark, CloseChannel, process, registry, clips, OnlyGreeted, SentOnce,
           NeverPanics, ServedOrBroken
      <4> QED BY <4>3, <4>4, <4>5
    <3> QED BY <2>3, <3>1, <3>2, <3>3, <3>4, <3>5, <3>6, <3>7 DEF Handshake
  <2>4. ASSUME NEW c \in Conns, Serve(c)
        PROVE OneClient' /\ Greeted' /\ Stages' /\ Rest'
    <3>1. CASE Ignore(c) \/ WriteFails(c) \/ ReadFails(c)
      BY <2>2, <3>1 DEF Ignore, WriteFails, ReadFails, Greeted
    <3>2. ASSUME NEW x \in Pushes, ReadPush(c, x)
          PROVE OneClient' /\ Greeted' /\ Stages' /\ Rest'
      <4>1. OneClient' /\ Greeted'
        BY <3>2 DEF ReadPush, registry, OneClient, Greeted
      <4>2. Stages'
        BY <3>2 DEF ReadPush, process, registry, handover, Stages
      <4>3. Rest'
        BY <3>2 DEF ReadPush, process, registry, handover, OnlyGreeted, SentOnce, NeverPanics,
           ServedOrBroken
      <4> QED BY <4>1, <4>2, <4>3
    <3>3. CASE Write(c)
      <4>1. OneClient' /\ Greeted'
        BY <3>3 DEF Write, registry, OneClient, Greeted
      <4>2. Stages'
        BY <3>3 DEF Write, process, registry, handover, Stages
      <4>3. Rest'
        BY <3>3 DEF Write, process, registry, handover, OnlyGreeted, SentOnce, NeverPanics,
           ServedOrBroken
      <4> QED BY <4>1, <4>2, <4>3
    <3>4. CASE CheckSignal(c)
      <4>1. OneClient' /\ Greeted'
        BY <3>4 DEF CheckSignal, Goto, registry, OneClient, Greeted
      <4>2. Stages'
        BY <3>4 DEF CheckSignal, Goto, process, registry, handover, clips, Stages
      <4>3. Rest'
        BY <3>4 DEF CheckSignal, Goto, process, registry, handover, clips, OnlyGreeted, SentOnce,
           NeverPanics, ServedOrBroken
      <4> QED BY <4>1, <4>2, <4>3
    <3>5. CASE CloseSignal(c)
      <4>1. signal = "open" /\ clients = {c} /\ command = "watch"
        BY <3>5 DEF CloseSignal, OneClient, Stages
      <4>2. \A d \in Conns : pc'[d] \notin {"push", "mark", "check", "close"}
        BY <3>5, <4>1 DEF CloseSignal, OneClient
      <4>3. OneClient' /\ Greeted'
        BY <3>5 DEF CloseSignal, registry, OneClient, Greeted
      <4>4. Stages'
        BY <3>5, <4>1, <4>2 DEF CloseSignal, CloseChannel, process, registry, clips, Stages
      <4>5. Rest'
        BY <3>5, <4>1 DEF CloseSignal, CloseChannel, process, registry, clips, OnlyGreeted,
           SentOnce, NeverPanics, ServedOrBroken
      <4> QED BY <4>3, <4>4, <4>5
    <3>6. CASE Leave(c)
      <4>1. OneClient' /\ Greeted'
        BY <3>6 DEF Leave, OneClient, Greeted
      <4>2. Stages'
        BY <3>6 DEF Leave, process, handover, clips, Stages
      <4>3. Rest'
        BY <3>6 DEF Leave, process, handover, clips, OnlyGreeted, SentOnce, NeverPanics,
           ServedOrBroken
      <4> QED BY <4>1, <4>2, <4>3
    <3> QED BY <2>4, <3>1, <3>2, <3>3, <3>4, <3>5, <3>6 DEF Serve
  <2>5. ASSUME NEW c \in Conns, Drop(c)
        PROVE OneClient' /\ Greeted' /\ Stages' /\ Rest'
    BY <2>5 DEF Drop, process, handler, handover, clips, OneClient, Greeted, Stages, OnlyGreeted,
       SentOnce, NeverPanics, ServedOrBroken
  <2> QED BY <2>1, <2>3, <2>4, <2>5, CommandLeaves DEF Next
<1> QED BY <1>1, <1>2, TypeCorrect, PTL DEF Spec

\* The clip of send goes to one client at most, which said hello (send.go:84-93).
THEOREM OneReceiver == Spec => []SentOnce
BY HandoverInvariant, PTL DEF HandoverOK

\* No channel is closed twice (watch.go:99-105, send.go:86-93).
THEOREM ClosedOnce == Spec => []NeverPanics
BY HandoverInvariant, PTL DEF HandoverOK

\* A clip of send that nobody got was lost with a connection (send.go:87-93).
THEOREM LostWithConnection == Spec => []ServedOrBroken
BY HandoverInvariant, PTL DEF HandoverOK
=============================================================================
