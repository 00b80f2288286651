----------------------------- MODULE MeshProofs -----------------------------
(* Theorems about Mesh: types in any mesh, the agreement of desktops where *)
(* links cover the mesh, and the absence of echoes where they form no loop.*)
EXTENDS Mesh, FiniteSetTheorems, WellFoundedInduction, TLAPS

USE MeshAssumption DEF MeshAssumption, Links, Client, Server

----------------------------------------------------------------------------
(* Wires *)

\* What a wire holds grows by the clip that is put on it.
LEMMA OfAppend ==
    ASSUME NEW s \in Seq(Clips), NEW x \in Clips
    PROVE  /\ Append(s, x) \in Seq(Clips)
           /\ ToSet(Append(s, x)) = ToSet(s) \cup {x}
           /\ IsInjective(s) /\ x \notin ToSet(s) => IsInjective(Append(s, x))
<1> DEFINE t == Append(s, x)
<1>1. t \in Seq(Clips) /\ Len(t) = Len(s) + 1
  OBVIOUS
<1>2. \A i \in DOMAIN t : t[i] = IF i = Len(s) + 1 THEN x ELSE s[i]
  OBVIOUS
<1>3. DOMAIN t = DOMAIN s \cup {Len(s) + 1} /\ Len(s) + 1 \notin DOMAIN s
  BY <1>1
<1> HIDE DEF t
<1>4. ToSet(t) = ToSet(s) \cup {x}
  BY <1>2, <1>3 DEF ToSet
<1>5. IsInjective(s) /\ x \notin ToSet(s) => IsInjective(t)
  BY <1>2, <1>3 DEF ToSet, IsInjective
<1> QED BY <1>1, <1>4, <1>5 DEF t

\* A clip that is taken off a wire leaves the others.
LEMMA OfTail ==
    ASSUME NEW s \in Seq(Clips), s # <<>>
    PROVE  /\ Tail(s) \in Seq(Clips)
           /\ Head(s) \in Clips /\ Head(s) \in ToSet(s)
           /\ ToSet(Tail(s)) \subseteq ToSet(s)
           /\ IsInjective(s) => IsInjective(Tail(s)) /\ Head(s) \notin ToSet(Tail(s))
<1> DEFINE t == Tail(s)
<1>1. t \in Seq(Clips) /\ Len(t) = Len(s) - 1 /\ Len(s) \in Nat \ {0}
  OBVIOUS
<1>2. \A i \in DOMAIN t : i \in Nat \ {0} /\ t[i] = s[i + 1] /\ i + 1 \in DOMAIN s
  BY <1>1
<1>3. Head(s) = s[1] /\ 1 \in DOMAIN s
  BY <1>1
<1> HIDE DEF t
<1>4. ToSet(t) \subseteq ToSet(s) /\ Head(s) \in ToSet(s)
  BY <1>2, <1>3 DEF ToSet
<1>5. ASSUME IsInjective(s) PROVE IsInjective(t) /\ Head(s) \notin ToSet(t)
  <2>1. \A i, j \in DOMAIN t : t[i] = t[j] => i = j
    BY <1>2, <1>5 DEF IsInjective
  <2>2. \A i \in DOMAIN t : t[i] # Head(s)
    BY <1>2, <1>3, <1>5 DEF IsInjective
  <2> QED BY <2>1, <2>2 DEF IsInjective, ToSet
<1> QED BY <1>1, <1>3, <1>4, <1>5 DEF t

LEMMA OfEmpty == ToSet(<<>>) = {} /\ IsInjective(<<>>)
  BY DEF ToSet, IsInjective

----------------------------------------------------------------------------
(* Types *)

Wires == [Links -> Seq(Clips)]

LEMMA Puts ==
    ASSUME NEW d \in Daemons, NEW x \in Clips, NEW w \in Wires, NEW skipped
    PROVE  /\ ToPeers(d, x, w) \in Wires
           /\ ToClients(d, x, skipped, w) \in Wires
  BY OfAppend DEF Wires, ToPeers, ToClients

LEMMA Takes ==
    ASSUME NEW w \in Wires, NEW l \in Links, w[l] # <<>>
    PROVE  Take(l, w) \in Wires /\ Head(w[l]) \in Clips
<1>1. Tail(w[l]) \in Seq(Clips) /\ Head(w[l]) \in Clips
  BY OfTail DEF Wires
<1> QED BY <1>1 DEF Wires, Take

\* A clipboard nobody has written yet is not reported.
Typed == TypeOK /\ \A d \in Daemons : Unread(d) => desktop[d] \in Clips

LEMMA TypeInit == Init => Typed
  BY DEF Init, TypeOK, Typed, Unread

LEMMA TypeStep == Typed /\ [Next]_vars => Typed'
<1> SUFFICES ASSUME Typed, [Next]_vars PROVE Typed'
  OBVIOUS
<1> USE DEF TypeOK, Typed, Unread
<1>0. up \in Wires /\ down \in Wires
  BY DEF Wires
<1>a. ASSUME NEW d \in Daemons, NEW x \in Clips, Counted(d, x)
      PROVE  sent' \in [Daemons -> [Clips -> 0..2]]
  <2>1. sent[d][x] \in 0..2
    OBVIOUS
  <2>2. (IF sent[d][x] < 2 THEN sent[d][x] + 1 ELSE sent[d][x]) \in 0..2
    BY <2>1
  <2> QED BY <1>a, <2>2 DEF Counted
<1>1. ASSUME NEW d \in Daemons, NEW x \in Clips, UserCopy(d, x) PROVE Typed'
  BY <1>1 DEF UserCopy, wires
<1>2. ASSUME NEW d \in Daemons, Check(d) PROVE Typed'
  <2>1. UNCHANGED <<dials, desktop, skipHash, lastBroadcast, lastIn, origin, calm, faults>>
        /\ lastHash' = [lastHash EXCEPT ![d] = desktop[d]]
    BY <1>2 DEF Check
  <2>2. CASE UNCHANGED <<wires, sent>>
    BY <2>1, <2>2 DEF wires
  <2>3. CASE ~UNCHANGED <<wires, sent>>
    <3>1. /\ Counted(d, desktop[d])
          /\ up' = ToPeers(d, desktop[d], up)
          /\ \E skipped \in Skips(desktop[d]) : down' = ToClients(d, desktop[d], skipped, down)
      BY <1>2, <2>3 DEF Check
    <3>2. desktop[d] \in Clips
      BY <1>2 DEF Check
    <3>3. PICK skipped : down' = ToClients(d, desktop[d], skipped, down)
      BY <3>1
    <3>4. up' \in Wires /\ down' \in Wires
      BY <1>0, <3>1, <3>2, <3>3, Puts
    <3>5. sent' \in [Daemons -> [Clips -> 0..2]]
      BY <1>a, <3>1, <3>2
    <3> QED BY <2>1, <3>4, <3>5 DEF Wires
  <2> QED BY <2>2, <2>3
<1>3. ASSUME NEW l \in Links, Echo(l) PROVE Typed'
  BY <1>0, <1>3, Takes DEF Echo, watchers, Wires
<1>4. ASSUME NEW l \in Links, FromClient(l) PROVE Typed'
  <2> DEFINE x == Head(up[l])
  <2>1. x \in Clips /\ Take(l, up) \in Wires
    BY <1>0, <1>4, Takes DEF FromClient
  <2>2. up' \in Wires /\ down' \in Wires /\ sent' \in [Daemons -> [Clips -> 0..2]]
    BY <1>0, <1>4, <1>a, <2>1, Puts DEF FromClient
  <2> QED BY <1>4, <2>1, <2>2 DEF FromClient, LocalWrite, Wires
<1>5. ASSUME NEW l \in Links, FromPeer(l) PROVE Typed'
  BY <1>0, <1>5, Takes DEF FromPeer, LocalWrite, Wires
<1>6. ASSUME NEW cut, Cut(cut)
      PROVE  up' \in Wires /\ down' \in Wires /\ faults' \in 0..MaxFaults
             /\ lastIn' \in [Links -> Clips \cup {NoClip}]
  BY <1>0, <1>6 DEF Cut, Cleared, Wires
<1>7. ASSUME NEW l \in Links, Break(l) PROVE Typed'
  BY <1>6, <1>7 DEF Break, watchers, Wires
<1>8. ASSUME NEW d \in Daemons, Restart(d) PROVE Typed'
  BY <1>6, <1>8 DEF Restart, Wires
<1>9. CASE UNCHANGED vars
  BY <1>9 DEF vars, watchers, wires
<1> QED BY <1>1, <1>2, <1>3, <1>4, <1>5, <1>7, <1>8, <1>9 DEF Next, Arrive

\* The variables of the mesh keep their types, whatever the links.
THEOREM TypeCorrect == Spec => []TypeOK
  <1>1. Typed => TypeOK
  BY DEF Typed
<1> QED BY TypeInit, TypeStep, <1>1, PTL DEF Spec

----------------------------------------------------------------------------
(* What steps put on the wires and take off them *)

\* A broadcast adds its clip to the wires it goes to, and to no other.
LEMMA AddsUp ==
    ASSUME NEW d \in Daemons, NEW x \in Clips, NEW w \in Wires, NEW l \in Links
    PROVE  \/ ToPeers(d, x, w)[l] = w[l]
           \/ /\ l \in dials /\ Client(l) = d
              /\ ToSet(ToPeers(d, x, w)[l]) = ToSet(w[l]) \cup {x}
              /\ IsInjective(w[l]) /\ x \notin ToSet(w[l]) => IsInjective(ToPeers(d, x, w)[l])
<1>1. w[l] \in Seq(Clips)
  BY DEF Wires
<1> QED BY <1>1, OfAppend DEF ToPeers

LEMMA AddsDown ==
    ASSUME NEW d \in Daemons, NEW x \in Clips, NEW w \in Wires, NEW skipped, NEW l \in Links
    PROVE  \/ ToClients(d, x, skipped, w)[l] = w[l]
           \/ /\ l \in dials \ skipped /\ Server(l) = d
              /\ ToSet(ToClients(d, x, skipped, w)[l]) = ToSet(w[l]) \cup {x}
<1>1. w[l] \in Seq(Clips)
  BY DEF Wires
<1> QED BY <1>1, OfAppend DEF ToClients

LEMMA Removes ==
    ASSUME NEW w \in Wires, NEW l \in Links, w[l] # <<>>
    PROVE  /\ \A k \in Links : k # l => Take(l, w)[k] = w[k]
           /\ ToSet(Take(l, w)[l]) \subseteq ToSet(w[l])
           /\ Head(w[l]) \in ToSet(w[l])
           /\ IsInjective(w[l]) => /\ IsInjective(Take(l, w)[l])
                                   /\ Head(w[l]) \notin ToSet(Take(l, w)[l])
<1>1. w[l] \in Seq(Clips) /\ Take(l, w)[l] = Tail(w[l])
  BY DEF Wires, Take
<1> QED BY <1>1, OfTail DEF Take, Wires

LEMMA Held ==
    ASSUME TypeOK, NEW l \in Links
    PROVE  ToSet(up[l]) \subseteq Clips /\ ToSet(down[l]) \subseteq Clips
<1>1. up[l] \in Seq(Clips) /\ down[l] \in Seq(Clips)
  BY DEF TypeOK
<1> QED BY <1>1 DEF ToSet

\* A broadcast gets onto each wire it is meant for.
LEMMA Reaches ==
    ASSUME NEW d \in Daemons, NEW x \in Clips, NEW w \in Wires, NEW skipped, NEW l \in Links, l \in dials
    PROVE  /\ Client(l) = d => x \in ToSet(ToPeers(d, x, w)[l]) /\ ToPeers(d, x, w)[l] # <<>>
           /\ Server(l) = d /\ l \notin skipped =>
                x \in ToSet(ToClients(d, x, skipped, w)[l]) /\ ToClients(d, x, skipped, w)[l] # <<>>
<1>1. w[l] \in Seq(Clips)
  BY DEF Wires
<1>2. x \in ToSet(Append(w[l], x))
  BY <1>1, OfAppend
<1>3. Append(w[l], x) # <<>>
  BY <1>2, OfEmpty
<1> QED BY <1>2, <1>3 DEF ToPeers, ToClients

HIDE MeshAssumption DEF MeshAssumption, Links, Client, Server

LEMMA Ends ==
    ASSUME TypeOK
    PROVE  /\ \A l \in Links : Client(l) \in Daemons /\ Server(l) \in Daemons
           /\ dials \subseteq Links /\ up \in Wires /\ down \in Wires
  BY MeshAssumption DEF MeshAssumption, Links, Client, Server, TypeOK, Wires

\* A broadcast is counted.
LEMMA Counts ==
    ASSUME TypeOK, NEW d \in Daemons, NEW x \in Clips, Counted(d, x)
    PROVE  /\ \A e \in Daemons, y \in Clips : e # d \/ y # x => sent'[e][y] = sent[e][y]
           /\ sent'[d][x] > 0 /\ (sent[d][x] = 0 => sent'[d][x] = 1)
<1>1. sent \in [Daemons -> [Clips -> 0..2]] /\ sent[d][x] \in 0..2
  BY DEF TypeOK
<1>2. PICK n : n = IF sent[d][x] < 2 THEN sent[d][x] + 1 ELSE sent[d][x]
  OBVIOUS
<1>3. n > 0 /\ (sent[d][x] = 0 => n = 1)
  BY <1>1, <1>2
<1>4. sent' = [sent EXCEPT ![d] = [sent[d] EXCEPT ![x] = n]]
  BY <1>2 DEF Counted
<1> QED BY <1>1, <1>3, <1>4

\* What is sent comes from a wire or is the clip that is put on it.
LEMMA AddsOnly ==
    ASSUME NEW d \in Daemons, NEW x \in Clips, NEW w \in Wires, NEW skipped, NEW l \in Links
    PROVE  /\ ToSet(ToPeers(d, x, w)[l]) \subseteq ToSet(w[l]) \cup {x}
           /\ ToSet(ToClients(d, x, skipped, w)[l]) \subseteq ToSet(w[l]) \cup {x}
<1>1. ToSet(ToPeers(d, x, w)[l]) \subseteq ToSet(w[l]) \cup {x}
  BY AddsUp
<1>2. ToSet(ToClients(d, x, skipped, w)[l]) \subseteq ToSet(w[l]) \cup {x}
  BY AddsDown
<1> QED BY <1>1, <1>2

LEMMA TakesOnly ==
    ASSUME NEW w \in Wires, NEW l \in Links, w[l] # <<>>
    PROVE  /\ Take(l, w) \in Wires /\ Head(w[l]) \in Clips /\ Head(w[l]) \in ToSet(w[l])
           /\ \A k \in Links : /\ k # l => Take(l, w)[k] = w[k]
                               /\ ToSet(Take(l, w)[k]) \subseteq ToSet(w[k])
<1>1. Take(l, w) \in Wires /\ Head(w[l]) \in Clips
  BY Takes
<1>2. /\ \A k \in Links : k # l => Take(l, w)[k] = w[k]
      /\ ToSet(Take(l, w)[l]) \subseteq ToSet(w[l]) /\ Head(w[l]) \in ToSet(w[l])
  BY Removes
<1> QED BY <1>1, <1>2

----------------------------------------------------------------------------
(* Clips that nobody copied *)

\* A clip that nobody copied is on no desktop or wire and in no memory, and
\* was never sent.
Fresh(x) ==
    /\ \A d \in Daemons : sent[d][x] = 0 /\ x \notin {desktop[d], lastHash[d], skipHash[d], lastBroadcast[d]}
    /\ \A l \in Links : x # lastIn[l] /\ x \notin ToSet(up[l]) /\ x \notin ToSet(down[l])
FreshInv == \A x \in Clips : origin[x] = Nobody => Fresh(x)

LEMMA FreshInit == Init => FreshInv
<1> SUFFICES ASSUME Init, NEW x \in Clips PROVE Fresh(x)
  BY DEF FreshInv
<1> QED BY OfEmpty, MeshAssumption DEF Init, Fresh, MeshAssumption

LEMMA FreshStep ==
    ASSUME Typed, FreshInv, [Next]_vars
    PROVE  FreshInv'
<1> SUFFICES ASSUME NEW x \in Clips, origin'[x] = Nobody PROVE Fresh(x)'
  BY DEF FreshInv
<1>0. /\ up \in Wires /\ down \in Wires /\ dials \subseteq Links
      /\ \A l \in Links : Client(l) \in Daemons /\ Server(l) \in Daemons
  BY Ends DEF Typed
<1>1. origin[x] = Nobody => Fresh(x)
  BY DEF FreshInv
<1>2. ASSUME NEW d \in Daemons, NEW y \in Clips, UserCopy(d, y) PROVE Fresh(x)'
  <2>1. x # y /\ origin[x] = Nobody
    BY <1>2, MeshAssumption DEF UserCopy, MeshAssumption, Typed, TypeOK
  <2> QED BY <1>1, <1>2, <2>1 DEF UserCopy, Fresh, wires, Typed, TypeOK
<1>3. ASSUME NEW d \in Daemons, Check(d) PROVE Fresh(x)'
  <2>1. Fresh(x) /\ desktop[d] # x /\ desktop[d] \in Clips
    BY <1>1, <1>3 DEF Check, Fresh, Typed
  <2>2. /\ UNCHANGED <<desktop, skipHash, lastBroadcast, lastIn>>
        /\ lastHash' = [lastHash EXCEPT ![d] = desktop[d]]
        /\ \A e \in Daemons : sent'[e][x] = 0
    <3>1. UNCHANGED sent \/ Counted(d, desktop[d])
      BY <1>3 DEF Check
    <3>2. \A e \in Daemons : sent'[e][x] = sent[e][x]
      BY <2>1, <3>1, Counts DEF Typed
    <3> QED BY <1>3, <2>1, <3>2 DEF Check, Fresh
  <2>3. \A l \in Links : x \notin ToSet(up'[l]) /\ x \notin ToSet(down'[l])
    <3>1. CASE UNCHANGED wires
      BY <2>1, <3>1 DEF Fresh, wires
    <3>2. CASE ~UNCHANGED wires
      <4>1. up' = ToPeers(d, desktop[d], up)
        BY <1>3, <3>2 DEF Check
      <4>2. PICK skipped : down' = ToClients(d, desktop[d], skipped, down)
        BY <1>3, <3>2 DEF Check
      <4>3. PICK y \in Clips : y = desktop[d]
        BY <2>1
      <4> SUFFICES ASSUME NEW l \in Links PROVE x \notin ToSet(up'[l]) /\ x \notin ToSet(down'[l])
        OBVIOUS
      <4>4. /\ ToSet(ToPeers(d, y, up)[l]) \subseteq ToSet(up[l]) \cup {y}
            /\ ToSet(ToClients(d, y, skipped, down)[l]) \subseteq ToSet(down[l]) \cup {y}
        BY <1>0, AddsOnly
      <4> QED BY <2>1, <4>1, <4>2, <4>3, <4>4 DEF Fresh
    <3> QED BY <3>1, <3>2
  <2> QED BY <2>1, <2>2, <2>3 DEF Fresh, Typed, TypeOK
<1>4. ASSUME NEW l \in Links, Echo(l) PROVE Fresh(x)'
  <2>1. Fresh(x) /\ Head(up[l]) \in ToSet(up[l]) /\ \A k \in Links : ToSet(Take(l, up)[k]) \subseteq ToSet(up[k])
    BY <1>0, <1>1, <1>4, TakesOnly DEF Echo
  <2>2. Head(up[l]) # x
    BY <2>1 DEF Fresh
  <2> QED BY <1>4, <2>1, <2>2 DEF Echo, Fresh, watchers, Typed, TypeOK
<1>5. ASSUME NEW l \in Links, FromClient(l) PROVE Fresh(x)'
  <2>1. PICK y \in Clips : y = Head(up[l]) /\ y \in ToSet(up[l])
    BY <1>0, <1>5, TakesOnly DEF FromClient
  <2>2. Fresh(x) /\ y # x /\ Take(l, up) \in Wires
    BY <1>0, <1>1, <1>5, <2>1, TakesOnly DEF FromClient, Fresh
  <2>3. \A k \in Links : x \notin ToSet(up'[k]) /\ x \notin ToSet(down'[k])
    <3> SUFFICES ASSUME NEW k \in Links PROVE x \notin ToSet(up'[k]) /\ x \notin ToSet(down'[k])
      OBVIOUS
    <3>1. up' = ToPeers(Server(l), y, Take(l, up)) /\ down' = ToClients(Server(l), y, {l}, down)
      BY <1>5, <2>1 DEF FromClient
    <3>2. /\ ToSet(up'[k]) \subseteq ToSet(Take(l, up)[k]) \cup {y}
          /\ ToSet(down'[k]) \subseteq ToSet(down[k]) \cup {y}
      BY <1>0, <2>2, <3>1, AddsOnly
    <3>3. ToSet(Take(l, up)[k]) \subseteq ToSet(up[k])
      BY <1>0, <1>5, TakesOnly DEF FromClient
    <3> QED BY <2>2, <3>2, <3>3 DEF Fresh
  <2>4. \A e \in Daemons : sent'[e][x] = 0
    <3>1. Counted(Server(l), y)
      BY <1>5, <2>1 DEF FromClient
    <3> QED BY <1>0, <2>2, <3>1, Counts DEF Typed, Fresh
  <2> QED BY <1>5, <2>1, <2>2, <2>3, <2>4 DEF FromClient, LocalWrite, Fresh, Typed, TypeOK
<1>6. ASSUME NEW l \in Links, FromPeer(l) PROVE Fresh(x)'
  <2>1. Fresh(x) /\ Head(down[l]) \in ToSet(down[l]) /\ \A k \in Links : ToSet(Take(l, down)[k]) \subseteq ToSet(down[k])
    BY <1>0, <1>1, <1>6, TakesOnly DEF FromPeer
  <2>2. Head(down[l]) # x
    BY <2>1 DEF Fresh
  <2> QED BY <1>6, <2>1, <2>2 DEF FromPeer, LocalWrite, Fresh, Typed, TypeOK
<1>7. ASSUME NEW cut, Cut(cut), UNCHANGED <<desktop, origin, sent>>,
             \A d \in Daemons : /\ lastHash'[d] \in {lastHash[d], desktop[d]}
                                /\ skipHash'[d] \in {skipHash[d], NoClip}
                                /\ lastBroadcast'[d] \in {lastBroadcast[d], NoClip}
      PROVE  Fresh(x)'
  <2>1. \A l \in Links : ToSet(up'[l]) \subseteq ToSet(up[l]) /\ ToSet(down'[l]) \subseteq ToSet(down[l])
    BY <1>7, OfEmpty DEF Cut, Cleared
  <2> QED BY <1>1, <1>7, <2>1, MeshAssumption DEF Cut, Fresh, MeshAssumption
<1>8. ASSUME NEW l \in Links, Break(l) PROVE Fresh(x)'
  BY <1>7, <1>8 DEF Break, watchers
<1>9. ASSUME NEW d \in Daemons, Restart(d) PROVE Fresh(x)'
  BY <1>7, <1>9 DEF Restart
<1>10. CASE UNCHANGED vars
  BY <1>1, <1>10 DEF vars, watchers, wires, Fresh
<1> QED BY <1>2, <1>3, <1>4, <1>5, <1>6, <1>8, <1>9, <1>10 DEF Next, Arrive

----------------------------------------------------------------------------
(* One clip at a time *)

\* A clip was copied, and its daemon has not looked yet: it is nowhere else.
Unsaid(o) ==
    /\ Unread(o) /\ \A d \in Daemons \ {o} : ~Unread(d)
    /\ \A l \in Links : up[l] = <<>> /\ down[l] = <<>> /\ lastIn[l] # desktop[o]
    /\ skipHash[o] # desktop[o] /\ \A d \in Daemons : lastBroadcast[d] # desktop[o]

\* A server has the clip, and so do its clients, or it is on its way to them.
Reached(x, h) ==
    /\ desktop[h] = x
    /\ \A l \in dials : Server(l) = h => desktop[Client(l)] = x \/ down[l] # <<>>

\* Its daemon has told it: it is the only clip that is sent, those who send it
\* have it, and so have those whose clients will not hear of it again.
Told(o) ==
    /\ \A d \in Daemons : ~Unread(d)
    /\ \A l \in Links : ToSet(up[l]) \cup ToSet(down[l]) \subseteq {desktop[o]}
    /\ \A l \in Links : up[l] # <<>> => desktop[Client(l)] = desktop[o]
    /\ Reached(desktop[o], o)
    /\ \A h \in Daemons : lastBroadcast[h] = desktop[o] => Reached(desktop[o], h)
    /\ \A l \in dials : Client(l) = o => up[l] # <<>> \/ Reached(desktop[o], Server(l))

OneClip == calm /\ faults = 0 /\ Daemons # {} => \E o \in Daemons : Unsaid(o) \/ Told(o)

LEMMA OneClipInit == Init => Typed /\ FreshInv /\ OneClip
<1> SUFFICES ASSUME Init, NEW o \in Daemons PROVE Told(o)
  BY TypeInit, FreshInit DEF OneClip
<1>1. \A d \in Daemons : desktop[d] = NoClip /\ ~Unread(d)
  BY DEF Init, Unread
<1>2. \A l \in Links : /\ up[l] = <<>> /\ down[l] = <<>>
                       /\ ToSet(up[l]) = {} /\ ToSet(down[l]) = {}
  BY OfEmpty DEF Init
<1>3. dials \subseteq Links /\ \A l \in Links : Client(l) \in Daemons /\ Server(l) \in Daemons
  BY TypeInit, Ends DEF Typed
<1> QED BY <1>1, <1>2, <1>3 DEF Told, Reached

\* A clip that is copied when nothing is under way is nowhere else.
LEMMA CopyIsUnsaid ==
    ASSUME Typed, FreshInv, OneClip, NEW o \in Daemons, NEW x \in Clips, UserCopy(o, x), calm', faults' = 0
    PROVE  Unsaid(o)'
<1>1. /\ Quiet /\ origin[x] = Nobody /\ desktop' = [desktop EXCEPT ![o] = x]
      /\ UNCHANGED <<lastHash, skipHash, lastBroadcast, lastIn, up, down>>
  BY DEF UserCopy, wires
<1>2. /\ desktop'[o] = x /\ \A d \in Daemons \ {o} : desktop'[d] = desktop[d] /\ ~Unread(d)
  BY <1>1 DEF Typed, TypeOK, Quiet
<1>3. Fresh(x)
  BY <1>1 DEF FreshInv
<1> QED BY <1>1, <1>2, <1>3 DEF Unsaid, Unread, Quiet, Fresh

\* Its daemon broadcasts it to all that are linked to it.
LEMMA CheckTells ==
    ASSUME Typed, NEW o \in Daemons, Unsaid(o), Check(o)
    PROVE  Told(o)'
<1>1. PICK x \in Clips : x = desktop[o]
  BY DEF Unsaid, Typed
<1>2. /\ x # skipHash[o] /\ Unread(o) /\ \A d \in Daemons \ {o} : ~Unread(d)
      /\ \A l \in Links : up[l] = <<>> /\ down[l] = <<>> /\ lastIn[l] # x
      /\ \A d \in Daemons : lastBroadcast[d] # x
  BY <1>1 DEF Unsaid
<1>3. /\ up \in Wires /\ down \in Wires /\ dials \subseteq Links
      /\ \A l \in Links : Client(l) \in Daemons /\ Server(l) \in Daemons
  BY Ends DEF Typed
<1>4. /\ UNCHANGED <<dials, desktop, lastBroadcast>> /\ lastHash' = [lastHash EXCEPT ![o] = x]
      /\ up' = ToPeers(o, x, up)
  BY <1>1, <1>2 DEF Check
<1>5. down' = ToClients(o, x, {}, down)
  <2>1. RecentlySent(x) = {}
    BY <1>2, <1>3 DEF RecentlySent
  <2>2. Skips(x) = {{}}
    BY <2>1 DEF Skips
  <2> QED BY <1>1, <1>2, <2>2 DEF Check
<1>6. \A d \in Daemons : ~Unread(d)'
  BY <1>1, <1>2, <1>4 DEF Unread, Typed, TypeOK
<1>7. \A l \in Links : ToSet(up'[l]) \cup ToSet(down'[l]) \subseteq {x}
  BY <1>2, <1>3, <1>4, <1>5, AddsOnly, OfEmpty
<1>8. \A l \in Links : up'[l] # <<>> => Client(l) = o
  BY <1>2, <1>4 DEF ToPeers
<1>9. \A l \in dials : /\ Client(l) = o => up'[l] # <<>>
                       /\ Server(l) = o => down'[l] # <<>>
  BY <1>3, <1>4, <1>5, Reaches
<1> QED BY <1>1, <1>2, <1>3, <1>4, <1>6, <1>7, <1>8, <1>9 DEF Told, Reached

\* From then on it only spreads.
LEMMA Spreads ==
    ASSUME Typed, NEW o \in Daemons, Told(o), NEW l \in Links, Arrive(l)
    PROVE  Told(o)'
<1>1. PICK x : x = desktop[o]
  OBVIOUS
<1>2. /\ up \in Wires /\ down \in Wires /\ dials \subseteq Links
      /\ \A k \in Links : Client(k) \in Daemons /\ Server(k) \in Daemons
  BY Ends DEF Typed
<1>3. /\ \A d \in Daemons : ~Unread(d)
      /\ \A k \in Links : ToSet(up[k]) \cup ToSet(down[k]) \subseteq {x}
      /\ \A k \in Links : up[k] # <<>> => desktop[Client(k)] = x
      /\ Reached(x, o)
      /\ \A h \in Daemons : lastBroadcast[h] = x => Reached(x, h)
      /\ \A k \in dials : Client(k) = o => up[k] # <<>> \/ Reached(x, Server(k))
  BY <1>1 DEF Told
\* What was written can only be the clip itself.
<1>4. ASSUME UNCHANGED dials,
             \A d \in Daemons : ~Unread(d)' /\ desktop'[d] \in {desktop[d], x},
             \A k \in Links : /\ ToSet(up'[k]) \cup ToSet(down'[k]) \subseteq {x}
                              /\ up'[k] # <<>> => up[k] # <<>> \/ desktop'[Client(k)] = x
                              /\ up[k] # <<>> => up'[k] # <<>> \/ Reached(x, Server(k))'
                              /\ down[k] # <<>> => down'[k] # <<>> \/ desktop'[Client(k)] = x,
             \A h \in Daemons : lastBroadcast'[h] # lastBroadcast[h] => Reached(x, h)'
      PROVE  Told(o)'
  <2>1. desktop'[o] = x /\ \A d \in Daemons : desktop[d] = x => desktop'[d] = x
    BY <1>1, <1>4
  <2>2. \A h \in Daemons : Reached(x, h) => Reached(x, h)'
    BY <1>2, <1>4, <2>1 DEF Reached
  <2>3. \A k \in Links : up'[k] # <<>> => desktop'[Client(k)] = x
    BY <1>2, <1>3, <1>4, <2>1
  <2>4. Reached(x, o)' /\ \A h \in Daemons : lastBroadcast'[h] = x => Reached(x, h)'
    BY <1>3, <1>4, <2>2
  <2>5. \A k \in dials' : Client(k) = o => up'[k] # <<>> \/ Reached(x, Server(k))'
    BY <1>2, <1>3, <1>4, <2>2
  <2> QED BY <1>4, <2>1, <2>3, <2>4, <2>5 DEF Told, Reached
<1>5. CASE Echo(l)
  <2>1. /\ UNCHANGED <<dials, desktop, lastHash, lastBroadcast, down>> /\ up' = Take(l, up)
        /\ up[l] # <<>> /\ Head(up[l]) = lastBroadcast[Server(l)]
    BY <1>5 DEF Echo, watchers
  <2>2. /\ Head(up[l]) \in ToSet(up[l])
        /\ \A k \in Links : (k # l => up'[k] = up[k]) /\ ToSet(up'[k]) \subseteq ToSet(up[k])
    BY <1>2, <2>1, TakesOnly
  <2>3. Reached(x, Server(l))'
    <3>1. Reached(x, Server(l))
      BY <1>2, <1>3, <2>1, <2>2
    <3> QED BY <2>1, <3>1 DEF Reached
  <2>4. \A d \in Daemons : ~Unread(d)'
    BY <1>3, <2>1 DEF Unread
  <2> QED BY <1>3, <1>4, <2>1, <2>2, <2>3, <2>4
<1>6. ASSUME NEW d \in Daemons, LocalWrite(d, x)
      PROVE  \A e \in Daemons : ~Unread(e)' /\ desktop'[e] \in {desktop[e], x} /\ desktop'[d] = x
  BY <1>3, <1>6 DEF LocalWrite, Unread, Typed, TypeOK
<1>7. CASE FromClient(l)
  <2>1. up[l] # <<>> /\ Head(up[l]) = x /\ x \in Clips /\ Take(l, up) \in Wires
        /\ \A k \in Links : /\ k # l => Take(l, up)[k] = up[k]
                            /\ ToSet(Take(l, up)[k]) \subseteq ToSet(up[k])
    <3>1. up[l] # <<>>
      BY <1>7 DEF FromClient
    <3>2. /\ Head(up[l]) \in ToSet(up[l]) /\ Head(up[l]) \in Clips /\ Take(l, up) \in Wires
          /\ \A k \in Links : /\ k # l => Take(l, up)[k] = up[k]
                              /\ ToSet(Take(l, up)[k]) \subseteq ToSet(up[k])
      BY <1>2, <3>1, TakesOnly
    <3> QED BY <1>3, <3>1, <3>2
  <2>2. PICK e \in Daemons : e = Server(l)
    BY <1>2
  <2>3. /\ UNCHANGED dials /\ lastBroadcast' = [lastBroadcast EXCEPT ![e] = x]
        /\ LocalWrite(e, x)
        /\ up' = ToPeers(e, x, Take(l, up)) /\ down' = ToClients(e, x, {l}, down)
    BY <1>7, <2>1, <2>2 DEF FromClient
  <2>4. \A k \in Links : /\ ToSet(up'[k]) \subseteq ToSet(up[k]) \cup {x}
                         /\ ToSet(down'[k]) \subseteq ToSet(down[k]) \cup {x}
    BY <1>2, <2>1, <2>3, AddsOnly
  <2>5. \A k \in Links : /\ up'[k] # <<>> => up[k] # <<>> \/ Client(k) = e
                         /\ k # l /\ up[k] # <<>> => up'[k] # <<>>
                         /\ down[k] # <<>> => down'[k] # <<>>
    <3> TAKE k \in Links
    <3>1. up'[k] = Take(l, up)[k] \/ (Client(k) = e /\ x \in ToSet(up'[k]))
      BY <1>2, <2>1, <2>3, Reaches DEF ToPeers
    <3>2. down'[k] = down[k] \/ x \in ToSet(down'[k])
      BY <1>2, <2>1, <2>3, Reaches DEF ToClients
    <3> QED BY <2>1, <3>1, <3>2, OfEmpty
  <2>6. desktop'[e] = x /\ \A d \in Daemons : ~Unread(d)' /\ desktop'[d] \in {desktop[d], x}
    BY <1>6, <2>3
  <2>7. Reached(x, e)'
    <3>1. ASSUME NEW k \in dials, Server(k) = e PROVE desktop'[Client(k)] = x \/ down'[k] # <<>>
      <4>1. CASE k = l
        BY <1>2, <1>3, <2>1, <2>6, <4>1
      <4>2. CASE k # l
        BY <1>2, <2>1, <2>3, <3>1, <4>2, Reaches
      <4> QED BY <4>1, <4>2
    <3> QED BY <2>3, <2>6, <3>1 DEF Reached
  <2>8. \A h \in Daemons : lastBroadcast'[h] # lastBroadcast[h] => h = e
    BY <2>3 DEF Typed, TypeOK
  <2>9. \A k \in Links : up[k] # <<>> => up'[k] # <<>> \/ Reached(x, Server(k))'
    <3>1. Reached(x, Server(l))'
      BY <2>2, <2>7 DEF Reached
    <3> QED BY <2>5, <3>1
  <2>10. \A h \in Daemons : lastBroadcast'[h] # lastBroadcast[h] => Reached(x, h)'
    BY <2>7, <2>8
  <2>11. \A k \in Links : ToSet(up'[k]) \cup ToSet(down'[k]) \subseteq {x}
    BY <1>3, <2>4
  <2>12. \A k \in Links : up'[k] # <<>> => up[k] # <<>> \/ desktop'[Client(k)] = x
    BY <2>5, <2>6
  <2> QED BY <1>4, <2>3, <2>5, <2>6, <2>9, <2>10, <2>11, <2>12
<1>8. CASE FromPeer(l)
  <2>1. /\ UNCHANGED <<dials, lastBroadcast, up>> /\ down' = Take(l, down) /\ down[l] # <<>>
        /\ LocalWrite(Client(l), Head(down[l]))
    BY <1>8 DEF FromPeer
  <2>2. /\ Head(down[l]) \in ToSet(down[l])
        /\ \A k \in Links : (k # l => down'[k] = down[k]) /\ ToSet(down'[k]) \subseteq ToSet(down[k])
    BY <1>2, <2>1, TakesOnly
  <2>3. LocalWrite(Client(l), x)
    BY <1>3, <2>1, <2>2
  <2>4. /\ desktop'[Client(l)] = x
        /\ \A d \in Daemons : ~Unread(d)' /\ desktop'[d] \in {desktop[d], x}
    BY <1>2, <1>6, <2>3
  <2> QED BY <1>3, <1>4, <2>1, <2>2, <2>4
<1> QED BY <1>5, <1>7, <1>8 DEF Arrive

LEMMA OneClipStep ==
    ASSUME Typed, FreshInv, OneClip, [Next]_vars
    PROVE  OneClip'
<1> SUFFICES ASSUME calm', faults' = 0, Daemons # {} PROVE \E o \in Daemons : (Unsaid(o) \/ Told(o))'
  BY DEF OneClip
<1>1. ASSUME NEW d \in Daemons, NEW x \in Clips, UserCopy(d, x) PROVE Unsaid(d)'
  BY <1>1, CopyIsUnsaid
<1>2. ASSUME ~\E d \in Daemons, x \in Clips : UserCopy(d, x)
      PROVE  calm /\ faults = 0 /\ \/ \E d \in Daemons : Check(d)
                                   \/ \E l \in Links : Arrive(l)
                                   \/ UNCHANGED vars
  <2>1. faults \in Nat
    BY DEF Typed, TypeOK
  <2>2. \A cut : ~Cut(cut)
    BY <2>1 DEF Cut
  <2>3. \/ \E d \in Daemons : Check(d)
        \/ \E l \in Links : Arrive(l)
        \/ UNCHANGED vars
    BY <1>2, <2>2 DEF Next, Restart, Break
  <2> QED BY <2>3 DEF Check, Arrive, Echo, FromClient, FromPeer, vars
<1>3. ASSUME NEW o \in Daemons, Unsaid(o) \/ Told(o), NEW d \in Daemons, Check(d)
      PROVE  Told(o)'
  <2>1. Unread(d)
    BY <1>3 DEF Check
  <2>2. Unsaid(o) /\ d = o
    BY <1>3, <2>1 DEF Unsaid, Told
  <2> QED BY <1>3, <2>2, CheckTells
<1>4. ASSUME NEW o \in Daemons, Unsaid(o) \/ Told(o), NEW l \in Links, Arrive(l)
      PROVE  Told(o)'
  <2>1. up[l] # <<>> \/ down[l] # <<>>
    BY <1>4 DEF Arrive, Echo, FromClient, FromPeer
  <2>2. Told(o)
    BY <1>4, <2>1 DEF Unsaid
  <2> QED BY <1>4, <2>2, Spreads
<1>5. ASSUME NEW o \in Daemons, Unsaid(o) \/ Told(o), UNCHANGED vars
      PROVE  (Unsaid(o) \/ Told(o))'
  BY <1>5 DEF Unsaid, Told, Reached, Unread, vars, watchers, wires
<1> QED BY <1>1, <1>2, <1>3, <1>4, <1>5 DEF OneClip

\* Where any two daemons are linked or dial one server, clips that are copied
\* one at a time get to every desktop, however many daemons there are and
\* even where they dial each other in circles (handlers.go:115-145,
\* broadcast.go:26-57, docs/configuration.md:30).  Once its daemon has told a
\* clip, a server that takes another of it for an echo has already passed it
\* on to each of its clients.
THEOREM CoveredMeshConverges == Spec => []Converges
<1>1. Typed /\ FreshInv /\ OneClip /\ [Next]_vars => (Typed /\ FreshInv /\ OneClip)'
  BY TypeStep, FreshStep, OneClipStep
<1>2. Typed /\ OneClip => Converges
  <2> SUFFICES ASSUME Typed, OneClip, Covering(dials), calm, faults = 0, Quiet, Daemons # {}
               PROVE  \E x : \A d \in Daemons : desktop[d] = x
    BY DEF Converges
  <2>1. PICK o \in Daemons : Told(o)
    BY DEF OneClip, Unsaid, Quiet
  <2>2. dials \subseteq Links /\ \A l \in Links : up[l] = <<>> /\ down[l] = <<>>
    BY Ends DEF Quiet, Typed
  <2>3. \A l \in dials : Client(l) = o => Reached(desktop[o], Server(l))
    BY <2>1, <2>2 DEF Told
  <2>4. ASSUME NEW d \in Daemons PROVE desktop[d] = desktop[o]
    <3>1. CASE d = o
      BY <3>1
    <3>2. CASE <<o, d>> \in dials
      BY <2>3, <3>2 DEF Reached, Client, Server
    <3>3. ASSUME NEW h \in Daemons, <<d, h>> \in dials, Reached(desktop[o], h)
          PROVE  desktop[d] = desktop[o]
      BY <2>2, <3>3 DEF Reached, Client, Server
    <3>4. CASE <<d, o>> \in dials
      BY <2>1, <3>3, <3>4 DEF Told
    <3>5. ASSUME NEW h \in Daemons, <<d, h>> \in dials, <<o, h>> \in dials
          PROVE  desktop[d] = desktop[o]
      BY <2>3, <3>3, <3>5 DEF Client, Server
    <3> QED BY <3>1, <3>2, <3>4, <3>5 DEF Covering
  <2> QED BY <2>4
<1> QED BY <1>1, <1>2, OneClipInit, PTL DEF Spec

----------------------------------------------------------------------------
(* Meshes without loops *)

\* No link leads out of this set of daemons, or only this one.
Shut(T, B) == \A k \in T : Client(k) \in B <=> Server(k) \in B
OnlyBy(T, l, B) == \A k \in T \ {l} : Client(k) \in B <=> Server(k) \in B

\* The links lead from one daemon to another; each link is the only way
\* between its ends.
Linked(T, o, d) == \A B \in SUBSET Daemons : o \in B /\ Shut(T, B) => d \in B
Bridges(T) ==
    \A l \in T : \E B \in SUBSET Daemons : Client(l) \in B /\ Server(l) \notin B /\ OnlyBy(T, l, B)

\* Who goes over the link l from d to e goes away from o.
Away(T, o, d, l, e) ==
    /\ Linked(T, o, d)
    /\ \E B \in SUBSET Daemons : o \in B /\ d \in B /\ e \notin B /\ OnlyBy(T, l, B)

\* What a watcher has not seen yet was copied there and is nowhere else.
UnreadIsNew ==
    \A d \in Daemons : Unread(d) =>
        /\ desktop[d] \in Clips /\ origin[desktop[d]] = d
        /\ \A e \in Daemons : sent[e][desktop[d]] = 0
        /\ \A l \in Links : desktop[d] \notin ToSet(up[l])

\* What a client has sent goes away from where it was copied, once, and the
\* server has not relayed it yet.
UpIsAway ==
    \A l \in Links :
        /\ IsInjective(up[l])
        /\ \A x \in ToSet(up[l]) :
             /\ l \in dials /\ Away(dials, origin[x], Client(l), l, Server(l))
             /\ sent[Client(l)][x] > 0 /\ sent[Server(l)][x] = 0
DownIsAway ==
    \A l \in Links : \A x \in ToSet(down[l]) :
        l \in dials /\ Away(dials, origin[x], Server(l), l, Client(l))

\* What a daemon broadcast was copied there or came from such a client.
SentCame ==
    \A d \in Daemons, x \in Clips : sent[d][x] > 0 /\ origin[x] # d =>
        \E l \in dials : /\ Server(l) = d /\ Away(dials, origin[x], Client(l), l, d)
                         /\ sent[Client(l)][x] > 0
SentOnce == \A d \in Daemons, x \in Clips : sent[d][x] <= 1

TreeInv == UnreadIsNew /\ UpIsAway /\ DownIsAway /\ SentCame /\ SentOnce

\* A nonempty set of naturals has a least element.
LEMMA Least ==
    ASSUME NEW S \in SUBSET Nat, S # {}
    PROVE  \E m \in S : \A n \in S : m <= n
<1>1. PICK R : R = OpToRel(<, Nat)
  OBVIOUS
<1>2. IsWellFoundedOn(R, Nat)
  BY <1>1, NatLessThanWellFounded
<1>3. \A x, y \in Nat : <<x, y>> \in R <=> x < y
  BY <1>1 DEF OpToRel
<1>4. PICK m \in S : \A n \in S : ~(<<n, m>> \in R)
  BY <1>2, WFMin
<1>5. \A n \in S : ~(n < m)
  BY <1>3, <1>4
<1> QED BY <1>5

\* Without loops each link is the only way between its ends.  From one end,
\* collect daemons together with links that tie them, as long as there are any.
\* The other end is not among them, or these links and this one were a loop.
LEMMA LooplessBridges ==
    ASSUME TypeOK, Loopless(dials)
    PROVE  Bridges(dials)
<1> USE MeshAssumption DEF MeshAssumption
<1> SUFFICES ASSUME NEW l \in dials
             PROVE  \E B \in SUBSET Daemons : Client(l) \in B /\ Server(l) \notin B /\ OnlyBy(dials, l, B)
  BY DEF Bridges
<1> DEFINE Tied(B, S) ==
      /\ B \in SUBSET Daemons /\ S \in SUBSET (dials \ {l}) /\ IsFiniteSet(S)
      /\ Client(l) \in B /\ Touched(S) \subseteq B /\ Cardinality(B) <= Cardinality(S) + 1
<1> DEFINE Left == {Cardinality(Daemons) - Cardinality(B) : B \in {A \in SUBSET Daemons : \E S : Tied(A, S)}}
<1>0. dials \subseteq Links /\ \A k \in dials : Client(k) \in Daemons /\ Server(k) \in Daemons
  BY Ends
<1>1. \A B \in SUBSET Daemons : /\ IsFiniteSet(B) /\ Cardinality(B) \in Nat
                                /\ Cardinality(B) <= Cardinality(Daemons)
  BY FS_Subset, FS_CardinalityType
<1>2. Cardinality(Daemons) \in Nat
  BY FS_CardinalityType
<1>3. Left \in SUBSET Nat
  BY <1>1, <1>2
<1>4. Left # {}
  <2>1. Touched({}) = {}
    BY DEF Touched
  <2>2. /\ IsFiniteSet({}) /\ Cardinality({}) = 0
        /\ Cardinality({Client(l)}) = 1 /\ Client(l) \in Daemons
    BY <1>0, FS_EmptySet, FS_Singleton
  <2>3. Tied({Client(l)}, {})
    BY <2>1, <2>2
  <2> QED BY <2>2, <2>3
<1>5. PICK B, S : Tied(B, S) /\ \A A, R : Tied(A, R) => Cardinality(A) <= Cardinality(B)
  <2>1. PICK m \in Left : \A n \in Left : m <= n
    <3> HIDE DEF Left
    <3> QED BY <1>3, <1>4, Least
  <2>2. PICK B, S : Tied(B, S) /\ m = Cardinality(Daemons) - Cardinality(B)
    BY <2>1
  <2>3. ASSUME NEW A, NEW R, Tied(A, R) PROVE Cardinality(A) <= Cardinality(B)
    <3>1. Cardinality(Daemons) - Cardinality(A) \in Left /\ Cardinality(A) \in Nat /\ Cardinality(B) \in Nat
      BY <1>1, <2>2, <2>3
    <3> HIDE DEF Left, Tied
    <3>2. Cardinality(Daemons) - Cardinality(B) <= Cardinality(Daemons) - Cardinality(A)
      BY <2>1, <2>2, <3>1
    <3> QED BY <1>2, <3>1, <3>2
  <2> QED BY <2>2, <2>3
<1>6. Cardinality(S) \in Nat /\ Cardinality(B) \in Nat /\ IsFiniteSet(B)
  BY <1>1, <1>5, FS_CardinalityType
<1>7. \A k \in dials : /\ Touched(S \cup {k}) = Touched(S) \cup {Client(k), Server(k)}
                       /\ IsFiniteSet(S \cup {k})
                       /\ k \notin S => Cardinality(S \cup {k}) = Cardinality(S) + 1
                       /\ k \in S => Client(k) \in B /\ Server(k) \in B
  <2> TAKE k \in dials
  <2>1. Touched(S \cup {k}) = Touched(S) \cup {Client(k), Server(k)}
    BY DEF Touched
  <2>2. IsFiniteSet(S \cup {k}) /\ (k \notin S => Cardinality(S \cup {k}) = Cardinality(S) + 1)
    BY <1>5, FS_AddElement
  <2>3. k \in S => Client(k) \in B /\ Server(k) \in B
    BY <1>5 DEF Touched
  <2> QED BY <2>1, <2>2, <2>3
<1>8. Server(l) \notin B
  <2> SUFFICES ASSUME Server(l) \in B PROVE FALSE
    OBVIOUS
  <2>1. Touched(S \cup {l}) \subseteq B /\ Cardinality(S \cup {l}) = Cardinality(S) + 1
    BY <1>5, <1>7
  <2>2. /\ Cardinality(Touched(S \cup {l})) <= Cardinality(B)
        /\ Cardinality(Touched(S \cup {l})) \in Nat
    BY <1>6, <2>1, FS_Subset, FS_CardinalityType
  <2>3. Cardinality(Touched(S \cup {l})) > Cardinality(S \cup {l})
    BY <1>5 DEF Loopless
  <2> QED BY <1>5, <1>6, <2>1, <2>2, <2>3
<1>9. ASSUME NEW k \in dials \ {l}, NEW d \in Daemons, d \notin B, {Client(k), Server(k)} \subseteq B \cup {d},
             k \notin S
      PROVE  FALSE
  <2>1. Cardinality(B \cup {d}) = Cardinality(B) + 1
    BY <1>6, <1>9, FS_AddElement
  <2>2. Touched(S \cup {k}) \subseteq B \cup {d} /\ Cardinality(S \cup {k}) = Cardinality(S) + 1
    BY <1>5, <1>7, <1>9
  <2>3. Tied(B \cup {d}, S \cup {k})
    <3>1. /\ B \cup {d} \in SUBSET Daemons /\ S \cup {k} \in SUBSET (dials \ {l})
          /\ IsFiniteSet(S \cup {k}) /\ Client(l) \in B \cup {d}
      BY <1>5, <1>7, <1>9
    <3>2. Cardinality(B) + 1 <= (Cardinality(S) + 1) + 1
      BY <1>5, <1>6
    <3> QED BY <2>1, <2>2, <3>1, <3>2
  <2> HIDE DEF Tied
  <2> QED BY <1>5, <1>6, <2>1, <2>3
<1>10. OnlyBy(dials, l, B)
  <2> SUFFICES ASSUME NEW k \in dials \ {l} PROVE Client(k) \in B <=> Server(k) \in B
    BY DEF OnlyBy
  <2>1. Client(k) \in Daemons /\ Server(k) \in Daemons
    BY <1>0
  <2> QED BY <1>7, <1>9, <2>1
<1> QED BY <1>5, <1>8, <1>10

\* A link can be gone over either way.
LEMMA EitherWay ==
    ASSUME NEW T \in SUBSET Links, Bridges(T), NEW k \in T, Client(k) \in Daemons, Server(k) \in Daemons
    PROVE  /\ \E D \in SUBSET Daemons : Client(k) \in D /\ Server(k) \notin D /\ OnlyBy(T, k, D)
           /\ \E D \in SUBSET Daemons : Server(k) \in D /\ Client(k) \notin D /\ OnlyBy(T, k, D)
<1>1. PICK D \in SUBSET Daemons : Client(k) \in D /\ Server(k) \notin D /\ OnlyBy(T, k, D)
  BY DEF Bridges
<1>2. /\ Server(k) \in Daemons \ D /\ Client(k) \notin Daemons \ D
      /\ OnlyBy(T, k, Daemons \ D)
  <2>1. \A j \in T : Client(j) \in Daemons /\ Server(j) \in Daemons
    BY DEF Links, Client, Server
  <2> QED BY <1>1, <2>1 DEF OnlyBy
<1> QED BY <1>1, <1>2

\* From where a clip was copied every link goes away.
LEMMA StartsOut ==
    ASSUME NEW T \in SUBSET Links, Bridges(T), NEW k \in T, Client(k) \in Daemons, Server(k) \in Daemons
    PROVE  /\ Away(T, Client(k), Client(k), k, Server(k))
           /\ Away(T, Server(k), Server(k), k, Client(k))
  BY EitherWay DEF Away, Linked

\* One way at most leads to a server.
LEMMA OneWay ==
    ASSUME NEW T, NEW o, NEW k \in T, NEW l \in T, Server(k) = Server(l),
           Away(T, o, Client(k), k, Server(k)), Away(T, o, Client(l), l, Server(l))
    PROVE  k = l
<1> SUFFICES ASSUME k # l PROVE FALSE
  OBVIOUS
<1>1. PICK C \in SUBSET Daemons : o \in C /\ Client(k) \in C /\ Server(k) \notin C /\ OnlyBy(T, k, C)
  BY DEF Away
<1>2. PICK D \in SUBSET Daemons : o \in D /\ Client(l) \in D /\ Server(l) \notin D /\ OnlyBy(T, l, D)
  BY DEF Away
<1>3. Client(k) \notin D /\ Client(l) \notin C
  BY <1>1, <1>2 DEF OnlyBy
<1>4. Shut(T, C \cap D)
  <2> SUFFICES ASSUME NEW j \in T PROVE Client(j) \in C \cap D <=> Server(j) \in C \cap D
    BY DEF Shut
  <2>1. CASE j = k \/ j = l
    BY <1>1, <1>2, <1>3, <2>1
  <2>2. CASE j # k /\ j # l
    BY <1>1, <1>2, <2>2 DEF OnlyBy
  <2> QED BY <2>1, <2>2
<1>5. Client(k) \in C \cap D
  BY <1>1, <1>2, <1>4 DEF Away, Linked
<1> QED BY <1>3, <1>5

\* What has come away goes further away.
LEMMA GoesOn ==
    ASSUME NEW T \in SUBSET Links, Bridges(T), NEW o, NEW l \in T, NEW k \in T, k # l,
           Client(k) \in Daemons, Server(k) \in Daemons,
           Away(T, o, Client(l), l, Server(l))
    PROVE  /\ Client(k) = Server(l) => Away(T, o, Client(k), k, Server(k))
           /\ Server(k) = Server(l) => Away(T, o, Server(k), k, Client(k))
<1>1. PICK B \in SUBSET Daemons : o \in B /\ Client(l) \in B /\ Server(l) \notin B /\ OnlyBy(T, l, B)
  BY DEF Away
<1>2. Linked(T, o, Server(l))
  BY DEF Away, Linked, Shut
<1>3. ASSUME NEW D \in SUBSET Daemons, Server(l) \in D, OnlyBy(T, k, D) PROVE OnlyBy(T, k, B \cup D)
  <2> SUFFICES ASSUME NEW j \in T \ {k} PROVE Client(j) \in B \cup D <=> Server(j) \in B \cup D
    BY DEF OnlyBy
  <2>1. CASE j = l
    BY <1>1, <1>3, <2>1
  <2>2. CASE j # l
    BY <1>1, <1>3, <2>2 DEF OnlyBy
  <2> QED BY <2>1, <2>2
<1>4. Client(k) \in B <=> Server(k) \in B
  BY <1>1 DEF OnlyBy
<1>5. ASSUME Client(k) = Server(l) PROVE Away(T, o, Client(k), k, Server(k))
  <2>1. PICK D \in SUBSET Daemons : Client(k) \in D /\ Server(k) \notin D /\ OnlyBy(T, k, D)
    BY EitherWay
  <2>2. /\ o \in B \cup D /\ Client(k) \in B \cup D /\ Server(k) \notin B \cup D
        /\ OnlyBy(T, k, B \cup D) /\ B \cup D \in SUBSET Daemons
    BY <1>1, <1>3, <1>4, <1>5, <2>1
  <2> QED BY <1>2, <1>5, <2>2 DEF Away
<1>6. ASSUME Server(k) = Server(l) PROVE Away(T, o, Server(k), k, Client(k))
  <2>1. PICK D \in SUBSET Daemons : Server(k) \in D /\ Client(k) \notin D /\ OnlyBy(T, k, D)
    BY EitherWay
  <2>2. /\ o \in B \cup D /\ Server(k) \in B \cup D /\ Client(k) \notin B \cup D
        /\ OnlyBy(T, k, B \cup D) /\ B \cup D \in SUBSET Daemons
    BY <1>1, <1>3, <1>4, <1>6, <2>1
  <2> QED BY <1>2, <1>6, <2>2 DEF Away
<1> QED BY <1>5, <1>6

LEMMA TreeInit == Init => TreeInv
<1> SUFFICES ASSUME Init PROVE TreeInv
  OBVIOUS
<1>1. \A d \in Daemons : ~Unread(d)
  BY DEF Init, Unread
<1>2. \A l \in Links : ToSet(up[l]) = {} /\ ToSet(down[l]) = {} /\ IsInjective(up[l])
  BY OfEmpty DEF Init
<1>3. \A d \in Daemons, x \in Clips : sent[d][x] = 0
  BY DEF Init
<1> QED BY <1>1, <1>2, <1>3 DEF TreeInv, UnreadIsNew, UpIsAway, DownIsAway, SentCame, SentOnce

\* A daemon broadcasts a clip that it has not broadcast, which was copied there
\* or came from a client, over links that go away from where it was copied.
LEMMA BroadcastGoesAway ==
    ASSUME Typed, TreeInv, UNCHANGED <<dials, origin>>,
           NEW d \in Daemons, NEW x \in Clips, NEW w \in Wires, NEW skipped,
           sent[d][x] = 0, Counted(d, x),
           up' = ToPeers(d, x, w), down' = ToClients(d, x, skipped, down),
           \A k \in Links : /\ ToSet(w[k]) \subseteq ToSet(up[k]) /\ IsInjective(w[k])
                            /\ Server(k) = d => x \notin ToSet(w[k]),
           \A k \in dials : Client(k) = d => Away(dials, origin[x], d, k, Server(k)),
           \A k \in dials \ skipped : Server(k) = d => Away(dials, origin[x], d, k, Client(k)),
           \/ origin[x] = d
           \/ \E l \in dials : /\ Server(l) = d /\ Away(dials, origin[x], Client(l), l, d)
                               /\ sent[Client(l)][x] > 0
    PROVE  UpIsAway' /\ DownIsAway' /\ SentCame' /\ SentOnce'
<1>0. /\ dials \subseteq Links /\ up \in Wires /\ down \in Wires /\ TypeOK
      /\ \A l \in Links : Client(l) \in Daemons /\ Server(l) \in Daemons /\ Client(l) # Server(l)
  BY Ends DEF Typed, Links, Client, Server
<1>1. /\ \A e \in Daemons, y \in Clips : e # d \/ y # x => sent'[e][y] = sent[e][y]
      /\ sent'[d][x] = 1 /\ sent'[d][x] > 0
  BY <1>0, Counts
<1>2. \A e \in Daemons, y \in Clips : sent[e][y] > 0 => sent'[e][y] > 0
  BY <1>1
<1>3. \A k \in dials : Client(k) = d => sent[Server(k)][x] = 0 /\ x \notin ToSet(w[k])
  <2> SUFFICES ASSUME NEW k \in dials, Client(k) = d
               PROVE  sent[Server(k)][x] = 0 /\ x \notin ToSet(w[k])
    OBVIOUS
  <2>1. origin[x] # Server(k)
    BY DEF Away
  <2>2. ASSUME sent[Server(k)][x] > 0 PROVE FALSE
    <3>1. PICK j \in dials : /\ Server(j) = Server(k) /\ Away(dials, origin[x], Client(j), j, Server(j))
                             /\ sent[Client(j)][x] > 0
      BY <1>0, <2>1, <2>2 DEF TreeInv, SentCame
    <3>2. j = k
      BY <3>1, OneWay
    <3> QED BY <3>1, <3>2
  <2>3. sent[Server(k)][x] \in Nat
    BY <1>0 DEF TypeOK
  <2>4. x \notin ToSet(w[k])
    BY <1>0 DEF TreeInv, UpIsAway
  <2> QED BY <2>2, <2>3, <2>4
<1>4. UpIsAway'
  <2> SUFFICES ASSUME NEW k \in Links
               PROVE  /\ IsInjective(up'[k])
                      /\ \A y \in ToSet(up'[k]) :
                           /\ k \in dials /\ Away(dials, origin[y], Client(k), k, Server(k))
                           /\ sent'[Client(k)][y] > 0 /\ sent'[Server(k)][y] = 0
    BY DEF UpIsAway
  <2>1. \A y \in ToSet(w[k]) : /\ k \in dials /\ Away(dials, origin[y], Client(k), k, Server(k))
                               /\ sent'[Client(k)][y] > 0 /\ sent'[Server(k)][y] = 0
    <3> SUFFICES ASSUME NEW y \in ToSet(w[k])
                 PROVE  /\ k \in dials /\ Away(dials, origin[y], Client(k), k, Server(k))
                        /\ sent'[Client(k)][y] > 0 /\ sent'[Server(k)][y] = 0
      OBVIOUS
    <3>1. y \in Clips /\ y \in ToSet(up[k])
      BY <1>0, Held
    <3>2. /\ k \in dials /\ Away(dials, origin[y], Client(k), k, Server(k))
          /\ sent[Client(k)][y] > 0 /\ sent[Server(k)][y] = 0
      BY <3>1 DEF TreeInv, UpIsAway
    <3>3. Server(k) # d \/ y # x
      OBVIOUS
    <3> QED BY <1>0, <1>1, <1>2, <3>1, <3>2, <3>3
  <2>2. CASE up'[k] = w[k]
    BY <2>1, <2>2
  <2>3. CASE up'[k] # w[k]
    <3>1. /\ k \in dials /\ Client(k) = d
          /\ ToSet(up'[k]) = ToSet(w[k]) \cup {x}
          /\ IsInjective(w[k]) /\ x \notin ToSet(w[k]) => IsInjective(up'[k])
      BY <2>3, AddsUp
    <3>2. sent'[Client(k)][x] > 0 /\ sent'[Server(k)][x] = 0
      BY <1>0, <1>1, <1>3, <3>1
    <3>3. Away(dials, origin[x], Client(k), k, Server(k))
      BY <3>1
    <3> QED BY <1>3, <2>1, <3>1, <3>2, <3>3
  <2> QED BY <2>2, <2>3
<1>5. DownIsAway'
  <2> SUFFICES ASSUME NEW k \in Links, NEW y \in ToSet(down'[k])
               PROVE  k \in dials /\ Away(dials, origin[y], Server(k), k, Client(k))
    BY DEF DownIsAway
  <2>1. CASE y \in ToSet(down[k])
    BY <2>1 DEF TreeInv, DownIsAway
  <2>2. CASE y \notin ToSet(down[k])
    <3>1. k \in dials \ skipped /\ Server(k) = d /\ y = x
      BY <1>0, <2>2, AddsDown
    <3> QED BY <3>1
  <2> QED BY <2>1, <2>2
<1>6. SentCame'
  <2> SUFFICES ASSUME NEW e \in Daemons, NEW y \in Clips, sent'[e][y] > 0, origin[y] # e
               PROVE  \E l \in dials : /\ Server(l) = e /\ Away(dials, origin[y], Client(l), l, e)
                                       /\ sent'[Client(l)][y] > 0
    BY DEF SentCame
  <2>1. PICK l \in dials : /\ Server(l) = e /\ Away(dials, origin[y], Client(l), l, e)
                           /\ sent[Client(l)][y] > 0
    <3>1. CASE e = d /\ y = x
      BY <3>1
    <3>2. CASE e # d \/ y # x
      BY <1>1, <3>2 DEF TreeInv, SentCame
    <3> QED BY <3>1, <3>2
  <2>2. sent'[Client(l)][y] > 0
    BY <1>0, <1>2, <2>1
  <2> QED BY <2>1, <2>2
<1>7. SentOnce'
  <2>1. \A e \in Daemons, y \in Clips : sent'[e][y] <= 1
    BY <1>1 DEF TreeInv, SentOnce
  <2> QED BY <2>1 DEF SentOnce
<1> QED BY <1>4, <1>5, <1>6, <1>7

\* What only takes clips off the wires, and broadcasts nothing, keeps this.
LEMMA TakingKeeps ==
    ASSUME Typed, TreeInv, UNCHANGED <<dials, origin, sent>>,
           \A k \in Links : /\ ToSet(up'[k]) \subseteq ToSet(up[k]) /\ IsInjective(up'[k])
                            /\ ToSet(down'[k]) \subseteq ToSet(down[k]),
           \A d \in Daemons : Unread(d)' => Unread(d) /\ desktop'[d] = desktop[d]
    PROVE  TreeInv'
<1>1. UnreadIsNew'
  <2> SUFFICES ASSUME NEW d \in Daemons, Unread(d)'
               PROVE  /\ desktop'[d] \in Clips /\ origin[desktop'[d]] = d
                      /\ \A e \in Daemons : sent[e][desktop'[d]] = 0
                      /\ \A l \in Links : desktop'[d] \notin ToSet(up'[l])
    BY DEF UnreadIsNew
  <2>1. Unread(d) /\ desktop'[d] = desktop[d]
    OBVIOUS
  <2> QED BY <2>1 DEF TreeInv, UnreadIsNew
<1>2. UpIsAway'
  BY DEF TreeInv, UpIsAway
<1>3. DownIsAway'
  BY DEF TreeInv, DownIsAway
<1>4. SentCame' /\ SentOnce'
  BY DEF TreeInv, SentCame, SentOnce
<1> QED BY <1>1, <1>2, <1>3, <1>4 DEF TreeInv

LEMMA CopyKeeps ==
    ASSUME Typed, FreshInv, TreeInv, NEW d \in Daemons, NEW x \in Clips, UserCopy(d, x)
    PROVE  TreeInv'
<1>1. /\ UNCHANGED <<dials, lastHash, up, down, sent>>
      /\ origin' = [origin EXCEPT ![x] = d] /\ desktop' = [desktop EXCEPT ![d] = x]
  BY DEF UserCopy, wires
<1>2. Fresh(x)
  BY DEF UserCopy, FreshInv
<1>3. origin'[x] = d /\ \A y \in Clips : y # x => origin'[y] = origin[y]
  BY <1>1 DEF Typed, TypeOK
<1>4. \A l \in Links : /\ ToSet(up[l]) \subseteq Clips /\ ToSet(down[l]) \subseteq Clips
                       /\ x \notin ToSet(up[l]) /\ x \notin ToSet(down[l])
  BY <1>2, Held DEF Fresh, Typed
<1>5. \A e \in Daemons : sent[e][x] = 0
  BY <1>2 DEF Fresh
<1>6. UnreadIsNew'
  <2> SUFFICES ASSUME NEW e \in Daemons, Unread(e)'
               PROVE  /\ desktop'[e] \in Clips /\ origin'[desktop'[e]] = e
                      /\ \A f \in Daemons : sent[f][desktop'[e]] = 0
                      /\ \A l \in Links : desktop'[e] \notin ToSet(up[l])
    BY <1>1 DEF UnreadIsNew
  <2>1. CASE e = d
    <3>1. desktop'[e] = x
      BY <1>1, <2>1 DEF Typed, TypeOK
    <3> QED BY <1>3, <1>4, <1>5, <2>1, <3>1
  <2>2. CASE e # d
    <3>1. desktop'[e] = desktop[e] /\ Unread(e)
      BY <1>1, <2>2 DEF Typed, TypeOK, Unread
    <3>2. desktop[e] # x
      BY <1>2 DEF Fresh
    <3> QED BY <1>3, <3>1, <3>2 DEF TreeInv, UnreadIsNew
  <2> QED BY <2>1, <2>2
<1>7. UpIsAway'
  <2> SUFFICES ASSUME NEW l \in Links
               PROVE  /\ IsInjective(up[l])
                      /\ \A y \in ToSet(up[l]) :
                           /\ l \in dials /\ Away(dials, origin'[y], Client(l), l, Server(l))
                           /\ sent[Client(l)][y] > 0 /\ sent[Server(l)][y] = 0
    BY <1>1 DEF UpIsAway
  <2>1. \A y \in ToSet(up[l]) : origin'[y] = origin[y]
    BY <1>3, <1>4
  <2> QED BY <2>1 DEF TreeInv, UpIsAway
<1>8. DownIsAway'
  <2> SUFFICES ASSUME NEW l \in Links, NEW y \in ToSet(down[l])
               PROVE  l \in dials /\ Away(dials, origin'[y], Server(l), l, Client(l))
    BY <1>1 DEF DownIsAway
  <2>1. origin'[y] = origin[y]
    BY <1>3, <1>4
  <2> QED BY <2>1 DEF TreeInv, DownIsAway
<1>9. SentCame'
  <2> SUFFICES ASSUME NEW e \in Daemons, NEW y \in Clips, sent[e][y] > 0, origin'[y] # e
               PROVE  \E l \in dials : /\ Server(l) = e /\ Away(dials, origin'[y], Client(l), l, e)
                                       /\ sent[Client(l)][y] > 0
    BY <1>1 DEF SentCame
  <2>1. origin'[y] = origin[y]
    BY <1>3, <1>5
  <2> QED BY <2>1 DEF TreeInv, SentCame
<1>10. SentOnce'
  BY <1>1 DEF TreeInv, SentOnce
<1> QED BY <1>6, <1>7, <1>8, <1>9, <1>10 DEF TreeInv

LEMMA CheckKeeps ==
    ASSUME Typed, TreeInv, Bridges(dials), NEW d \in Daemons, Check(d)
    PROVE  TreeInv'
<1>0. /\ dials \in SUBSET Links /\ up \in Wires /\ TypeOK
      /\ \A l \in Links : Client(l) \in Daemons /\ Server(l) \in Daemons
  BY Ends DEF Typed
<1>1. UNCHANGED <<dials, desktop, origin>> /\ lastHash' = [lastHash EXCEPT ![d] = desktop[d]]
  BY DEF Check
<1>2. \A e \in Daemons : Unread(e)' => Unread(e) /\ e # d
  BY <1>0, <1>1 DEF TypeOK, Unread
<1>3. CASE UNCHANGED <<up, down, sent>>
  <2>1. \A k \in Links : IsInjective(up[k])
    BY DEF TreeInv, UpIsAway
  <2> QED BY <1>1, <1>2, <1>3, <2>1, TakingKeeps
<1>4. CASE ~UNCHANGED <<up, down, sent>>
  <2>1. /\ Counted(d, desktop[d]) /\ up' = ToPeers(d, desktop[d], up)
        /\ \E skipped \in Skips(desktop[d]) : down' = ToClients(d, desktop[d], skipped, down)
    BY <1>4 DEF Check, wires
  <2>2. PICK skipped : down' = ToClients(d, desktop[d], skipped, down)
    BY <2>1
  <2>3. PICK x : x = desktop[d]
    OBVIOUS
  <2>4. /\ x \in Clips /\ origin[x] = d /\ sent[d][x] = 0
        /\ \A l \in Links : x \notin ToSet(up[l])
    BY <2>3 DEF Check, TreeInv, UnreadIsNew
  <2>5. \A k \in Links : IsInjective(up[k])
    BY DEF TreeInv, UpIsAway
  <2>6. \A k \in dials : /\ Client(k) = d => Away(dials, origin[x], d, k, Server(k))
                         /\ Server(k) = d => Away(dials, origin[x], d, k, Client(k))
    BY <1>0, <2>4, StartsOut
  <2>7. UpIsAway' /\ DownIsAway' /\ SentCame' /\ SentOnce'
    <3>1. Counted(d, x) /\ up' = ToPeers(d, x, up) /\ down' = ToClients(d, x, skipped, down)
      BY <2>1, <2>2, <2>3
    <3>2. UNCHANGED <<dials, origin>>
      BY <1>1
    <3> QED BY <1>0, <2>4, <2>5, <2>6, <3>1, <3>2, BroadcastGoesAway
  <2>8. UnreadIsNew'
    <3> SUFFICES ASSUME NEW e \in Daemons, Unread(e)'
                 PROVE  /\ desktop[e] \in Clips /\ origin[desktop[e]] = e
                        /\ \A f \in Daemons : sent'[f][desktop[e]] = 0
                        /\ \A l \in Links : desktop[e] \notin ToSet(up'[l])
      BY <1>1 DEF UnreadIsNew
    <3>1. PICK y : y = desktop[e]
      OBVIOUS
    <3>2. /\ y \in Clips /\ origin[y] = e /\ e # d
          /\ \A f \in Daemons : sent[f][y] = 0
          /\ \A l \in Links : y \notin ToSet(up[l])
      BY <1>2, <3>1 DEF TreeInv, UnreadIsNew
    <3>3. y # x
      BY <2>4, <3>2
    <3>4. \A f \in Daemons : sent'[f][y] = 0
      <4>1. Counted(d, x)
        BY <2>1, <2>3
      <4> QED BY <1>0, <2>4, <3>2, <3>3, <4>1, Counts
    <3>5. \A l \in Links : y \notin ToSet(up'[l])
      <4>1. up' = ToPeers(d, x, up)
        BY <2>1, <2>3
      <4> QED BY <1>0, <2>4, <3>2, <3>3, <4>1, AddsOnly
    <3> QED BY <3>1, <3>2, <3>4, <3>5
  <2> QED BY <2>7, <2>8 DEF TreeInv
<1> QED BY <1>3, <1>4

LEMMA FromClientKeeps ==
    ASSUME Typed, TreeInv, Bridges(dials), NEW l \in Links, FromClient(l)
    PROVE  TreeInv'
<1>0. /\ dials \in SUBSET Links /\ up \in Wires /\ TypeOK
      /\ \A k \in Links : Client(k) \in Daemons /\ Server(k) \in Daemons /\ Client(k) # Server(k)
  BY Ends DEF Typed, Links, Client, Server
<1>1. PICK x, e, w : x = Head(up[l]) /\ e = Server(l) /\ w = Take(l, up)
  OBVIOUS
<1>2. /\ UNCHANGED <<dials, origin>> /\ LocalWrite(e, x) /\ Counted(e, x)
      /\ up' = ToPeers(e, x, w) /\ down' = ToClients(e, x, {l}, down) /\ up[l] # <<>>
  BY <1>1 DEF FromClient
<1>3. /\ w \in Wires /\ x \in Clips /\ e \in Daemons /\ x \in ToSet(up[l])
      /\ \A k \in Links : ToSet(w[k]) \subseteq ToSet(up[k])
  BY <1>0, <1>1, <1>2, TakesOnly
<1>4. /\ l \in dials /\ Away(dials, origin[x], Client(l), l, Server(l))
      /\ sent[Client(l)][x] > 0 /\ sent[e][x] = 0
  BY <1>1, <1>3 DEF TreeInv, UpIsAway
<1>5. \A k \in Links : IsInjective(w[k]) /\ (Server(k) = e => x \notin ToSet(w[k]))
  <2> SUFFICES ASSUME NEW k \in Links
               PROVE  IsInjective(w[k]) /\ (Server(k) = e => x \notin ToSet(w[k]))
    OBVIOUS
  <2>1. IsInjective(up[k])
    BY DEF TreeInv, UpIsAway
  <2>2. CASE k = l
    BY <1>0, <1>1, <1>2, <2>1, <2>2, Removes
  <2>3. CASE k # l
    <3>1. w[k] = up[k]
      BY <1>0, <1>1, <1>2, <2>3, Removes
    <3>2. ASSUME Server(k) = e, x \in ToSet(up[k]) PROVE FALSE
      <4>1. k \in dials /\ Away(dials, origin[x], Client(k), k, Server(k))
        BY <3>2 DEF TreeInv, UpIsAway
      <4>2. k = l
        BY <1>1, <1>4, <3>2, <4>1, OneWay
      <4> QED BY <2>3, <4>2
    <3> QED BY <2>1, <3>1, <3>2
  <2> QED BY <2>2, <2>3
<1>6. \A k \in dials : k # l => /\ Client(k) = e => Away(dials, origin[x], e, k, Server(k))
                                /\ Server(k) = e => Away(dials, origin[x], e, k, Client(k))
  BY <1>0, <1>1, <1>4, GoesOn
<1>7. /\ \A k \in dials : Client(k) = e => Away(dials, origin[x], e, k, Server(k))
      /\ \A k \in dials \ {l} : Server(k) = e => Away(dials, origin[x], e, k, Client(k))
  BY <1>0, <1>1, <1>6
<1>8. UpIsAway' /\ DownIsAway' /\ SentCame' /\ SentOnce'
  <2>1. \E k \in dials : /\ Server(k) = e /\ Away(dials, origin[x], Client(k), k, e)
                         /\ sent[Client(k)][x] > 0
    BY <1>1, <1>4
  <2> QED BY <1>2, <1>3, <1>4, <1>5, <1>7, <2>1, BroadcastGoesAway
<1>9. UnreadIsNew'
  <2> SUFFICES ASSUME NEW d \in Daemons, Unread(d)'
               PROVE  /\ desktop'[d] \in Clips /\ origin[desktop'[d]] = d
                      /\ \A f \in Daemons : sent'[f][desktop'[d]] = 0
                      /\ \A k \in Links : desktop'[d] \notin ToSet(up'[k])
    BY <1>2 DEF UnreadIsNew
  <2>1. Unread(d) /\ desktop'[d] = desktop[d]
    BY <1>0, <1>2 DEF LocalWrite, Unread, TypeOK
  <2>2. PICK y : y = desktop[d]
    OBVIOUS
  <2>3. /\ y \in Clips /\ origin[y] = d
        /\ \A f \in Daemons : sent[f][y] = 0
        /\ \A k \in Links : y \notin ToSet(up[k])
    BY <2>1, <2>2 DEF TreeInv, UnreadIsNew
  <2>4. y # x
    BY <1>3, <2>3
  <2>5. \A f \in Daemons : sent'[f][y] = 0
    BY <1>0, <1>2, <1>3, <2>3, <2>4, Counts
  <2>6. ASSUME NEW k \in Links PROVE y \notin ToSet(up'[k])
    <3>1. ToSet(up'[k]) \subseteq ToSet(w[k]) \cup {x}
      BY <1>2, <1>3, AddsOnly
    <3> QED BY <1>3, <2>3, <2>4, <3>1
  <2> QED BY <2>1, <2>2, <2>3, <2>5, <2>6
<1> QED BY <1>8, <1>9 DEF TreeInv

LEMMA TreeStep ==
    ASSUME Typed, FreshInv, Bridges(dials), TreeInv, [Next]_vars
    PROVE  TreeInv'
<1>0. up \in Wires /\ down \in Wires /\ TypeOK /\ \A k \in Links : IsInjective(up[k])
  BY Ends DEF Typed, TreeInv, UpIsAway
<1>1. ASSUME NEW d \in Daemons, NEW x \in Clips, UserCopy(d, x) PROVE TreeInv'
  BY <1>1, CopyKeeps
<1>2. ASSUME NEW d \in Daemons, Check(d) PROVE TreeInv'
  BY <1>2, CheckKeeps
<1>3. ASSUME NEW l \in Links, FromClient(l) PROVE TreeInv'
  BY <1>3, FromClientKeeps
<1>4. ASSUME NEW l \in Links, Echo(l) PROVE TreeInv'
  <2>1. UNCHANGED <<dials, origin, sent, down, desktop, lastHash>> /\ up' = Take(l, up) /\ up[l] # <<>>
    BY <1>4 DEF Echo, watchers
  <2>2. \A k \in Links : ToSet(up'[k]) \subseteq ToSet(up[k]) /\ IsInjective(up'[k])
    <3>1. /\ IsInjective(up'[l]) /\ ToSet(up'[l]) \subseteq ToSet(up[l])
          /\ \A k \in Links : k # l => up'[k] = up[k]
      BY <1>0, <2>1, Removes
    <3> QED BY <1>0, <3>1
  <2>3. \A d \in Daemons : Unread(d)' => Unread(d)
    BY <2>1 DEF Unread
  <2> QED BY <2>1, <2>2, <2>3, TakingKeeps
<1>5. ASSUME NEW l \in Links, FromPeer(l) PROVE TreeInv'
  <2>1. /\ UNCHANGED <<dials, origin, sent, up>> /\ down' = Take(l, down) /\ down[l] # <<>>
        /\ LocalWrite(Client(l), Head(down[l]))
    BY <1>5 DEF FromPeer
  <2>2. \A k \in Links : ToSet(down'[k]) \subseteq ToSet(down[k])
    BY <1>0, <2>1, TakesOnly
  <2>3. \A d \in Daemons : Unread(d)' => Unread(d) /\ desktop'[d] = desktop[d]
    BY <1>0, <2>1 DEF LocalWrite, Unread, TypeOK
  <2> QED BY <1>0, <2>1, <2>2, <2>3, TakingKeeps
<1>6. ASSUME NEW cut, Cut(cut)
      PROVE  \A k \in Links : /\ ToSet(up'[k]) \subseteq ToSet(up[k]) /\ IsInjective(up'[k])
                              /\ ToSet(down'[k]) \subseteq ToSet(down[k])
  BY <1>0, <1>6, OfEmpty DEF Cut, Cleared
<1>7. ASSUME NEW l \in Links, Break(l) PROVE TreeInv'
  <2>1. UNCHANGED <<dials, origin, sent, desktop, lastHash>>
    BY <1>7 DEF Break, watchers
  <2>2. \A d \in Daemons : Unread(d)' => Unread(d)
    BY <2>1 DEF Unread
  <2>3. \A k \in Links : /\ ToSet(up'[k]) \subseteq ToSet(up[k]) /\ IsInjective(up'[k])
                         /\ ToSet(down'[k]) \subseteq ToSet(down[k])
    BY <1>6, <1>7 DEF Break
  <2> QED BY <2>1, <2>2, <2>3, TakingKeeps
<1>8. ASSUME NEW d \in Daemons, Restart(d) PROVE TreeInv'
  <2>1. UNCHANGED <<dials, origin, sent, desktop>> /\ lastHash' = [lastHash EXCEPT ![d] = desktop[d]]
    BY <1>8 DEF Restart
  <2>2. \A e \in Daemons : Unread(e)' => Unread(e)
    BY <1>0, <2>1 DEF Unread, TypeOK
  <2>3. \A k \in Links : /\ ToSet(up'[k]) \subseteq ToSet(up[k]) /\ IsInjective(up'[k])
                         /\ ToSet(down'[k]) \subseteq ToSet(down[k])
    BY <1>6, <1>8 DEF Restart
  <2> QED BY <2>1, <2>2, <2>3, TakingKeeps
<1>9. CASE UNCHANGED vars
  <2>1. UNCHANGED <<dials, origin, sent, up, down, desktop, lastHash>>
    BY <1>9 DEF vars, watchers, wires
  <2>2. \A d \in Daemons : Unread(d)' => Unread(d)
    BY <2>1 DEF Unread
  <2> QED BY <1>0, <2>1, <2>2, TakingKeeps
<1> QED BY <1>1, <1>2, <1>3, <1>4, <1>5, <1>7, <1>8, <1>9 DEF Next, Arrive

\* What is said of meshes without loops rests on this.
LEMMA TreeInvariant == Spec => [](Typed /\ FreshInv /\ (Bridges(dials) => TreeInv))
<1> DEFINE Inv == Typed /\ FreshInv /\ (Bridges(dials) => TreeInv)
<1>1. Init => Inv
  BY TypeInit, FreshInit, TreeInit
<1>2. Inv /\ [Next]_vars => Inv'
  <2> SUFFICES ASSUME Inv, [Next]_vars PROVE Inv'
    OBVIOUS
  <2>1. Typed' /\ FreshInv'
    BY TypeStep, FreshStep
  <2>2. UNCHANGED dials
    <3>1. ASSUME NEW d \in Daemons, NEW x \in Clips, UserCopy(d, x) PROVE UNCHANGED dials
      BY <3>1 DEF UserCopy
    <3>2. ASSUME NEW d \in Daemons, Check(d) \/ Restart(d) PROVE UNCHANGED dials
      BY <3>2 DEF Check, Restart
    <3>3. ASSUME NEW l \in Links, Arrive(l) \/ Break(l) PROVE UNCHANGED dials
      BY <3>3 DEF Arrive, Echo, FromClient, FromPeer, Break
    <3>4. CASE UNCHANGED vars
      BY <3>4 DEF vars
    <3> QED BY <3>1, <3>2, <3>3, <3>4 DEF Next
  <2>3. Bridges(dials) => TreeInv'
    BY TreeStep
  <2> QED BY <2>1, <2>2, <2>3
<1> QED BY <1>1, <1>2, PTL DEF Spec

\* In every mesh without loops, of any size, no clip is ever on its way back to
\* where it was copied.  The links on a clip's way all go away from its origin.
THEOREM NoEchoWithoutLoops == Spec => []NoEcho
<1>1. Typed /\ FreshInv /\ (Bridges(dials) => TreeInv) => NoEcho
  <2> SUFFICES ASSUME Typed, Bridges(dials) => TreeInv, Loopless(dials), NEW l \in Links
               PROVE  /\ \A x \in ToSet(up[l]) : origin[x] # Server(l)
                      /\ \A x \in ToSet(down[l]) : origin[x] # Client(l)
    BY DEF NoEcho
  <2>1. TreeInv
    BY LooplessBridges DEF Typed
  <2>2. /\ \A x \in ToSet(up[l]) : Away(dials, origin[x], Client(l), l, Server(l))
        /\ \A x \in ToSet(down[l]) : Away(dials, origin[x], Server(l), l, Client(l))
    BY <2>1 DEF TreeInv, UpIsAway, DownIsAway
  <2> QED BY <2>2 DEF Away
<1> QED BY <1>1, TreeInvariant, PTL

\* In every mesh without loops, of any size, no daemon broadcasts a clip twice:
\* by the only way to it a clip comes once.
THEOREM OnceWithoutLoops == Spec => []BroadcastOnce
<1>1. Typed /\ FreshInv /\ (Bridges(dials) => TreeInv) => BroadcastOnce
  BY LooplessBridges DEF Typed, BroadcastOnce, TreeInv, SentOnce
<1> QED BY <1>1, TreeInvariant, PTL
=============================================================================
