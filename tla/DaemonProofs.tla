---------------------------- MODULE DaemonProofs ----------------------------
(* Theorems about Daemon, for every value of its constants. *)
EXTENDS Daemon, TLAPS

\* What is proved of a hub and of a watcher, for those of the daemon.
HP == INSTANCE HubProofs WITH LocalClips <- Local
WP == INSTANCE WatcherProofs WITH
        notifier <- "off", events <- 0, notify <- ~TRUE, cancelled <- ~TRUE,
        mu <- clipMu, pc <- run,
        Notifiers <- {"off"}, Remote <- H!RemoteClips,
        MaxCopies <- MaxInputs + 1, MaxWrites <- MaxInputs

\* The assumptions of the parts hold in the daemon.
LEMMA PartsAssume ==
    /\ H!HubAssumption /\ HP!HubAssumption /\ HP!ContentAssumption
    /\ W!WatcherAssumption /\ WP!WatcherAssumption /\ WP!ContentAssumption
<1>1. H!HubAssumption
  BY DaemonAssumption DEF DaemonAssumption, H!HubAssumption, H!Locals, H!Threads
<1>2. HP!HubAssumption
  BY <1>1 DEF H!HubAssumption, HP!HubAssumption, H!Locals, HP!Locals, H!Threads, HP!Threads,
         H!Targets, HP!Targets, H!RemoteClips, HP!RemoteClips, H!Clips, HP!Clips, H!Decodable,
         HP!Decodable, H!MsgToContent, HP!MsgToContent, H!Text, HP!Text, H!Image, HP!Image,
         H!withMime, HP!withMime, H!NoMime, HP!NoMime, H!DefaultImageMime, HP!DefaultImageMime,
         H!hashContent, HP!hashContent, H!Hash, HP!Hash, H!NoHash, HP!NoHash, H!Blank, HP!Blank
<1>3. W!WatcherAssumption /\ WP!WatcherAssumption
  BY DaemonAssumption
  DEF DaemonAssumption, W!WatcherAssumption, WP!WatcherAssumption, Backends, W!Backends, WP!Backends
<1>4. HP!ContentAssumption /\ WP!ContentAssumption
  BY ContentAssumption
  DEF ContentAssumption, HP!ContentAssumption, WP!ContentAssumption, NoMime, HP!NoMime, WP!NoMime,
      TextMime, HP!TextMime, WP!TextMime, DefaultImageMime, HP!DefaultImageMime, WP!DefaultImageMime
<1> QED BY <1>1, <1>2, <1>3, <1>4

\* The parts and the daemon speak of the same contents.
LEMMA SameContents ==
    /\ \A m : H!Decodable(m) = Decodable(m) /\ H!MsgToContent(m) = MsgToContent(m)
    /\ \A c : H!hashContent(c) = hashContent(c)
    /\ Blank = W!Blank /\ NoHash = W!NoHash /\ NoMime = W!NoMime
    /\ \A c : W!hashContent(c) = hashContent(c)
    /\ \A c : W!Written(c) = Written(c)
    /\ \A offer : W!Listed(Backend, offer) = Listed(Backend, offer)
    /\ \A mime, offer : W!Fetch(Backend, mime, offer) = Fetch(Backend, mime, offer)
    /\ \A offer : W!Read(Backend, offer) = Read(Backend, offer)
    /\ \A offer : W!Misread(Backend, offer) = Misread(Backend, offer)
<1>1. Blank = W!Blank /\ NoHash = W!NoHash /\ NoMime = W!NoMime
  BY DEF Blank, W!Blank, NoHash, W!NoHash, NoMime, W!NoMime, Text, W!Text, Hash, W!Hash
<1>2. \A c : W!hashContent(c) = hashContent(c)
  BY DEF hashContent, W!hashContent, Hash, W!Hash, NoMime, W!NoMime
<1>3. \A c : W!Written(c) = Written(c)
  BY DEF Written, W!Written, Offer, W!Offer, withMime, W!withMime, NoMime, W!NoMime,
         TextMime, W!TextMime, DefaultImageMime, W!DefaultImageMime
<1>4. \A offer : W!Listed(Backend, offer) = Listed(Backend, offer)
  BY DEF Listed, W!Listed, chooseImageType, W!chooseImageType, NoMime, W!NoMime,
         DefaultImageMime, W!DefaultImageMime, Range, W!Range
<1>5. \A mime, offer : W!Fetch(Backend, mime, offer) = Fetch(Backend, mime, offer)
  BY DEF Fetch, W!Fetch, TextRead, W!TextRead, NoMime, W!NoMime, TextMime, W!TextMime, Range, W!Range,
         Blank, W!Blank, Text, W!Text, Image, W!Image
<1>6. \A offer : W!Read(Backend, offer) = Read(Backend, offer)
  BY <1>4, <1>5 DEF Read, W!Read
<1>7. \A m : H!Decodable(m) = Decodable(m) /\ H!MsgToContent(m) = MsgToContent(m)
  BY DEF Decodable, H!Decodable, MsgToContent, H!MsgToContent, Image, H!Image, Text, H!Text,
         withMime, H!withMime, NoMime, H!NoMime, DefaultImageMime, H!DefaultImageMime
<1>8. \A c : H!hashContent(c) = hashContent(c)
  BY DEF hashContent, H!hashContent, Hash, H!Hash, NoMime, H!NoMime
<1>9. \A offer : W!Misread(Backend, offer) = Misread(Backend, offer)
  BY DEF Misread, W!Misread, TextRead, W!TextRead, TextMime, W!TextMime, NoMime, W!NoMime,
         Range, W!Range, Blank, W!Blank, Text, W!Text
<1> QED BY <1>1, <1>2, <1>3, <1>4, <1>5, <1>6, <1>7, <1>8, <1>9

\* What the daemon may read of an offer, whole, torn or by failing tools.
LEMMA LocalHas ==
    ASSUME NEW before \in Offers, NEW offer \in Offers
    PROVE  Fetch(Backend, Listed(Backend, before), offer) \cup Misread(Backend, offer) \subseteq Local
<1> HIDE DEF Offers
<1> DEFINE S(x, y) == Fetch(Backend, Listed(Backend, x), y) \cup Misread(Backend, y)
<1>1. Local = UNION {S(x, y) : x \in Offers, y \in Offers}
  BY DEF Local
<1> HIDE DEF S
<1>2. S(before, offer) \in {S(x, y) : x \in Offers, y \in Offers}
  OBVIOUS
<1>3. S(before, offer) \subseteq Local
  BY <1>1, <1>2
<1> QED BY <1>3 DEF S

----------------------------------------------------------------------------
(* The parts keep to their protocols *)

\* What is on the clipboard was offered, what was read of it was there, and
\* what a connection handles was delivered.
ReadInv ==
    /\ clipboard \in Offers
    /\ run \in {"first", "read"} => \E before \in Offers : listed = Listed(Backend, before)
    /\ seen.content \in Local
HandledInv == \A c \in Conns : H!Busy(c) => work[c] \in H!RemoteClips

\* Each step is one of the watcher or leaves it alone, ...
LEMMA WatcherMoves ==
    ASSUME HandledInv, [Next]_vars
    PROVE  \/ \E offer \in Copies : UserCopy(offer)
           \/ \E x \in H!RemoteClips : W!WriteClip(x)
           \/ W!WriteFails \/ W!WriteMark \/ W!Run
           \/ UNCHANGED W!vars
<1>1. UNCHANGED watcher => UNCHANGED W!vars
  BY DEF watcher, W!vars, W!desktop, W!writer, W!thread, W!hashes
<1>2. Watching => W!Run
  BY DEF Watching, Snapshot, Tick, CheckList, CheckRead, CheckDecide, Report, Watches, W!Run
<1>3. ASSUME NEW c \in Conns, LocalWrite(c)
      PROVE  (\E x \in H!RemoteClips : W!WriteClip(x)) \/ W!WriteFails \/ W!WriteMark
  BY <1>3 DEF LocalWrite, Write, Mark, WriteFails, HandledInv, H!Busy
<1>4. ASSUME NEW q \in Peers, PeerPush(q)
      PROVE  (\E x \in H!RemoteClips : W!WriteClip(x)) \/ W!WriteFails \/ W!WriteMark
  <2>1. \A m \in Messages : Decodable(m) => MsgToContent(m) \in H!RemoteClips
    BY SameContents DEF H!RemoteClips
  <2> QED BY <1>4, <2>1 DEF PeerPush, PeerWrite, PeerMark, PeerWriteFails
<1> QED BY <1>1, <1>2, <1>3, <1>4
        DEF Next, Handshake, ReadClip, Serve, Sends, Send, Deliver, ApiSend, Link, Environment,
            WatcherStays, vars

LEMMA WatcherSteps == HandledInv /\ [Next]_vars => [W!Next]_W!vars
  BY WatcherMoves DEF UserCopy, W!Next, W!LocalWrite

\* ... and one of the hub or leaves that alone.
LEMMA HubSteps == ReadInv /\ [Next]_vars => [H!Next]_H!vars
<1> SUFFICES ASSUME ReadInv, [Next]_vars, UNCHANGED hub => UNCHANGED H!vars
             PROVE  [H!Next]_H!vars
  BY DEF hub, H!vars, H!threads, H!registry, H!echo, H!traffic
<1>1. CASE Report
  BY <1>1 DEF Report, ReadInv, H!Next, H!Input
<1>2. ASSUME NEW c \in Conns, Handshake(c) \/ (\E m \in Messages : ReadClip(c, m)) \/ Serve(c)
      PROVE  H!Next
  BY <1>2 DEF Handshake, ReadClip, Serve, H!Next, H!Serve
<1>3. ASSUME NEW c \in Conns, Mark(c) \/ WriteFails(c) PROVE H!Next
  BY <1>3 DEF Mark, WriteFails, H!Next, H!Serve
<1>4. ASSUME NEW p \in H!Threads, Sends(p) PROVE H!Next
  BY <1>4 DEF Sends, Send, Deliver, H!Next, H!Send, H!Write
<1>5. ASSUME NEW x \in ApiClips, ApiSend(x) PROVE H!Next
  BY <1>5 DEF ApiSend, H!Next, H!Input
<1>6. ASSUME NEW q \in Peers, Link(q) PROVE H!Next
  BY <1>6 DEF Link, H!Next
<1>7. CASE Environment
  BY <1>7 DEF Environment, H!Next
<1>8. CASE UNCHANGED hub
  BY <1>8
<1> QED BY <1>1, <1>2, <1>3, <1>4, <1>5, <1>6, <1>7, <1>8
        DEF Next, UserCopy, Watching, Snapshot, Tick, CheckList, CheckRead, CheckDecide, Watches,
            LocalWrite, Write, PeerPush, PeerWrite, PeerMark, PeerWriteFails, HubStays, vars

----------------------------------------------------------------------------
(* What holds of the hub and of the watcher holds of the daemon's *)

\* HubProofs speaks of the same hub as Daemon.
LEMMA OneHub ==
    /\ H!Init => HP!Init
    /\ [H!Next]_H!vars => [HP!Next]_HP!vars
    /\ HP!TypeOK => H!TypeOK
<1>1. H!Init => HP!Init
  BY DEF H!Init, HP!Init, H!Locals, HP!Locals, H!Threads, HP!Threads, H!Targets, HP!Targets, H!NoHash, HP!NoHash,
         H!Blank, HP!Blank, H!Text, HP!Text, H!Hash, HP!Hash, H!NoMime, HP!NoMime
<1>2. [H!Next]_H!vars => [HP!Next]_HP!vars
  BY DEF H!Next, HP!Next, H!Handshake, HP!Handshake, H!Accept, HP!Accept, H!Full, HP!Full,
         H!Cardinality, HP!Cardinality, H!Refuse, HP!Refuse, H!Hello, HP!Hello, H!HelloFails,
         HP!HelloFails, H!ReadHook, HP!ReadHook, H!HelloReply, HP!HelloReply, H!Goto, HP!Goto,
         H!Serve, HP!Serve, H!ReadClip, HP!ReadClip, H!Enters, HP!Enters, H!ReadFails,
         HP!ReadFails, H!Leave, HP!Leave, H!Dedup, HP!Dedup, H!IsEcho, HP!IsEcho, H!Apply,
         HP!Apply, H!Send, HP!Send, H!DropBig, HP!DropBig, H!TooBig, HP!TooBig, H!Return,
         HP!Return, H!Begin, HP!Begin, H!Write, HP!Write, H!Turn, HP!Turn, H!Skip, HP!Skip,
         H!MaySkip, HP!MaySkip, H!recentlySent, HP!recentlySent, H!Deliver, HP!Deliver,
         H!WriteFails, HP!WriteFails, H!Finish, HP!Finish, H!Input, HP!Input, H!Report,
         HP!Report, H!ApiSend, HP!ApiSend, H!LocalStart, HP!LocalStart, H!Link, HP!Link,
         H!registerPeer, HP!registerPeer, H!unregisterPeer, HP!unregisterPeer, H!Environment,
         HP!Environment, H!Drop, HP!Drop, H!threads, HP!threads, H!registry, HP!registry, H!echo,
         HP!echo, H!traffic, HP!traffic, H!vars, HP!vars, H!Locals, HP!Locals, H!Threads,
         HP!Threads, H!Targets, HP!Targets, H!RemoteClips, HP!RemoteClips, H!Clips, HP!Clips,
         H!Decodable, HP!Decodable, H!MsgToContent, HP!MsgToContent, H!Text, HP!Text, H!Image,
         HP!Image, H!withMime, HP!withMime, H!NoMime, HP!NoMime, H!DefaultImageMime,
         HP!DefaultImageMime, H!hashContent, HP!hashContent, H!Hash, HP!Hash, H!NoHash,
         HP!NoHash, H!Blank, HP!Blank
<1>3. HP!TypeOK => H!TypeOK
  BY DEF H!TypeOK, HP!TypeOK, H!ConnStates, HP!ConnStates, H!LocalStates, HP!LocalStates, H!Busy, HP!Busy, H!Keys,
         HP!Keys, H!Locals, HP!Locals, H!Threads, HP!Threads, H!Targets, HP!Targets,
         H!RemoteClips, HP!RemoteClips, H!Clips, HP!Clips, H!Decodable, HP!Decodable,
         H!MsgToContent, HP!MsgToContent, H!Text, HP!Text, H!Image, HP!Image, H!withMime,
         HP!withMime, H!NoMime, HP!NoMime, H!DefaultImageMime, HP!DefaultImageMime,
         H!hashContent, HP!hashContent, H!Hash, HP!Hash, H!NoHash, HP!NoHash, H!Blank, HP!Blank
<1> QED BY <1>1, <1>2, <1>3

PartsInv == HP!TypeOK /\ ReadInv /\ HandledInv

LEMMA ReadStep == ReadInv /\ HandledInv /\ [Next]_vars => ReadInv'
<1> SUFFICES ASSUME ReadInv, HandledInv, [Next]_vars PROVE ReadInv'
  OBVIOUS
<1> USE DEF ReadInv
<1>0. /\ \A x \in H!RemoteClips : W!Written(x) \in Offers
      /\ \A x \in W!Fetched : run \in {"first", "read"} => x \in Local
      /\ \A x : W!Seen(x).content = x
      /\ Copies \subseteq Offers
  <2>1. \A x \in H!RemoteClips : W!Written(x) \in Offers
    BY SameContents DEF H!RemoteClips, Offers
  <2>2. \A x \in W!Fetched : run \in {"first", "read"} => x \in Local
    <3>1. W!Fetch(Backend, listed, clipboard) = Fetch(Backend, listed, clipboard)
      BY SameContents
    <3>2. ASSUME NEW before \in Offers, NEW offer \in Offers
          PROVE  Fetch(Backend, Listed(Backend, before), offer) \subseteq Local
      BY LocalHas
    <3>3. W!Misreadable \subseteq Local
      BY SameContents, LocalHas DEF W!Misreadable
    <3> QED BY <3>1, <3>2, <3>3 DEF W!Fetched
  <2> QED BY <2>1, <2>2 DEF W!Seen, Offers
<1>1. ASSUME [W!Next]_W!vars PROVE ReadInv'
  <2> USE DEF W!desktop, W!thread
  <2>1. ASSUME NEW offer \in Copies, W!UserCopy(offer) PROVE ReadInv'
    BY <1>0, <2>1 DEF W!UserCopy, W!SetClipboard
  <2>2. ASSUME NEW x \in H!RemoteClips, W!WriteClip(x) PROVE ReadInv'
    BY <1>0, <2>2 DEF W!WriteClip, W!SetClipboard
  <2>3. CASE W!SnapshotList \/ W!CheckList
    BY <2>3, SameContents DEF W!SnapshotList, W!CheckList, W!List
  <2>4. CASE W!Snapshot \/ W!CheckRead
    <3>1. PICK x \in W!Fetched : seen' = W!Seen(x) /\ run \in {"first", "read"}
      BY <2>4 DEF W!Snapshot, W!CheckRead
    <3>2. clipboard' = clipboard /\ run' \notin {"first", "read"}
      BY <2>4 DEF W!Snapshot, W!CheckRead
    <3> QED BY <1>0, <3>1, <3>2
  <2>5. CASE /\ UNCHANGED <<clipboard, seen>>
             /\ run' \in {"first", "read"} => run' = run /\ listed' = listed
    BY <2>5
  <2> QED BY <1>1, <2>1, <2>2, <2>3, <2>4, <2>5
          DEF W!Next, W!Forward, W!NotifierDies, W!LocalWrite, W!WriteFails, W!WriteMark, W!Run,
              W!Tick, W!TakeSignal, W!SettleMore, W!SettleDone, W!CheckDecide, W!OnChange, W!Stop, W!Cancel, W!vars
<1> QED BY <1>1, WatcherSteps

LEMMA HandledStep == HP!TypeOK /\ HandledInv /\ [H!Next]_H!vars => HandledInv'
<1> SUFFICES ASSUME HP!TypeOK, HandledInv, [H!Next]_H!vars PROVE HandledInv'
  OBVIOUS
<1>0. /\ pc \in [H!Threads -> H!ConnStates \cup H!LocalStates] 
      /\ work \in [H!Threads -> H!Clips \cup {H!Blank}]
      /\ Conns \subseteq H!Threads
  BY OneHub DEF H!TypeOK, H!Threads
<1> USE DEF HandledInv, H!Busy
<1>1. ASSUME NEW c \in Conns, NEW m \in Messages, H!ReadClip(c, m) PROVE HandledInv'
  <2>1. H!MsgToContent(m) \in H!RemoteClips
    BY <1>1 DEF H!ReadClip, H!RemoteClips
  <2> QED BY <1>0, <1>1, <2>1 DEF H!ReadClip
<1>2. ASSUME NEW p \in H!Locals, NEW x, H!LocalStart(p, x) PROVE HandledInv'
  <2>1. p \in H!Threads /\ p \notin Conns
    BY DaemonAssumption DEF DaemonAssumption, H!Locals, H!Threads
  <2> QED BY <1>0, <1>2, <2>1 DEF H!LocalStart
<1>3. ASSUME UNCHANGED work,
             \A c \in Conns : H!Busy(c)' => H!Busy(c)
      PROVE  HandledInv'
  BY <1>3
<1>4. ASSUME NEW p \in H!Threads, NEW state, H!Busy(p) \/ state \notin {"dedup", "apply", "relay", "send"},
             pc' = [pc EXCEPT ![p] = state], UNCHANGED work
      PROVE  HandledInv'
  BY <1>0, <1>3, <1>4
<1>5. ASSUME NEW c \in Conns, H!Dedup(c) PROVE HandledInv'
  BY <1>0, <1>3, <1>5 DEF H!Dedup
<1>6. CASE UNCHANGED <<pc, work>>
  BY <1>3, <1>6
<1> QED BY <1>0, <1>1, <1>2, <1>4, <1>5, <1>6
        DEF H!Next, H!Handshake, H!Accept, H!Refuse, H!Hello, H!HelloFails, H!ReadHook,
            H!HelloReply, H!Goto, H!Serve, H!ReadFails, H!Leave, H!Apply, H!Send, H!DropBig,
            H!Return, H!Begin, H!Write, H!Skip, H!Deliver, H!WriteFails, H!Finish, H!Input,
            H!Report, H!ApiSend, H!Locals, H!Link, H!registerPeer, H!unregisterPeer,
            H!Environment, H!Drop, H!threads, H!vars

LEMMA PartsInit == Init => PartsInv
<1> SUFFICES ASSUME Init PROVE PartsInv
  OBVIOUS
<1>1. HP!TypeOK
  BY OneHub, PartsAssume, HP!TypeInit DEF Init, HP!HubAssumption, HP!ContentAssumption
<1>2. ReadInv
  <2>1. clipboard \in Offers /\ run = "init" /\ seen.content = Blank
    BY SameContents DEF Init, W!Init, W!Seen, Offers
  <2>2. Blank \in Local
    BY <2>1, LocalHas DEF Misread
  <2> QED BY <2>1, <2>2 DEF ReadInv
<1>3. HandledInv
  <2>1. \A c \in Conns : pc[c] = "new"
    BY DEF Init, H!Init, H!Threads
  <2> QED BY <2>1 DEF HandledInv, H!Busy
<1> QED BY <1>1, <1>2, <1>3 DEF PartsInv

LEMMA PartsStep == PartsInv /\ [Next]_vars => PartsInv'
<1> SUFFICES ASSUME PartsInv, [Next]_vars PROVE PartsInv'
  OBVIOUS
<1>1. [H!Next]_H!vars
  BY HubSteps DEF PartsInv
<1>2. HP!TypeOK'
  BY <1>1, OneHub, PartsAssume, HP!TypeStep DEF PartsInv, HP!HubAssumption, HP!ContentAssumption
<1>3. ReadInv' /\ HandledInv'
  BY <1>1, ReadStep, HandledStep DEF PartsInv
<1> QED BY <1>2, <1>3 DEF PartsInv

LEMMA PartsHold == Spec => []PartsInv
  BY PartsInit, PartsStep, PTL DEF Spec

\* The wiring uses the watcher as it may be used: the callback runs to its
\* end before the next check, and LocalWrite is called with clips that were
\* delivered, by one goroutine at a time (app.go:121-160, watch.go:133-161).
THEOREM WatcherIsUsedWell == Spec => WatcherSpec
<1>1. Init => W!Init
  BY DEF Init
<1>2. PartsInv /\ [Next]_vars => [W!Next]_W!vars
  BY WatcherSteps DEF PartsInv
<1> QED BY <1>1, <1>2, PartsHold, PTL DEF Spec, WatcherSpec, W!Spec

\* And the hub: with the clipboard behind onRemoteClip and the watcher as a
\* local sender, it takes no step that Hub does not describe, whatever is
\* copied, torn or delivered meanwhile (app.go:121-160).
THEOREM HubIsUsedWell == Spec => HubSpec
<1>1. Init => H!Init
  BY DEF Init
<1>2. PartsInv /\ [Next]_vars => [H!Next]_H!vars
  BY HubSteps DEF PartsInv
<1> QED BY <1>1, <1>2, PartsHold, PTL DEF Spec, HubSpec, H!Spec

\* So what HubProofs shows of any hub holds of the daemon's: the registry is
\* exact and within its limit, broadcasts are locked, relays complete, and
\* deliveries in one order (handlers.go:30-50, broadcast.go:13-57).
THEOREM HubKeepsItsPromises ==
    Spec => [](/\ H!RegistryExact /\ H!ClientCap /\ H!TargetsRegistered
               /\ H!RelayReachesAll /\ H!F!InOrder)
<1>1. HubSpec => HP!Spec
  BY OneHub, PTL DEF HubSpec, H!Spec, HP!Spec
<1>2. HP!RegistryExact /\ HP!ClientCap /\ HP!TargetsRegistered =>
        H!RegistryExact /\ H!ClientCap /\ H!TargetsRegistered
  BY DEF H!RegistryExact, HP!RegistryExact, H!Live, HP!Live, H!ClientCap, HP!ClientCap,
         H!Cardinality, HP!Cardinality, H!TargetsRegistered, HP!TargetsRegistered,
         H!Threads, HP!Threads, H!Locals, HP!Locals
<1>3. HP!RelayReachesAll => H!RelayReachesAll
  BY DEF H!RelayReachesAll, HP!RelayReachesAll, H!F!Latest, HP!F!Latest
<1>4. HP!F!InOrder => H!F!InOrder
  BY DEF H!F!InOrder, HP!F!InOrder, H!Targets, HP!Targets
<1> QED BY <1>1, <1>2, <1>3, <1>4, HubIsUsedWell, HP!RegistryIsExact, HP!ClientsAreCapped,
           HP!BroadcastIsLocked, HP!RelaysAreComplete, HP!DeliveriesAreOrdered, PartsAssume, PTL
        DEF HP!HubAssumption, HP!ContentAssumption

\* WatcherProofs speaks of the same watcher as Daemon.
LEMMA OneWatcher ==
    /\ W!Init => WP!Init
    /\ [W!Next]_W!vars => [WP!Next]_WP!vars
<1>1. W!Init => WP!Init
  BY DEF W!Init, WP!Init, W!Seen, WP!Seen, W!Readable, WP!Readable, W!TextRead, WP!TextRead,
         W!Text, WP!Text, W!Image, WP!Image, W!Blank, WP!Blank, W!Hash, WP!Hash, W!hashContent,
         WP!hashContent, W!NoHash, WP!NoHash, W!NoMime, WP!NoMime, W!TextMime, WP!TextMime,
         W!DefaultImageMime, WP!DefaultImageMime, W!withMime, WP!withMime, W!Offer, WP!Offer,
         W!chooseImageType, WP!chooseImageType, W!Range, WP!Range, W!Listed, WP!Listed, W!Fetch,
         WP!Fetch, W!Read, WP!Read, W!CanWrite, WP!CanWrite, W!Written, WP!Written
<1>2. [W!Next]_W!vars => [WP!Next]_WP!vars
  BY DEF W!Next, WP!Next, W!UserCopy, WP!UserCopy, W!SetClipboard, WP!SetClipboard, W!Forward,
         WP!Forward, W!NotifierDies, WP!NotifierDies, W!LocalWrite, WP!LocalWrite, W!WriteClip,
         WP!WriteClip, W!WriteFails, WP!WriteFails, W!WriteMark, WP!WriteMark, W!Run, WP!Run,
         W!SnapshotList, WP!SnapshotList, W!List, WP!List, W!Snapshot, WP!Snapshot, W!Fetched,
         WP!Fetched, W!Misreadable, WP!Misreadable, W!Misread, WP!Misread, W!TextRead,
         WP!TextRead, W!Readable, WP!Readable, W!Seen, WP!Seen, W!Tick,
         WP!Tick, W!TakeSignal, WP!TakeSignal, W!SettleMore, WP!SettleMore, W!SettleDone,
         WP!SettleDone, W!CheckList, WP!CheckList, W!CheckRead, WP!CheckRead,
         W!CheckDecide, WP!CheckDecide, W!Fires, WP!Fires, W!OnChange,
         WP!OnChange, W!Stop, WP!Stop, W!Cancel, WP!Cancel, W!desktop, WP!desktop, W!thread,
         WP!thread, W!writer, WP!writer, W!hashes, WP!hashes, W!vars, WP!vars, W!Text, WP!Text,
         W!Image, WP!Image, W!Blank, WP!Blank, W!Hash, WP!Hash, W!hashContent, WP!hashContent,
         W!NoHash, WP!NoHash, W!NoMime, WP!NoMime, W!TextMime, WP!TextMime, W!DefaultImageMime,
         WP!DefaultImageMime, W!withMime, WP!withMime, W!Offer, WP!Offer, W!chooseImageType,
         WP!chooseImageType, W!Range, WP!Range, W!Listed, WP!Listed, W!Fetch, WP!Fetch, W!Read,
         WP!Read, W!CanWrite, WP!CanWrite, W!Written, WP!Written
<1> QED BY <1>1, <1>2

\* So loop protection holds in the daemon: a sound read that it reports to the
\* hub is of a copy of the user, whatever connections and peers write and
\* whatever failing tools read meanwhile (watch.go:18-24, 133-161).
THEOREM DaemonIsNotItsOwnUser ==
    ASSUME WP!RemoteIsShown
    PROVE  Spec => []W!NoSelfReport
<1>1. WatcherSpec => WP!Spec
  BY OneWatcher, PTL DEF WatcherSpec, W!Spec, WP!Spec
<1>2. WP!NoSelfReport => W!NoSelfReport
  BY DEF W!NoSelfReport, WP!NoSelfReport
<1>3. WP!Spec => []WP!NoSelfReport
  BY WP!LoopProtection, PartsAssume DEF WP!WatcherAssumption, WP!ContentAssumption
<1> QED BY <1>1, <1>2, <1>3, WatcherIsUsedWell, PTL

\* And where every offer reads as one content, no copy is broadcast twice
\* unless some read in between did not return what it should (watch.go:141-147).
THEOREM DaemonReportsOnce ==
    ASSUME WP!ReadsAreStable
    PROVE  Spec => []W!NoDoubleReport
<1>1. WatcherSpec => WP!Spec
  BY OneWatcher, PTL DEF WatcherSpec, W!Spec, WP!Spec
<1>2. WP!NoDoubleReport => W!NoDoubleReport
  BY DEF W!NoDoubleReport, WP!NoDoubleReport
<1>3. WP!Spec => []WP!NoDoubleReport
  BY WP!AtMostOnce, PartsAssume DEF WP!WatcherAssumption, WP!ContentAssumption
<1> QED BY <1>1, <1>2, <1>3, WatcherIsUsedWell, PTL

----------------------------------------------------------------------------
(* Nothing goes unsent *)

\* Whoever calls the API sends a text or an image.
ApiIsSound == \A x \in ApiClips : x = Text(x.body) \/ x = Image(x.body, x.mime)

\* A copy of the user reads as one content, and what a torn read of it returns,
\* or failing tools make of what is on the clipboard, is not what another copy
\* reads as.
CopiesAreTold ==
    /\ \A offer \in Copies : \E c \in Read(Backend, offer) : Read(Backend, offer) = {c}
    /\ \A before \in Offers, offer, other \in Copies :
         Fetch(Backend, Listed(Backend, before), offer) \cap Read(Backend, other)
           \subseteq Read(Backend, offer)
    /\ ToolsFail => \A offer \in Offers, other \in Copies :
         Misread(Backend, offer) \cap Read(Backend, other) \subseteq Read(Backend, offer)

\* A clip with this hash was broadcast, is about to be, or need not be.
Logged(h) == \E i \in 1..Len(log) : hashContent(log[i].clip) = h
Ahead(h) ==
    \/ \E p \in H!Threads : pc[p] = "relay" /\ hashContent(work[p]) = h
    \/ run = "fire" /\ hashContent(seen.content) = h
Exempt(h) ==
    \/ \E i \in 1..Len(inputs) : inputs[i].via \in {"start", "peer"} /\ hashContent(Clip(i)) = h
    \/ \E x \in Oversize : hashContent(x) = h
Sent(h) == Logged(h) \/ Ahead(h) \/ Exempt(h)

\* No copy reads so.
Unseen(h) == \A offer \in Copies : \A c \in Read(Backend, offer) : hashContent(c) # h

\* The writer holds w.mu, and what it writes it then relays, or need not.
WriteInv ==
    /\ run \in {"first", "read", "decide"} => clipMu = "watch"
    /\ clipMu = "write" =>
         /\ pending \in H!RemoteClips /\ CanWrite(Backend, pending)
         /\ IF writer \in Conns THEN pc[writer] = "apply" /\ work[writer] = pending
            ELSE \E i \in 1..Len(inputs) : inputs[i].via = "peer" /\ Clip(i) = pending

\* What is on the clipboard is the user's, or will be marked, or is.
OwnInv ==
    /\ owner = "user" => clipboard \in Copies
    /\ owner # "user" /\ clipMu = "write" => clipboard = Written(pending)
    /\ owner # "user" /\ clipMu # "write" =>
         \E c \in Read(Backend, clipboard) : Read(Backend, clipboard) = {c} /\ hashContent(c) = skipHash
    /\ owner # "user" /\ run \in {"first", "read"} => listed = Listed(Backend, clipboard)
    /\ owner = "user" /\ run \in {"init", "first"} =>
         \E i \in 1..Len(inputs) : inputs[i].via = "start" /\ Clip(i) = Shown

\* What the watcher compares with was sent, or nobody copies it.
KnownInv ==
    /\ Sent(lastHash) \/ Unseen(lastHash)
    /\ Sent(skipHash) \/ skipHash = NoHash

InputsInv == inputs \in Seq([clip : H!Clips, via : Sources])
SentInv == InputsInv /\ WriteInv /\ OwnInv /\ KnownInv

LEMMA WrittenReadsBack ==
    ASSUME WP!RemoteIsShown, NEW x \in H!RemoteClips, CanWrite(Backend, x)
    PROVE  Read(Backend, Written(x)) = {x}
<1>1. WP!Shown(x) /\ WP!CanWrite(Backend, x)
  BY DEF WP!RemoteIsShown, CanWrite, WP!CanWrite
<1>2. WP!Read(Backend, WP!Written(x)) = {x}
  BY <1>1, WP!ReadsBack, PartsAssume DEF WP!WatcherAssumption, WP!ContentAssumption
<1>3. WP!Read(Backend, WP!Written(x)) = Read(Backend, Written(x))
  BY DEF Text, WP!Text, Image, WP!Image, NoMime, WP!NoMime, TextMime, WP!TextMime,
         DefaultImageMime, WP!DefaultImageMime, withMime, WP!withMime, Offer, WP!Offer,
         chooseImageType, WP!chooseImageType, Range, WP!Range, Listed, WP!Listed, Fetch,
         WP!Fetch, TextRead, WP!TextRead, Read, WP!Read, CanWrite, WP!CanWrite, Written, WP!Written, Blank, WP!Blank
<1> QED BY <1>2, <1>3

\* A clip is a text or an image, so its hash tells which.
LEMMA ClipsAreContents ==
    ASSUME ApiIsSound, NEW x \in H!Clips
    PROVE  x = Text(x.body) \/ x = Image(x.body, x.mime)
<1>1. CASE x \in H!RemoteClips
  <2>1. \E m \in Messages : x = MsgToContent(m)
    BY <1>1, SameContents DEF H!RemoteClips
  <2> QED BY <2>1 DEF MsgToContent, Text, Image
<1>2. CASE x \in Local
  <2>1. PICK before \in Offers, offer \in Offers :
            x \in Fetch(Backend, Listed(Backend, before), offer) \cup Misread(Backend, offer)
    BY <1>2 DEF Local
  <2> QED BY <2>1 DEF Fetch, Misread, TextRead, Blank, Text, Image
<1> QED BY <1>1, <1>2 DEF H!Clips, ApiIsSound

LEMMA HashTells ==
    ASSUME ApiIsSound, NEW x \in H!Clips, NEW y \in H!Clips, hashContent(x) = hashContent(y)
    PROVE  x = y
<1>1. /\ x = Text(x.body) \/ x = Image(x.body, x.mime)
      /\ y = Text(y.body) \/ y = Image(y.body, y.mime)
  BY ClipsAreContents
<1> QED BY <1>1 DEF hashContent, Hash, Text, Image

LEMMA HashesAreSet == \A x : hashContent(x) # NoHash
  BY DEF hashContent, NoHash, Hash

\* What is on the clipboard, and what is written to it, are clips.
LEMMA ReadsAreClips ==
    /\ \A offer \in Offers : Read(Backend, offer) # {} /\ Read(Backend, offer) \subseteq H!Clips
    /\ \A m \in Messages : Decodable(m) => MsgToContent(m) \in H!Clips /\ MsgToContent(m) \in H!RemoteClips
<1>1. ASSUME NEW offer \in Offers PROVE Read(Backend, offer) # {} /\ Read(Backend, offer) \subseteq H!Clips
  <2>1. Read(Backend, offer) \subseteq Local
    BY LocalHas DEF Read
  <2> QED BY <2>1 DEF Read, Fetch, TextRead, H!Clips
<1>2. \A m \in Messages : Decodable(m) => MsgToContent(m) \in H!RemoteClips
  BY SameContents DEF H!RemoteClips
<1> QED BY <1>1, <1>2 DEF H!Clips

LEMMA EntersAdds ==
    ASSUME InputsInv, NEW x \in H!Clips, NEW via \in Sources, Enters(x, via)
    PROVE  /\ InputsInv' /\ Len(inputs') = Len(inputs) + 1
           /\ inputs'[Len(inputs) + 1] = Input(x, via)
           /\ \A i \in 1..Len(inputs) : inputs'[i] = inputs[i]
<1>1. Input(x, via) \in [clip : H!Clips, via : Sources]
  BY DEF Input
<1>2. inputs' = Append(inputs, Input(x, via))
  BY DEF Enters
<1> HIDE DEF Sources
<1> QED BY <1>1, <1>2 DEF InputsInv

LEMMA InputsGrow ==
    ASSUME InputsInv, [Next]_vars
    PROVE  /\ InputsInv' /\ Len(inputs') >= Len(inputs)
           /\ \A i \in 1..Len(inputs) : inputs'[i] = inputs[i]
<1>1. ASSUME NEW x \in H!Clips, NEW via \in Sources, Enters(x, via)
      PROVE  /\ InputsInv' /\ Len(inputs') >= Len(inputs)
             /\ \A i \in 1..Len(inputs) : inputs'[i] = inputs[i]
  <2>1. Len(inputs) \in Nat
    BY DEF InputsInv
  <2> QED BY <1>1, <2>1, EntersAdds
<1>2. ASSUME UNCHANGED inputs
      PROVE  /\ InputsInv' /\ Len(inputs') >= Len(inputs)
             /\ \A i \in 1..Len(inputs) : inputs'[i] = inputs[i]
  <2>1. Len(inputs) \in Nat
    BY DEF InputsInv
  <2> QED BY <1>2, <2>1 DEF InputsInv
<1>3. \/ UNCHANGED inputs
      \/ \E x \in H!Clips, via \in Sources : Enters(x, via)
  <2>1. ASSUME NEW offer \in Copies, UserCopy(offer)
        PROVE  \E x \in H!Clips, via \in Sources : Enters(x, via)
    <3>1. (CHOOSE c \in Read(Backend, offer) : TRUE) \in H!Clips
      BY ReadsAreClips DEF Offers
    <3> QED BY <2>1, <3>1 DEF UserCopy, Sources
  <2>2. ASSUME NEW m \in Messages, NEW via \in Sources, Decodable(m), Enters(MsgToContent(m), via)
        PROVE  \E x \in H!Clips, v \in Sources : Enters(x, v)
    BY <2>2, ReadsAreClips
  <2>3. ASSUME NEW q \in Peers, PeerPush(q)
        PROVE  UNCHANGED inputs \/ \E x \in H!Clips, v \in Sources : Enters(x, v)
    BY <2>2, <2>3 DEF PeerPush, PeerWrite, PeerWriteFails, PeerMark, NoInput, Sources
  <2>4. ASSUME NEW c \in Conns, NEW m \in Messages, ReadClip(c, m)
        PROVE  \E x \in H!Clips, v \in Sources : Enters(x, v)
    BY <2>2, <2>4, SameContents DEF ReadClip, H!ReadClip, Sources
  <2>5. ASSUME NEW x \in ApiClips, ApiSend(x)
        PROVE  \E y \in H!Clips, v \in Sources : Enters(y, v)
    BY <2>5 DEF ApiSend, H!Clips, Sources
  <2> QED BY <2>1, <2>3, <2>4, <2>5
          DEF Next, Watching, Snapshot, Tick, CheckList, CheckRead, CheckDecide, Watches, Report,
              Handshake, Serve, LocalWrite, Write, Mark, WriteFails, Sends, Send, Deliver, Link,
              Environment, NoInput, vars, history
<1> QED BY <1>1, <1>2, <1>3

LEMMA LogGrows ==
    ASSUME H!TypeOK, [H!Next]_H!vars
    PROVE  /\ Len(log') >= Len(log)
           /\ \A i \in 1..Len(log) : log'[i] = log[i]
<1>1. log \in Seq([clip : H!Clips, by : H!Threads]) /\ Len(log) \in Nat
  BY DEF H!TypeOK
<1>2. ASSUME NEW p \in H!Threads, H!Begin(p)
      PROVE  Len(log') >= Len(log) /\ \A i \in 1..Len(log) : log'[i] = log[i]
  <2>1. [clip |-> work[p], by |-> p] \in [clip : H!Clips, by : H!Threads]
    BY <1>2 DEF H!Begin, H!TypeOK, H!Busy
  <2> QED BY <1>1, <1>2, <2>1 DEF H!Begin
<1>3. UNCHANGED log \/ \E p \in H!Threads : H!Begin(p)
  BY DEF H!Next, H!Handshake, H!Accept, H!Refuse, H!Hello, H!HelloFails, H!ReadHook, H!HelloReply,
         H!Goto, H!Serve, H!ReadClip, H!ReadFails, H!Leave, H!Dedup, H!Apply, H!Send, H!DropBig,
         H!Write, H!Skip, H!Deliver, H!WriteFails, H!Finish, H!Input, H!Report, H!ApiSend,
         H!LocalStart, H!Link, H!registerPeer, H!unregisterPeer, H!Environment, H!Drop,
         H!traffic, H!vars
<1> QED BY <1>1, <1>2, <1>3

\* A goroutine about to broadcast keeps its clip until it does, or drops it.
LEMMA RelaysKeep ==
    ASSUME H!TypeOK, [H!Next]_H!vars, NEW p \in H!Threads, pc[p] = "relay"
    PROVE  \/ pc'[p] = "relay" /\ work'[p] = work[p]
           \/ H!Begin(p) \/ H!DropBig(p)
<1> USE DEF H!TypeOK
<1>1. ASSUME UNCHANGED work, NEW r \in H!Threads, pc[r] # "relay",
             NEW state, pc' = [pc EXCEPT ![r] = state]
      PROVE  pc'[p] = "relay" /\ work'[p] = work[p]
  BY <1>1
<1>2. ASSUME NEW r \in H!Threads, NEW x, pc[r] # "relay",
             work' = [work EXCEPT ![r] = x], NEW state, pc' = [pc EXCEPT ![r] = state]
      PROVE  pc'[p] = "relay" /\ work'[p] = work[p]
  BY <1>2
<1>3. ASSUME UNCHANGED <<pc, work>>
      PROVE  pc'[p] = "relay" /\ work'[p] = work[p]
  BY <1>3
<1>4. ASSUME NEW r \in H!Threads, r # p, H!Begin(r) \/ H!DropBig(r)
      PROVE  pc'[p] = "relay" /\ work'[p] = work[p]
  BY <1>4 DEF H!Begin, H!DropBig, H!Goto
<1>5. ASSUME NEW c \in Conns, H!Handshake(c) \/ H!Serve(c)
      PROVE  pc'[p] = "relay" /\ work'[p] = work[p]
  <2>1. c \in H!Threads
    BY DEF H!Threads
  <2>2. CASE H!Handshake(c)
    BY <1>1, <2>1, <2>2 DEF H!Handshake, H!Accept, H!Refuse, H!Hello, H!HelloFails, H!ReadHook,
                            H!HelloReply, H!Goto
  <2>3. CASE \E m \in Messages : H!ReadClip(c, m)
    BY <1>2, <2>1, <2>3 DEF H!ReadClip
  <2>4. CASE H!ReadFails(c) \/ H!Leave(c) \/ H!Dedup(c)
    BY <1>1, <2>1, <2>4 DEF H!ReadFails, H!Leave, H!Dedup, H!Goto
  <2>5. CASE H!Apply(c)
    BY <1>1, <2>1, <2>5 DEF H!Apply
  <2> QED BY <1>5, <2>2, <2>3, <2>4, <2>5 DEF H!Serve
<1>6. ASSUME NEW r \in H!Threads, H!Finish(r) \/ \E t \in H!Targets : H!Write(r, t)
      PROVE  pc'[p] = "relay" /\ work'[p] = work[p]
  <2>1. CASE H!Finish(r)
    BY <1>1, <2>1 DEF H!Finish
  <2>2. CASE \E t \in H!Targets : H!Write(r, t)
    BY <1>3, <2>2 DEF H!Write, H!Skip, H!Deliver, H!WriteFails, H!threads
  <2> QED BY <1>6, <2>1, <2>2
<1>7. ASSUME NEW r \in H!Locals, NEW x, H!LocalStart(r, x)
      PROVE  pc'[p] = "relay" /\ work'[p] = work[p]
  BY <1>2, <1>7 DEF H!LocalStart, H!Threads
<1> QED BY <1>3, <1>4, <1>5, <1>6, <1>7
        DEF H!Next, H!Send, H!Input, H!Report, H!ApiSend, H!Locals, H!Link, H!registerPeer,
            H!unregisterPeer, H!Environment, H!Drop, H!threads, H!vars

\* The watcher keeps what it is about to report until it does.
LEMMA FiresKeep ==
    ASSUME [Next]_vars, run = "fire"
    PROVE  (run' = "fire" /\ seen' = seen) \/ Report
<1>1. ASSUME NEW offer \in Copies, UserCopy(offer) PROVE run' = "fire" /\ seen' = seen
  BY <1>1 DEF UserCopy, W!UserCopy, W!thread
<1>2. ASSUME NEW c \in Conns, LocalWrite(c) PROVE run' = "fire" /\ seen' = seen
  BY <1>2 DEF LocalWrite, Write, Mark, WriteFails, W!WriteClip, W!WriteMark, W!WriteFails, W!thread
<1>3. ASSUME NEW q \in Peers, PeerPush(q) PROVE run' = "fire" /\ seen' = seen
  BY <1>3 DEF PeerPush, PeerWrite, PeerMark, PeerWriteFails, W!WriteClip, W!WriteMark, W!WriteFails, W!thread
<1>4. CASE Watching
  BY <1>4 DEF Watching, Snapshot, Tick, CheckList, CheckRead, CheckDecide, Watches,
              W!SnapshotList, W!Snapshot, W!Tick, W!CheckList, W!List, W!CheckRead,
              W!CheckDecide
<1>5. CASE UNCHANGED watcher
  BY <1>5 DEF watcher
<1> QED BY <1>1, <1>2, <1>3, <1>4, <1>5
        DEF Next, Handshake, ReadClip, Serve, Sends, Send, Deliver, ApiSend, Link, Environment,
            WatcherStays, vars

LEMMA SentStays ==
    ASSUME PartsInv, InputsInv, [Next]_vars, NEW h, Sent(h)
    PROVE  Sent(h)'
<1>1. H!TypeOK /\ [H!Next]_H!vars
  BY OneHub, HubSteps DEF PartsInv
<1>2. CASE Logged(h)
  <2>1. Logged(h)'
    <3>1. PICK i \in 1..Len(log) : hashContent(log[i].clip) = h
      BY <1>2 DEF Logged
    <3>2. i \in 1..Len(log') /\ log'[i] = log[i]
      BY <1>1, LogGrows DEF H!TypeOK
    <3> QED BY <3>1, <3>2 DEF Logged
  <2> QED BY <2>1 DEF Sent
<1>3. CASE Exempt(h)
  <2>1. Exempt(h)'
    <3>1. CASE \E i \in 1..Len(inputs) : inputs[i].via \in {"start", "peer"} /\ hashContent(Clip(i)) = h
      <4>1. PICK i \in 1..Len(inputs) : inputs[i].via \in {"start", "peer"} /\ hashContent(Clip(i)) = h
        BY <3>1
      <4>2. i \in 1..Len(inputs') /\ inputs'[i] = inputs[i]
        BY InputsGrow DEF InputsInv
      <4> QED BY <4>1, <4>2 DEF Exempt, Clip
    <3>2. CASE \E x \in Oversize : hashContent(x) = h
      BY <3>2 DEF Exempt
    <3> QED BY <1>3, <3>1, <3>2 DEF Exempt
  <2> QED BY <2>1 DEF Sent
<1>4. ASSUME NEW p \in H!Threads, pc[p] = "relay", hashContent(work[p]) = h
      PROVE  Sent(h)'
  <2>1. CASE pc'[p] = "relay" /\ work'[p] = work[p]
    BY <1>4, <2>1 DEF Sent, Ahead
  <2>2. CASE H!Begin(p)
    <3>1. [clip |-> work[p], by |-> p] \in [clip : H!Clips, by : H!Threads]
      BY <1>1, <1>4 DEF H!TypeOK, H!Busy
    <3>2. Len(log) + 1 \in 1..Len(log') /\ log'[Len(log) + 1].clip = work[p]
      BY <1>1, <2>2, <3>1 DEF H!TypeOK, H!Begin
    <3>3. Logged(h)'
      BY <1>4, <3>2 DEF Logged
    <3> QED BY <3>3 DEF Sent
  <2>3. CASE H!DropBig(p)
    BY <1>4, <2>3 DEF H!DropBig, H!TooBig, Sent, Exempt
  <2> QED BY <1>1, <1>4, <2>1, <2>2, <2>3, RelaysKeep
<1>5. CASE run = "fire" /\ hashContent(seen.content) = h
  <2>1. CASE run' = "fire" /\ seen' = seen
    BY <1>5, <2>1 DEF Sent, Ahead
  <2>2. CASE Report
    <3>1. Watch \in H!Threads /\ pc' = [pc EXCEPT ![Watch] = "relay"]
          /\ work' = [work EXCEPT ![Watch] = seen.content]
      BY <2>2 DEF Report, H!Report, H!LocalStart, H!Threads, H!Locals
    <3>2. pc'[Watch] = "relay" /\ work'[Watch] = seen.content
      BY <1>1, <3>1 DEF H!TypeOK
    <3> QED BY <1>5, <3>1, <3>2 DEF Sent, Ahead
  <2> QED BY <1>5, <2>1, <2>2, FiresKeep
<1> QED BY <1>2, <1>3, <1>4, <1>5 DEF Sent, Ahead

\* A goroutine in LocalWrite stays there until it has marked what it wrote.
LEMMA AppliesKeep ==
    ASSUME H!TypeOK, [Next]_vars, clipMu = "write", NEW c \in Conns, pc[c] = "apply"
    PROVE  (pc'[c] = "apply" /\ work'[c] = work[c]) \/ Mark(c)
<1> USE DEF H!TypeOK
<1>1. ASSUME UNCHANGED work, NEW r \in H!Threads, r # c \/ pc[r] # "apply",
             NEW state, pc' = [pc EXCEPT ![r] = state]
      PROVE  pc'[c] = "apply" /\ work'[c] = work[c]
  BY <1>1
<1>2. ASSUME NEW r \in H!Threads, NEW x, r # c \/ pc[r] # "apply",
             work' = [work EXCEPT ![r] = x], NEW state, pc' = [pc EXCEPT ![r] = state]
      PROVE  pc'[c] = "apply" /\ work'[c] = work[c]
  BY <1>2
<1>3. ASSUME UNCHANGED <<pc, work>>
      PROVE  pc'[c] = "apply" /\ work'[c] = work[c]
  BY <1>3
<1>4. ASSUME NEW d \in Conns, Handshake(d) \/ (\E m \in Messages : ReadClip(d, m)) \/ Serve(d)
      PROVE  pc'[c] = "apply" /\ work'[c] = work[c]
  <2>1. d \in H!Threads
    BY DEF H!Threads
  <2>2. CASE Handshake(d)
    BY <1>1, <2>1, <2>2 DEF Handshake, H!Handshake, H!Accept, H!Refuse, H!Hello, H!HelloFails,
                            H!ReadHook, H!HelloReply, H!Goto
  <2>3. CASE \E m \in Messages : ReadClip(d, m)
    BY <1>2, <2>1, <2>3 DEF ReadClip, H!ReadClip
  <2>4. CASE Serve(d)
    BY <1>1, <2>1, <2>4 DEF Serve, H!ReadFails, H!Leave, H!Dedup, H!Goto
  <2> QED BY <1>4, <2>2, <2>3, <2>4
<1>5. ASSUME NEW d \in Conns, LocalWrite(d), ~Mark(c)
      PROVE  pc'[c] = "apply" /\ work'[c] = work[c]
  <2>1. d \in H!Threads
    BY DEF H!Threads
  <2>2. CASE Write(d) \/ WriteFails(d)
    BY <2>2 DEF Write, WriteFails, W!WriteClip, W!WriteFails
  <2>3. CASE Mark(d) /\ d # c
    BY <1>1, <2>1, <2>3 DEF Mark, H!Apply
  <2> QED BY <1>5, <2>2, <2>3 DEF LocalWrite
<1>6. ASSUME NEW r \in H!Threads, Sends(r) PROVE pc'[c] = "apply" /\ work'[c] = work[c]
  <2>1. CASE \/ H!DropBig(r) \/ H!Begin(r) \/ H!Finish(r)
    BY <1>1, <2>1 DEF H!DropBig, H!Begin, H!Finish, H!Goto
  <2>2. CASE \E t \in H!Targets : H!Skip(r, t) \/ H!WriteFails(r, t) \/ H!Deliver(r, t)
    BY <1>3, <2>2 DEF H!Skip, H!Deliver, H!WriteFails, H!threads
  <2> QED BY <1>6, <2>1, <2>2 DEF Sends, Send, Deliver
<1>7. ASSUME NEW r \in H!Locals, NEW x, H!LocalStart(r, x)
      PROVE  pc'[c] = "apply" /\ work'[c] = work[c]
  BY <1>2, <1>7 DEF H!LocalStart, H!Threads
<1>8. CASE Report \/ \E x \in ApiClips : ApiSend(x)
  BY <1>7, <1>8 DEF Report, ApiSend, H!Report, H!ApiSend, H!Locals
<1>9. ASSUME Environment \/ \E q \in Peers : Link(q)
      PROVE  pc'[c] = "apply" /\ work'[c] = work[c]
  BY <1>3, <1>9 DEF Link, Environment, H!Link, H!registerPeer, H!unregisterPeer, H!Environment,
                    H!Drop, H!threads
<1>10. CASE UNCHANGED hub
  BY <1>3, <1>10 DEF hub
<1> QED BY <1>4, <1>5, <1>6, <1>8, <1>9, <1>10
        DEF Next, UserCopy, Watching, Snapshot, Tick, CheckList, CheckRead, CheckDecide, Watches,
            PeerPush, PeerWrite, PeerMark, PeerWriteFails, HubStays, vars

LEMMA WriteStep == PartsInv /\ InputsInv /\ WriteInv /\ [Next]_vars => WriteInv'
<1> SUFFICES ASSUME PartsInv, InputsInv, WriteInv, [Next]_vars PROVE WriteInv'
  OBVIOUS
<1>0. H!TypeOK /\ HandledInv /\ [W!Next]_W!vars
  BY OneHub, WatcherSteps DEF PartsInv
<1>1. (run \in {"first", "read", "decide"} => clipMu = "watch")'
  BY <1>0 DEF WriteInv, W!Next, W!UserCopy, W!SetClipboard, W!Forward, W!NotifierDies,
              W!LocalWrite, W!WriteClip, W!WriteFails, W!WriteMark, W!Run, W!SnapshotList,
              W!List, W!Snapshot, W!Tick, W!TakeSignal, W!SettleMore, W!SettleDone, W!CheckList,
              W!CheckRead, W!CheckDecide, W!OnChange, W!Stop, W!Cancel, W!thread,
              W!vars
<1>2. SUFFICES ASSUME clipMu' = "write"
               PROVE  /\ pending' \in H!RemoteClips /\ CanWrite(Backend, pending')
                      /\ IF writer' \in Conns THEN pc'[writer'] = "apply" /\ work'[writer'] = pending'
                         ELSE \E i \in 1..Len(inputs') :
                                inputs'[i].via = "peer" /\ inputs'[i].clip = pending'
  BY <1>1 DEF WriteInv, Clip
<1>3. ASSUME NEW c \in Conns, Write(c)
      PROVE  /\ pending' = work[c] /\ CanWrite(Backend, work[c]) /\ work[c] \in H!RemoteClips
             /\ writer' = c /\ pc'[c] = "apply" /\ work'[c] = work[c]
  BY <1>0, <1>3 DEF Write, W!WriteClip, HandledInv, H!Busy, HubStays, hub, W!CanWrite, CanWrite
<1>4. ASSUME NEW q \in Peers, NEW m \in Messages, PeerWrite(q, m)
      PROVE  /\ pending' \in H!RemoteClips /\ CanWrite(Backend, pending') /\ writer' \notin Conns
             /\ \E i \in 1..Len(inputs') : inputs'[i].via = "peer" /\ inputs'[i].clip = pending'
  <2>1. /\ MsgToContent(m) \in H!Clips /\ MsgToContent(m) \in H!RemoteClips
        /\ pending' = MsgToContent(m) /\ CanWrite(Backend, pending') /\ writer' = q
    BY <1>4, ReadsAreClips DEF PeerWrite, W!WriteClip, W!CanWrite, CanWrite
  <2>2. "peer" \in Sources /\ Enters(MsgToContent(m), "peer")
    BY <1>4 DEF PeerWrite, Sources
  <2>3. /\ Len(inputs') = Len(inputs) + 1
        /\ inputs'[Len(inputs) + 1] = Input(MsgToContent(m), "peer")
    BY <2>1, <2>2, EntersAdds
  <2>4. Len(inputs) \in Nat
    BY DEF InputsInv
  <2>5. writer' \notin Conns
    BY <2>1, DaemonAssumption DEF DaemonAssumption
  <2> QED BY <2>1, <2>3, <2>4, <2>5 DEF Input
<1>5. CASE clipMu # "write"
  <2>1. \/ \E c \in Conns : Write(c)
        \/ \E q \in Peers, m \in Messages : PeerWrite(q, m)
    BY <1>2, <1>5
    DEF Next, UserCopy, W!UserCopy, Watching, Snapshot, W!SnapshotList, W!List, W!Snapshot, Tick,
        W!Tick, CheckList, W!CheckList, CheckRead, W!CheckRead, CheckDecide,
        W!CheckDecide, Report, W!OnChange, Watches, Handshake, ReadClip, Serve, LocalWrite, Mark,
        W!WriteMark, WriteFails, W!WriteFails, PeerPush, PeerMark, PeerWriteFails, Sends, Send,
        Deliver, ApiSend, Link, Environment, WatcherStays, watcher, vars
  <2> QED BY <1>3, <1>4, <2>1
<1>6. CASE clipMu = "write"
  <2>1. UNCHANGED <<pending, writer>>
    BY <1>2, <1>6
    DEF Next, UserCopy, W!UserCopy, W!writer, Watching, Snapshot, W!SnapshotList, W!List,
        W!Snapshot, Tick, W!Tick, CheckList, W!CheckList, CheckRead, W!CheckRead,
        CheckDecide, W!CheckDecide, Report, W!OnChange, Watches, Handshake, ReadClip, Serve,
        LocalWrite, Write, W!WriteClip, Mark, W!WriteMark, WriteFails, W!WriteFails, PeerPush,
        PeerWrite, PeerMark, PeerWriteFails, Sends, Send, Deliver, ApiSend, Link, Environment,
        WatcherStays, watcher, vars
  <2>2. CASE writer \in Conns
    <3>1. ~Mark(writer)
      BY <1>2 DEF Mark, W!WriteMark
    <3> QED BY <1>0, <1>6, <2>1, <2>2, <3>1, AppliesKeep DEF WriteInv
  <2>3. CASE writer \notin Conns
    <3>1. PICK i \in 1..Len(inputs) : inputs[i].via = "peer" /\ inputs[i].clip = pending
      BY <1>6, <2>3 DEF WriteInv, Clip
    <3>2. i \in 1..Len(inputs') /\ inputs'[i] = inputs[i]
      BY InputsGrow DEF InputsInv
    <3> QED BY <1>6, <2>1, <2>3, <3>1, <3>2 DEF WriteInv
  <2> QED BY <2>2, <2>3
<1> QED BY <1>5, <1>6

LEMMA OwnStep ==
    ASSUME WP!RemoteIsShown, PartsInv, InputsInv, WriteInv, OwnInv, [Next]_vars
    PROVE  OwnInv'
<1>1. ASSUME NEW offer \in Copies, UserCopy(offer) PROVE OwnInv'
  <2>1. /\ clipboard' = offer /\ owner' = "user" /\ UNCHANGED run
        /\ Enters(CHOOSE c \in Read(Backend, offer) : TRUE, IF run \in {"init", "first"} THEN "start" ELSE "user")
    BY <1>1 DEF UserCopy, W!UserCopy, W!SetClipboard, W!thread
  <2>2. (CHOOSE c \in Read(Backend, offer) : TRUE) \in H!Clips
    BY ReadsAreClips DEF Offers
  <2>3. CASE run \in {"init", "first"}
    <3>1. /\ Len(inputs') = Len(inputs) + 1
          /\ inputs'[Len(inputs) + 1] = Input(CHOOSE c \in Read(Backend, offer) : TRUE, "start")
      <4>1. "start" \in Sources /\ Enters(CHOOSE c \in Read(Backend, offer) : TRUE, "start")
        BY <2>1, <2>3 DEF Sources
      <4> QED BY <2>2, <4>1, EntersAdds
    <3>2. Len(inputs) \in Nat
      BY DEF InputsInv
    <3>3. Len(inputs) + 1 \in 1..Len(inputs')
      BY <3>1, <3>2
    <3> QED BY <2>1, <3>1, <3>3 DEF OwnInv, Clip, Shown, Input
  <2>4. CASE run \notin {"init", "first"}
    BY <2>1, <2>4 DEF OwnInv
  <2> QED BY <2>3, <2>4
<1>2. ASSUME NEW x \in H!RemoteClips, W!WriteClip(x) PROVE OwnInv'
  BY <1>2, SameContents DEF W!WriteClip, W!SetClipboard, W!thread, OwnInv, WriteInv
<1>3. ASSUME UNCHANGED <<clipboard, owner>>,
             (\E i \in 1..Len(inputs) : inputs[i].via = "start" /\ Clip(i) = Shown) =>
                 (\E i \in 1..Len(inputs) : inputs[i].via = "start" /\ Clip(i) = Shown)',
             run' \in {"init", "first"} => run \in {"init", "first"},
             run' \in {"first", "read"} => \/ run' = run /\ listed' = listed
                                           \/ listed' = Listed(Backend, clipboard),
             \/ clipMu = "write" /\ clipMu' = "write" /\ UNCHANGED pending
             \/ clipMu # "write" /\ clipMu' # "write" /\ UNCHANGED skipHash
      PROVE  OwnInv'
  BY <1>3 DEF OwnInv
<1>4. UNCHANGED <<clipboard, owner>> =>
        ((\E i \in 1..Len(inputs) : inputs[i].via = "start" /\ Clip(i) = Shown) =>
            (\E i \in 1..Len(inputs) : inputs[i].via = "start" /\ Clip(i) = Shown)')
  <2> SUFFICES ASSUME UNCHANGED <<clipboard, owner>>,
                      NEW i \in 1..Len(inputs), inputs[i].via = "start", Clip(i) = Shown
               PROVE  (\E j \in 1..Len(inputs) : inputs[j].via = "start" /\ Clip(j) = Shown)'
    OBVIOUS
  <2>1. i \in 1..Len(inputs') /\ inputs'[i] = inputs[i]
    BY InputsGrow DEF InputsInv
  <2> QED BY <2>1 DEF Clip, Shown
<1>5. CASE W!WriteMark
  <2>1. /\ pending \in H!RemoteClips /\ CanWrite(Backend, pending) /\ clipMu = "write"
        /\ run \notin {"first", "read", "decide"}
    BY <1>5 DEF W!WriteMark, WriteInv
  <2>2. Read(Backend, Written(pending)) = {pending}
    BY <2>1, WrittenReadsBack
  <2>3. /\ skipHash' = hashContent(pending) /\ UNCHANGED <<clipboard, owner, run>>
    BY <1>5, SameContents DEF W!WriteMark, W!desktop, W!thread
  <2>4. owner # "user" => clipboard = Written(pending)
    BY <2>1 DEF OwnInv
  <2>5. (owner # "user" /\ clipMu # "write" =>
          \E c \in Read(Backend, clipboard) : Read(Backend, clipboard) = {c} /\ hashContent(c) = skipHash)'
    <3>1. owner # "user" => \E c \in Read(Backend, clipboard) :
             Read(Backend, clipboard) = {c} /\ hashContent(c) = skipHash'
      BY <2>2, <2>3, <2>4
    <3> QED BY <2>3, <3>1
  <2> QED BY <1>4, <1>5, <2>1, <2>3, <2>5 DEF W!WriteMark, OwnInv
<1>6. CASE W!WriteFails \/ W!Run \/ UNCHANGED W!vars
  <2> USE DEF W!desktop, W!thread, W!writer, W!hashes
  <2>1. CASE W!SnapshotList \/ W!CheckList
    BY <1>3, <1>4, <2>1, SameContents DEF W!SnapshotList, W!CheckList, W!List, WriteInv
  <2>2. CASE W!Snapshot \/ W!CheckRead \/ W!CheckDecide
    BY <1>3, <1>4, <2>2 DEF W!Snapshot, W!CheckRead, W!CheckDecide, WriteInv
  <2>3. CASE UNCHANGED <<clipboard, owner, clipMu, pending, skipHash>> /\ run' \notin {"init", "first", "read"}
    BY <1>3, <1>4, <2>3
  <2>4. CASE UNCHANGED <<clipboard, owner, clipMu, pending, skipHash, run, listed>>
    BY <1>3, <1>4, <2>4
  <2> QED BY <1>6, <2>1, <2>2, <2>3, <2>4
          DEF W!WriteFails, W!Run, W!Tick, W!TakeSignal, W!SettleMore, W!SettleDone, W!OnChange,
              W!Stop, W!vars
<1> QED BY <1>1, <1>2, <1>5, <1>6, WatcherMoves DEF PartsInv

\* A first snapshot reads what was there at the start or was written since, or
\* else nothing that anybody copies.
LEMMA SnapshotKnows ==
    ASSUME ApiIsSound, CopiesAreTold, ReadInv, WriteInv, OwnInv, KnownInv,
           run = "first", NEW c \in W!Fetched
    PROVE  Sent(hashContent(c)) \/ Unseen(hashContent(c))
<1>1. PICK before \in Offers : listed = Listed(Backend, before)
  BY DEF ReadInv
<1>2. \/ c \in Fetch(Backend, Listed(Backend, before), clipboard)
      \/ ToolsFail /\ c \in Misread(Backend, clipboard)
  BY <1>1, SameContents DEF W!Fetched, W!Misreadable
<1>3. /\ clipboard \in Offers
      /\ c \in H!Clips
      /\ \A offer \in Copies : \A d \in Read(Backend, offer) : d \in H!Clips
  <2>1. clipboard \in Offers
    BY DEF ReadInv
  <2>2. c \in Local
    BY <1>2, <2>1, LocalHas
  <2> QED BY <2>1, <2>2, ReadsAreClips DEF H!Clips, Offers
<1>5. CASE owner = "user"
  <2>0. clipboard \in Copies
    BY <1>5 DEF OwnInv
  <2>1. SUFFICES ASSUME NEW other \in Copies, NEW d \in Read(Backend, other),
                        hashContent(d) = hashContent(c)
                 PROVE  Exempt(hashContent(c))
    BY DEF Unseen, Sent
  <2>2. d \in H!Clips
    BY <1>3
  <2>3. c = d
    BY <1>3, <2>1, <2>2, HashTells
  <2>4. c \in Read(Backend, clipboard)
    BY <1>2, <1>3, <2>0, <2>1, <2>3 DEF CopiesAreTold
  <2>5. c = Shown
    BY <2>0, <2>4 DEF CopiesAreTold, Shown
  <2>6. \E i \in 1..Len(inputs) : inputs[i].via = "start" /\ Clip(i) = Shown
    BY <1>5 DEF OwnInv
  <2> QED BY <2>5, <2>6 DEF Exempt
<1>6. CASE c \in Fetch(Backend, Listed(Backend, before), clipboard) /\ owner # "user"
  <2>1. clipMu # "write" /\ listed = Listed(Backend, clipboard)
    BY <1>6 DEF WriteInv, OwnInv
  <2>2. c \in Read(Backend, clipboard)
    BY <1>1, <1>6, <2>1 DEF Read
  <2>3. hashContent(c) = skipHash
    BY <1>6, <2>1, <2>2 DEF OwnInv
  <2> QED BY <2>3, HashesAreSet DEF KnownInv
<1>7. CASE ToolsFail /\ c \in Misread(Backend, clipboard) /\ owner # "user"
  <2>1. SUFFICES ASSUME NEW other \in Copies, NEW d \in Read(Backend, other),
                        hashContent(d) = hashContent(c)
                 PROVE  Sent(hashContent(c))
    BY DEF Unseen
  <2>2. d \in H!Clips /\ c = d
    BY <1>3, <2>1, HashTells
  <2>3. c \in Read(Backend, clipboard)
    BY <1>3, <1>7, <2>1, <2>2 DEF CopiesAreTold
  <2>4. hashContent(c) = skipHash
    BY <1>7, <2>3 DEF WriteInv, OwnInv
  <2> QED BY <2>4, HashesAreSet DEF KnownInv
<1> QED BY <1>2, <1>5, <1>6, <1>7

LEMMA KnownStep ==
    ASSUME ApiIsSound, CopiesAreTold, PartsInv, SentInv, [Next]_vars
    PROVE  KnownInv'
<1> USE DEF SentInv
<1>1. ASSUME NEW h, NEW s, lastHash' = h, skipHash' = s, Sent(h)' \/ Unseen(h), Sent(s)' \/ s = NoHash
      PROVE  KnownInv'
  <2>1. Sent(lastHash)' \/ Unseen(lastHash)'
    BY <1>1 DEF Sent, Logged, Ahead, Exempt, Unseen
  <2>2. Sent(skipHash)' \/ skipHash' = NoHash
    BY <1>1 DEF Sent, Logged, Ahead, Exempt
  <2> QED BY <2>1, <2>2 DEF KnownInv
<1>2. PICK last, skip : last = lastHash /\ skip = skipHash
  OBVIOUS
<1>3. Sent(last)' \/ Unseen(last)
  <2>1. Sent(last) \/ Unseen(last)
    BY <1>2 DEF KnownInv
  <2> QED BY <2>1, SentStays
<1>4. Sent(skip)' \/ skip = NoHash
  <2>1. Sent(skip) \/ skip = NoHash
    BY <1>2 DEF KnownInv
  <2> QED BY <2>1, SentStays
<1>5. CASE UNCHANGED <<lastHash, skipHash>>
  BY <1>1, <1>2, <1>3, <1>4, <1>5
<1>6. CASE W!Snapshot
  <2>1. run = "first" /\ skipHash' = skip
    BY <1>2, <1>6 DEF W!Snapshot
  <2>2. PICK c \in W!Fetched : lastHash' = W!hashContent(c)
    BY <1>6 DEF W!Snapshot
  <2>3. PICK h : h = hashContent(c)
    OBVIOUS
  <2>4. Sent(h) \/ Unseen(h)
    BY <2>1, <2>3, SnapshotKnows DEF PartsInv
  <2>5. Sent(h)' \/ Unseen(h)
    BY <2>4, SentStays
  <2>6. lastHash' = h
    BY <2>2, <2>3, SameContents
  <2> QED BY <1>1, <1>4, <2>1, <2>5, <2>6
<1>7. CASE W!CheckDecide
  <2>1. PICK h : h = hashContent(seen.content)
    OBVIOUS
  <2>2. lastHash' = h /\ skipHash' = skip /\ seen' = seen
    BY <1>2, <1>7, <2>1, SameContents DEF W!CheckDecide
  <2>3. CASE h # last /\ h # skip
    <3>1. run' = "fire" /\ hashContent(seen'.content) = h
      BY <1>2, <1>7, <2>1, <2>2, <2>3, SameContents DEF W!CheckDecide, W!Fires
    <3>2. Sent(h)'
      BY <3>1 DEF Sent, Ahead
    <3> QED BY <1>1, <1>4, <2>2, <3>2
  <2>4. CASE h = last
    BY <1>1, <1>3, <1>4, <2>2, <2>4
  <2>5. CASE h = skip
    <3>1. h # NoHash
      BY <2>1, HashesAreSet
    <3> QED BY <1>1, <1>4, <2>2, <2>5, <3>1
  <2> QED BY <2>3, <2>4, <2>5
<1>8. CASE W!WriteMark
  <2>1. PICK h : h = hashContent(pending)
    OBVIOUS
  <2>2. lastHash' = h /\ skipHash' = h /\ clipMu = "write"
    BY <1>8, <2>1, SameContents DEF W!WriteMark
  <2>3. CASE writer \in Conns
    <3>1. pc[writer] = "apply" /\ work[writer] = pending
      BY <2>2, <2>3 DEF WriteInv
    <3>2. Mark(writer)
      <4>1. (\E c \in Conns : Mark(c)) \/ (\E q \in Peers : PeerMark(q))
        BY <1>8, <2>2
        DEF Next, UserCopy, W!UserCopy, Watching, Snapshot, W!SnapshotList, W!List, W!Snapshot,
            Tick, W!Tick, CheckList, W!CheckList, CheckRead, W!CheckRead, CheckDecide,
            W!CheckDecide, Report, W!OnChange, Watches, Handshake, ReadClip, Serve, LocalWrite,
            Write, W!WriteClip, WriteFails, W!WriteFails, PeerPush, PeerWrite, PeerWriteFails,
            Sends, Send, Deliver, ApiSend, Link, Environment, WatcherStays, watcher, vars,
            W!WriteMark, WriteInv
      <4>2. \A q \in Peers : q \notin Conns
        BY DaemonAssumption DEF DaemonAssumption
      <4> QED BY <2>3, <4>1, <4>2 DEF Mark, PeerMark
    <3>3. writer \in H!Threads /\ H!TypeOK
      BY <2>3, OneHub DEF H!Threads, PartsInv
    <3>4. pc'[writer] = "relay" /\ work'[writer] = pending
      BY <3>1, <3>2, <3>3 DEF Mark, H!Apply, H!TypeOK
    <3>5. Sent(h)'
      BY <2>1, <3>3, <3>4 DEF Sent, Ahead
    <3> QED BY <1>1, <2>2, <3>5
  <2>4. CASE writer \notin Conns
    <3>1. Sent(h)
      BY <2>1, <2>2, <2>4 DEF WriteInv, Sent, Exempt
    <3>2. Sent(h)'
      BY <3>1, SentStays
    <3> QED BY <1>1, <2>2, <3>2
  <2> QED BY <2>3, <2>4
<1> QED
  <2>1. CASE \E offer \in Copies : UserCopy(offer)
    BY <1>5, <2>1 DEF UserCopy, W!UserCopy, W!hashes
  <2>2. CASE \E x \in H!RemoteClips : W!WriteClip(x)
    BY <1>5, <2>2 DEF W!WriteClip, W!hashes
  <2>3. CASE W!WriteFails \/ W!Run
    BY <1>5, <1>6, <1>7, <2>3
    DEF W!WriteFails, W!Run, W!SnapshotList, W!List, W!Tick, W!TakeSignal, W!SettleMore,
        W!SettleDone, W!CheckList, W!CheckRead, W!OnChange, W!Stop, W!hashes
  <2>4. CASE UNCHANGED W!vars
    BY <1>5, <2>4 DEF W!vars, W!hashes
  <2> QED BY <1>8, <2>1, <2>2, <2>3, <2>4, WatcherMoves DEF PartsInv

LEMMA SentInit == Init => SentInv
<1> SUFFICES ASSUME Init PROVE SentInv
  OBVIOUS
<1>1. /\ clipboard \in Copies /\ owner = "user" /\ clipMu = "free" /\ run = "init"
      /\ lastHash = NoHash /\ skipHash = NoHash /\ inputs = <<Input(Shown, "start")>>
  BY SameContents DEF Init, W!Init
<1>2. Shown \in H!Clips
  BY <1>1, ReadsAreClips DEF Shown, Offers
<1>3. InputsInv
  <2>1. Input(Shown, "start") \in [clip : H!Clips, via : Sources]
    BY <1>2 DEF Input, Sources
  <2> HIDE DEF Sources
  <2> QED BY <1>1, <2>1 DEF InputsInv
<1>4. OwnInv
  <2>1. Len(inputs) = 1 /\ inputs[1].via = "start" /\ inputs[1].clip = Shown
    BY <1>1 DEF Input
  <2> QED BY <1>1, <2>1 DEF OwnInv, Clip
<1>5. KnownInv
  BY <1>1, HashesAreSet DEF KnownInv, Unseen
<1> QED BY <1>1, <1>3, <1>4, <1>5 DEF SentInv, WriteInv

LEMMA ElementsAreIn == ASSUME NEW S, NEW s \in Seq(S), NEW i \in 1..Len(s) PROVE s[i] \in S
  OBVIOUS

\* What is on a settled desktop was sent, by its hash.
LEMMA ShownIsSent ==
    ASSUME CopiesAreTold, PartsInv, SentInv, Settled
    PROVE  Shown \in H!Clips /\ (Logged(hashContent(Shown)) \/ Exempt(hashContent(Shown)))
<1> USE DEF SentInv
<1>1. run = "select" /\ clipMu = "free" /\ lastHash = hashContent(Shown)
  BY DEF Settled
<1>2. Shown \in Read(Backend, clipboard) /\ Shown \in H!Clips
  BY ReadsAreClips DEF PartsInv, ReadInv, Shown
<1>3. Sent(hashContent(Shown))
  <2>1. CASE owner = "user"
    <3>1. ~Unseen(lastHash)
      BY <1>1, <1>2, <2>1 DEF OwnInv, Unseen
    <3> QED BY <1>1, <3>1 DEF KnownInv
  <2>2. CASE owner # "user"
    <3>1. hashContent(Shown) = skipHash
      BY <1>1, <1>2, <2>2 DEF OwnInv
    <3> QED BY <3>1, HashesAreSet DEF KnownInv
  <2> QED BY <2>1, <2>2
<1>4. ~Ahead(hashContent(Shown))
  BY <1>1 DEF Settled, H!Busy, Ahead
<1> QED BY <1>2, <1>3, <1>4 DEF Sent

\* What a settled daemon shows was broadcast, unless it was there at the
\* start, came from a peer or is too big, if delivered clips can be shown and
\* no copy is mistaken for another (watch.go:133-148, handlers.go:131-145).
\* However many clients, peers and clips there are: the hash that the watcher
\* compares with, and the one it skips, were broadcast or are about to be.
THEOREM NothingGoesUnsent ==
    ASSUME WP!RemoteIsShown, ApiIsSound, CopiesAreTold
    PROVE  Spec => []NothingUnsent
<1>1. Init => SentInv
  BY SentInit
<1>2. PartsInv /\ SentInv /\ [Next]_vars => SentInv'
  BY InputsGrow, WriteStep, OwnStep, KnownStep DEF SentInv
<1>3. PartsInv /\ SentInv => NothingUnsent
  <2> SUFFICES ASSUME PartsInv, SentInv, Settled,
                      ~\E i \in 1..Len(inputs) : Clip(i) = Shown /\ inputs[i].via \in {"start", "peer"},
                      Shown \notin Oversize
               PROVE  \E i \in 1..Len(log) : log[i].clip = Shown
    BY DEF NothingUnsent
  <2>1. Shown \in H!Clips /\ (Logged(hashContent(Shown)) \/ Exempt(hashContent(Shown)))
    BY ShownIsSent
  <2>2. \A x \in H!Clips : hashContent(x) = hashContent(Shown) => x = Shown
    BY <2>1, HashTells
  <2>3. \A i \in 1..Len(inputs) : Clip(i) \in H!Clips
    <3>1. inputs \in Seq([clip : H!Clips, via : Sources])
      BY DEF SentInv, InputsInv
    <3>2. \A i \in 1..Len(inputs) : inputs[i] \in [clip : H!Clips, via : Sources]
      BY <3>1, ElementsAreIn
    <3> QED BY <3>2 DEF Clip
  <2>4. ~Exempt(hashContent(Shown))
    BY <2>2, <2>3, DaemonAssumption DEF Exempt, DaemonAssumption
  <2>5. PICK i \in 1..Len(log) : hashContent(log[i].clip) = hashContent(Shown)
    BY <2>1, <2>4 DEF Logged
  <2>6. log[i].clip \in H!Clips
    <3>1. log \in Seq([clip : H!Clips, by : H!Threads])
      BY OneHub DEF PartsInv, H!TypeOK
    <3>2. log[i] \in [clip : H!Clips, by : H!Threads]
      BY <3>1, ElementsAreIn
    <3> QED BY <3>2
  <2> QED BY <2>2, <2>5, <2>6
<1> QED BY <1>1, <1>2, <1>3, PartsHold, PTL DEF Spec

----------------------------------------------------------------------------
(* Clips that come one at a time *)

\* A sound read of what the user copied tells what it is, and all were sound.
CopiesReadAsOne == \A offer \in Copies : \E c : Read(Backend, offer) = {c}
Sure == sound /\ CopiesReadAsOne

Newest == inputs[Len(inputs)]
Quiet == \A p \in H!Threads : ~H!Busy(p)
Waits(c) == pc[c] \in {"dedup", "apply"}

\* The newest clip, copied by the user, has yet to be reported.
Unreported ==
    /\ Newest.via \in {"start", "user"} /\ Shown = Newest.clip
    /\ lastHash # hashContent(Shown) /\ skipHash # hashContent(Shown)
    /\ Quiet /\ run # "fire" /\ clipMu # "write"

\* The newest clip has yet to be written; those that the desktop has shown.
Landing == clipMu # "write" /\ \E c \in Conns : Waits(c)
Landed == {i \in 1..Len(inputs) :
             inputs[i].via # "api" /\ Clip(i) \notin unwritten /\ (Landing => i < Len(inputs))}

\* The newest clip is on its way to a client; it goes to all; those a client gets.
OnTheWay(c) ==
    \/ Unreported \/ run = "fire"
    \/ \E p \in H!Threads : p # c /\ pc[p] \in {"dedup", "apply", "relay"}
    \/ c \in todo /\ \E p \in H!Threads : pc[p] = "send"
Spread == Newest.via # "peer" /\ (Newest.via = "client" => Newest.clip \notin Oversize)
MeantTo(c) == {i \in 1..Len(inputs) : MeantFor(i, c)}

\* A hash is of one of the first n clips and of one that came by these ways.
Came(h, ways, n) ==
    h = NoHash \/ \E i \in 1..n : inputs[i].via \in ways /\ hashContent(Clip(i)) = h

DistinctInv ==
    /\ Len(inputs) >= 1
    /\ \A i, j \in 1..Len(inputs) : Clip(i) = Clip(j) => i = j
    /\ \A x \in unwritten : \E i \in 1..Len(inputs) : Clip(i) = x

\* One connection at a time has a clip to write, and it is the newest, as is
\* the one that was written and not marked.
HandsInv ==
    /\ \A c \in Conns : Waits(c) =>
         work[c] = Newest.clip /\ Newest.via = "client" /\ Newest.clip \notin unwritten
    /\ \A c, d \in Conns : Waits(c) /\ Waits(d) => c = d
    /\ clipMu = "write" =>
         Newest.clip = pending /\ clipboard = Written(pending) /\ Newest.via \in {"client", "peer"}

DesktopInv == \E i \in Landed : Shown = Clip(i) /\ \A j \in Landed : j <= i

\* No hash is mistaken for that of a clip that comes later.
EchoInv ==
    /\ Came(lastBroadcast, {"client"},
            IF \E c \in Conns : pc[c] = "dedup" THEN Len(inputs) - 1 ELSE Len(inputs))
    /\ \A c \in Conns : Came(lastIn[c], {"client"}, Len(inputs))
    /\ Came(skipHash, {"client", "peer"}, Len(inputs))

NewInv ==
    /\ shows \in [Conns -> H!Keys]
    /\ \A c \in Conns : pc[c] = "new" => shows[c] = NoHash /\ c \notin clients \cup todo

\* While the reads are sound, no goroutine handles any but the newest clip, and
\* one does, ...
BusyInv ==
    /\ \A p \in H!Threads : H!Busy(p) =>
         /\ work[p] = Newest.clip
         /\ p \in Conns => Newest.via = "client" /\ shows[p] = hashContent(Newest.clip)
         /\ p = Watch => Newest.via \in {"start", "user"}
         /\ p = Api => Newest.via = "api"
    /\ \A p, r \in H!Threads : H!Busy(p) /\ H!Busy(r) => p = r

\* ... the watcher has compared what is on the clipboard unless it is the
\* newest clip, ...
WatchInv ==
    /\ run \in {"init", "first"} => Unreported /\ \A c \in Conns : shows[c] = NoHash
    /\ run = "decide" => seen.content = Shown
    /\ run = "fire" => seen.content = Newest.clip /\ Newest.via \in {"start", "user"} /\ Quiet
    /\ clipMu # "write" => lastHash = hashContent(Shown) \/ Unreported

\* ... and a client shows the newest clip meant for it, or is about to.
ClientsInv ==
    \A c \in clients : up[c] /\ shows[c] # NoHash =>
        \/ Spread /\ OnTheWay(c)
        \/ \E i \in MeantTo(c) : shows[c] = hashContent(Clip(i)) /\ \A j \in MeantTo(c) : j <= i

Told == BusyInv /\ WatchInv /\ ClientsInv
Calm == DistinctInv /\ HandsInv /\ DesktopInv /\ EchoInv /\ NewInv /\ (Sure => Told)
OneInv == PartsInv /\ InputsInv /\ WriteInv /\ OwnInv

LEMMA EntersCalm ==
    ASSUME InputsInv, NEW x \in H!Clips, NEW via \in Sources, Enters(x, via), calm'
    PROVE  /\ calm /\ Settled /\ Quiet
           /\ Len(inputs) \in Nat /\ Len(inputs') = Len(inputs) + 1
           /\ Newest' = Input(x, via) /\ inputs'[Len(inputs) + 1] = Input(x, via)
           /\ \A i \in 1..Len(inputs) : inputs'[i] = inputs[i] /\ inputs[i].clip # x
<1>1. Len(inputs) \in Nat
  BY DEF InputsInv
<1>2. /\ Len(inputs') = Len(inputs) + 1 /\ inputs'[Len(inputs) + 1] = Input(x, via)
      /\ \A i \in 1..Len(inputs) : inputs'[i] = inputs[i]
  BY EntersAdds
<1>3. calm /\ Settled /\ \A i \in 1..Len(inputs) : inputs[i].clip # x
  BY DEF Enters
<1> QED BY <1>1, <1>2, <1>3 DEF Newest, Settled, Quiet

\* A clip that enters, by whichever way.
Entering(x, via) ==
    \/ \E offer \in Copies : UserCopy(offer) /\ x = (CHOOSE c \in Read(Backend, offer) : TRUE)
                                /\ via = IF run \in {"init", "first"} THEN "start" ELSE "user"
    \/ \E m \in Messages : x = MsgToContent(m) /\ Decodable(m) /\
         \/ via = "client" /\ \E c \in Conns : ReadClip(c, m)
         \/ via = "peer" /\ \E q \in Peers : PeerWrite(q, m) \/ PeerWriteFails(q, m)
    \/ x \in ApiClips /\ via = "api" /\ ApiSend(x)

LEMMA Enterings ==
    ASSUME [Next]_vars
    PROVE  \/ UNCHANGED <<inputs, calm>>
           \/ \E x \in H!Clips, via \in Sources : Entering(x, via)
<1>1. ASSUME NEW offer \in Copies, UserCopy(offer)
      PROVE  \E x \in H!Clips, via \in Sources : Entering(x, via)
  <2>1. (CHOOSE c \in Read(Backend, offer) : TRUE) \in H!Clips
    BY ReadsAreClips DEF Offers
  <2> QED BY <1>1, <2>1 DEF Entering, Sources
<1>2. ASSUME NEW c \in Conns, NEW m \in Messages, ReadClip(c, m)
      PROVE  \E x \in H!Clips, via \in Sources : Entering(x, via)
  <2>1. Decodable(m)
    BY <1>2, SameContents DEF ReadClip, H!ReadClip
  <2> QED BY <1>2, <2>1, ReadsAreClips DEF Entering, Sources
<1>3. ASSUME NEW q \in Peers, NEW m \in Messages, PeerWrite(q, m) \/ PeerWriteFails(q, m)
      PROVE  \E x \in H!Clips, via \in Sources : Entering(x, via)
  BY <1>3, ReadsAreClips DEF Entering, Sources, PeerWrite, PeerWriteFails
<1>4. ASSUME NEW x \in ApiClips, ApiSend(x)
      PROVE  \E y \in H!Clips, via \in Sources : Entering(y, via)
  BY <1>4 DEF Entering, Sources, H!Clips
<1> QED BY <1>1, <1>2, <1>3, <1>4
        DEF Next, Watching, Snapshot, Tick, CheckList, CheckRead, CheckDecide, Watches, Report,
            Handshake, Serve, LocalWrite, Write, Mark, WriteFails, PeerPush, PeerMark, Sends, Send,
            Deliver, Link, Environment, NoInput, vars, history

\* What the daemon is when a clip enters, and what the clip does.
Copied(x) ==
    /\ Shown' = x
    /\ UNCHANGED <<clipMu, pending, pc, work, lastIn, shows, unwritten>>
Received(x) ==
    /\ \E c \in Conns :
         /\ pc[c] = "loop" /\ pc' = [pc EXCEPT ![c] = "dedup"]
         /\ work' = [work EXCEPT ![c] = x]
         /\ lastIn' = [lastIn EXCEPT ![c] = hashContent(x)]
         /\ shows' = [shows EXCEPT ![c] = hashContent(x)]
    /\ UNCHANGED <<clipboard, clipMu, pending, unwritten>>
Pushed(x) ==
    /\ x \in H!RemoteClips /\ CanWrite(Backend, x)
    /\ clipMu' = "write" /\ pending' = x /\ clipboard' = Written(x)
    /\ UNCHANGED <<pc, work, lastIn, shows, unwritten>>
NotPushed(x) ==
    /\ unwritten' = unwritten \cup {x}
    /\ UNCHANGED <<clipboard, clipMu, pending, pc, work, lastIn, shows>>
Requested(x) ==
    /\ pc[Api] = "idle" /\ pc' = [pc EXCEPT ![Api] = "relay"]
    /\ work' = [work EXCEPT ![Api] = x]
    /\ UNCHANGED <<clipboard, clipMu, pending, lastIn, shows, unwritten>>

LEMMA EnteringDoes ==
    ASSUME InputsInv, NEW x \in H!Clips, NEW via \in Sources, Entering(x, via), calm'
    PROVE  /\ Enters(x, via) /\ run = "select" /\ clipMu = "free"
           /\ UNCHANGED <<run, listed, seen, lastHash, skipHash, up, clients, todo, lastBroadcast, sound>>
           /\ \/ via = "user" /\ Copied(x)
              \/ via = "client" /\ Received(x)
              \/ via = "peer" /\ (Pushed(x) \/ NotPushed(x))
              \/ via = "api" /\ Requested(x)
<1> USE DEF watcher, W!thread, W!hashes, H!traffic, H!registry, H!echo, hub, WatcherStays, HubStays
<1>1. Enters(x, via)
  <2>1. CASE \E offer \in Copies : UserCopy(offer) /\ x = (CHOOSE c \in Read(Backend, offer) : TRUE)
                                     /\ via = IF run \in {"init", "first"} THEN "start" ELSE "user"
    BY <2>1 DEF UserCopy
  <2>2. CASE \E m \in Messages : x = MsgToContent(m) /\ Decodable(m) /\
               \/ via = "client" /\ \E c \in Conns : ReadClip(c, m)
               \/ via = "peer" /\ \E q \in Peers : PeerWrite(q, m) \/ PeerWriteFails(q, m)
    BY <2>2 DEF ReadClip, PeerWrite, PeerWriteFails
  <2>3. CASE x \in ApiClips /\ via = "api" /\ ApiSend(x)
    BY <2>3 DEF ApiSend
  <2> QED BY <2>1, <2>2, <2>3 DEF Entering
<1>2. run = "select" /\ clipMu = "free"
  BY <1>1, EntersCalm DEF Settled
<1>3. ASSUME NEW offer \in Copies, UserCopy(offer), x = CHOOSE c \in Read(Backend, offer) : TRUE
      PROVE  /\ UNCHANGED <<run, listed, seen, lastHash, skipHash, up, clients, todo, lastBroadcast, sound>>
             /\ Copied(x)
  <2>1. clipboard' = offer
    BY <1>3 DEF UserCopy, W!UserCopy, W!SetClipboard
  <2> QED BY <1>3, <2>1 DEF UserCopy, W!UserCopy, W!writer, Copied, Shown
<1>4. ASSUME NEW c \in Conns, NEW m \in Messages, ReadClip(c, m), x = MsgToContent(m)
      PROVE  /\ UNCHANGED <<run, listed, seen, lastHash, skipHash, up, clients, todo, lastBroadcast, sound>>
             /\ Received(x)
  BY <1>4, SameContents DEF ReadClip, H!ReadClip, Received
<1>5. ASSUME NEW q \in Peers, NEW m \in Messages, PeerWrite(q, m), x = MsgToContent(m)
      PROVE  /\ UNCHANGED <<run, listed, seen, lastHash, skipHash, up, clients, todo, lastBroadcast, sound>>
             /\ Pushed(x)
  BY <1>5, ReadsAreClips, SameContents
  DEF PeerWrite, W!WriteClip, W!SetClipboard, W!CanWrite, CanWrite, Pushed
<1>6. ASSUME NEW q \in Peers, NEW m \in Messages, PeerWriteFails(q, m), x = MsgToContent(m)
      PROVE  /\ UNCHANGED <<run, listed, seen, lastHash, skipHash, up, clients, todo, lastBroadcast, sound>>
             /\ NotPushed(x)
  BY <1>6 DEF PeerWriteFails, W!WriteFails, W!desktop, NotPushed
<1>7. ASSUME ApiSend(x)
      PROVE  /\ UNCHANGED <<run, listed, seen, lastHash, skipHash, up, clients, todo, lastBroadcast, sound>>
             /\ Requested(x)
  BY <1>7 DEF ApiSend, H!ApiSend, H!LocalStart, Requested
<1> QED BY <1>1, <1>2, <1>3, <1>4, <1>5, <1>6, <1>7 DEF Entering

\* The steps by which nothing that enters moves on.
Still ==
    /\ UNCHANGED <<watcher, writer, unwritten, sound, shows, work, todo, lastBroadcast, lastIn>>
    /\ \A p \in H!Threads : H!Busy(p) \/ H!Busy(p)' => pc'[p] = pc[p]
    /\ clients' \subseteq Conns
    /\ \A c \in Conns :
         /\ c \in clients' /\ up'[c] => (c \in clients /\ up[c]) \/ pc[c] = "new"
         /\ pc'[c] = "new" => pc[c] = "new" /\ (c \in clients' => c \in clients)

LEMMA Moves ==
    ASSUME H!TypeOK, [Next]_vars
    PROVE  \/ \E x \in H!Clips, via \in Sources : Entering(x, via)
           \/ /\ UNCHANGED <<inputs, calm>>
              /\ \/ Watching \/ (\E c \in Conns : LocalWrite(c)) \/ (\E q \in Peers : PeerMark(q))
                 \/ /\ WatcherStays
                    /\ \/ UNCHANGED shows /\ \E c \in Conns : H!Dedup(c)
                       \/ \E p \in H!Threads :
                            \/ UNCHANGED shows /\ (H!DropBig(p) \/ H!Begin(p) \/ H!Finish(p))
                            \/ \E t \in H!Targets :
                                 \/ UNCHANGED shows /\ (H!Skip(p, t) \/ H!WriteFails(p, t))
                                 \/ Deliver(p, t)
                 \/ Still
<1> SUFFICES ASSUME UNCHANGED <<inputs, calm>>, ~\E x \in H!Clips, via \in Sources : Entering(x, via)
             PROVE  \/ Watching \/ (\E c \in Conns : LocalWrite(c)) \/ (\E q \in Peers : PeerMark(q))
                    \/ /\ WatcherStays
                       /\ \/ UNCHANGED shows /\ \E c \in Conns : H!Dedup(c)
                          \/ \E p \in H!Threads :
                               \/ UNCHANGED shows /\ (H!DropBig(p) \/ H!Begin(p) \/ H!Finish(p))
                               \/ \E t \in H!Targets :
                                    \/ UNCHANGED shows /\ (H!Skip(p, t) \/ H!WriteFails(p, t))
                                    \/ Deliver(p, t)
                    \/ Still
  BY Enterings
<1>1. ASSUME NEW c \in Conns, H!Handshake(c) \/ H!ReadFails(c) \/ H!Leave(c), WatcherStays, UNCHANGED shows
      PROVE  Still
  <2>0. c \in H!Threads /\ c \in H!Targets /\ pc \in [H!Threads -> H!ConnStates \cup H!LocalStates]
        /\ up \in [H!Targets -> BOOLEAN] /\ clients \subseteq Conns
    BY DEF H!Threads, H!Targets, H!TypeOK
  <2>1. ASSUME NEW state, pc' = [pc EXCEPT ![c] = state],
               ~H!Busy(c), state \notin {"dedup", "apply", "relay", "send"}
        PROVE  \A p \in H!Threads : H!Busy(p) \/ H!Busy(p)' => pc'[p] = pc[p]
    BY <2>0, <2>1 DEF H!Busy
  <2>2. ASSUME NEW state, pc' = [pc EXCEPT ![c] = state], state # "new", UNCHANGED <<up, clients>>
        PROVE  \A d \in Conns :
                 /\ d \in clients' /\ up'[d] => (d \in clients /\ up[d]) \/ pc[d] = "new"
                 /\ pc'[d] = "new" => pc[d] = "new" /\ (d \in clients' => d \in clients)
    <3>1. \A d \in Conns : d \in H!Threads
      BY DEF H!Threads
    <3> QED BY <2>0, <2>2, <3>1
  <2>3. CASE H!Accept(c)
    <3>1. pc' = [pc EXCEPT ![c] = "hello"] /\ ~H!Busy(c)
      BY <2>3 DEF H!Accept, H!Busy
    <3>2. \A d \in Conns : d \in H!Threads /\ d \in H!Targets
      BY DEF H!Threads, H!Targets
    <3>3. \A d \in Conns :
            /\ d \in clients' /\ up'[d] => (d \in clients /\ up[d]) \/ pc[d] = "new"
            /\ pc'[d] = "new" => pc[d] = "new" /\ (d \in clients' => d \in clients)
      BY <2>0, <2>3, <3>2 DEF H!Accept
    <3> QED BY <1>1, <2>0, <2>1, <2>3, <3>1, <3>3 DEF H!Accept, H!echo, WatcherStays, Still
  <2>4. CASE H!Leave(c)
    <3>1. pc' = [pc EXCEPT ![c] = "gone"] /\ ~H!Busy(c)
      BY <2>4 DEF H!Leave, H!Busy
    <3>2. \A d \in Conns : d \in H!Threads /\ d \in H!Targets
      BY DEF H!Threads, H!Targets
    <3>3. \A d \in Conns :
            /\ d \in clients' /\ up'[d] => (d \in clients /\ up[d]) \/ pc[d] = "new"
            /\ pc'[d] = "new" => pc[d] = "new" /\ (d \in clients' => d \in clients)
      BY <2>0, <2>4, <3>2 DEF H!Leave
    <3> QED BY <1>1, <2>0, <2>1, <2>4, <3>1, <3>3 DEF H!Leave, H!echo, WatcherStays, Still
  <2>5. ASSUME NEW state, H!Goto(c, state), ~H!Busy(c), state \notin {"new", "dedup", "apply", "relay", "send"}
        PROVE  Still
    BY <1>1, <2>0, <2>1, <2>2, <2>5 DEF H!Goto, H!registry, H!echo, WatcherStays, Still
  <2>6. CASE H!Refuse(c) \/ H!Hello(c) \/ H!HelloFails(c) \/ H!ReadHook(c) \/ H!HelloReply(c) \/ H!ReadFails(c)
    <3>1. CASE H!Refuse(c)
      <4>1. H!Goto(c, "gone") /\ ~H!Busy(c)
        BY <3>1 DEF H!Refuse, H!Goto, H!Busy
      <4> QED BY <2>5, <4>1
    <3>2. CASE H!Hello(c) \/ H!HelloFails(c) \/ H!ReadHook(c) \/ H!HelloReply(c) \/ H!ReadFails(c)
      <4>1. \E state \in {"hook", "leave", "reply", "loop"} : H!Goto(c, state) /\ ~H!Busy(c)
        BY <3>2 DEF H!Hello, H!HelloFails, H!ReadHook, H!HelloReply, H!ReadFails, H!Busy
      <4> QED BY <2>5, <4>1
    <3> QED BY <2>6, <3>1, <3>2
  <2> QED BY <1>1, <2>3, <2>4, <2>6 DEF H!Handshake
<1>2. ASSUME NEW c \in Conns, Handshake(c) PROVE Still
  BY <1>1, <1>2 DEF Handshake
<1>3. ASSUME UNCHANGED <<pc, work, todo, lastBroadcast, lastIn, clients, shows>>, WatcherStays,
             \A c \in Conns : up'[c] => up[c]
      PROVE  Still
  BY <1>3 DEF WatcherStays, H!Busy, H!TypeOK, Still
<1>4. Environment \/ (\E q \in Peers : Link(q)) => Still
  <2>1. ASSUME NEW q \in Peers, Link(q) PROVE Still
    <3>1. q \in H!Targets /\ q \notin Conns /\ \A c \in Conns : c \in H!Targets
      BY DaemonAssumption DEF DaemonAssumption, H!Targets
    <3>2. \A c \in Conns : up'[c] => up[c]
      BY <2>1, <3>1 DEF Link, H!Link, H!registerPeer, H!unregisterPeer, H!TypeOK
    <3> QED BY <1>3, <2>1, <3>2
            DEF Link, H!Link, H!registerPeer, H!unregisterPeer, H!threads, H!echo
  <2>2. CASE Environment
    <3>1. \A c \in Conns : up'[c] => up[c]
      BY <2>2 DEF Environment, H!Environment, H!Drop, H!TypeOK, H!Targets
    <3> QED BY <1>3, <2>2, <3>1 DEF Environment, H!Environment, H!Drop, H!threads, H!registry, H!echo
  <2> QED BY <2>1, <2>2
<1>5. CASE UNCHANGED vars
  BY <1>5 DEF vars, hub, history, H!Busy, H!TypeOK, Still
<1>6. ASSUME NEW c \in Conns, Serve(c)
      PROVE  WatcherStays /\ UNCHANGED shows /\ (H!Dedup(c) \/ H!ReadFails(c) \/ H!Leave(c))
  BY <1>6 DEF Serve
<1>7. ASSUME NEW p \in H!Threads, Send(p)
      PROVE  /\ WatcherStays /\ UNCHANGED shows
             /\ \/ H!DropBig(p) \/ H!Begin(p) \/ H!Finish(p)
                \/ \E t \in H!Targets : H!Skip(p, t) \/ H!WriteFails(p, t)
  BY <1>7 DEF Send
<1>8. ASSUME NEW p \in H!Threads, NEW t \in H!Targets, Deliver(p, t) PROVE WatcherStays
  BY <1>8 DEF Deliver
<1>9. \/ \E c \in Conns : Handshake(c) \/ Serve(c)
      \/ \E c \in Conns : LocalWrite(c)
      \/ \E p \in H!Threads : Send(p) \/ \E t \in H!Targets : Deliver(p, t)
      \/ \E q \in Peers : Link(q) \/ PeerMark(q)
      \/ Watching \/ Environment \/ UNCHANGED vars
  <2>1. ~\E offer \in Copies : UserCopy(offer)
    <3>1. ASSUME NEW offer \in Copies, UserCopy(offer) PROVE FALSE
      <4>1. (CHOOSE c \in Read(Backend, offer) : TRUE) \in H!Clips
        BY ReadsAreClips DEF Offers
      <4> QED BY <3>1, <4>1 DEF Entering, Sources
    <3> QED BY <3>1
  <2>2. ~\E c \in Conns, m \in Messages : ReadClip(c, m)
    <3>1. ASSUME NEW c \in Conns, NEW m \in Messages, ReadClip(c, m) PROVE FALSE
      <4>1. Decodable(m)
        BY <3>1, SameContents DEF ReadClip, H!ReadClip
      <4> QED BY <3>1, <4>1, ReadsAreClips DEF Entering, Sources
    <3> QED BY <3>1
  <2>3. ~\E q \in Peers, m \in Messages : PeerWrite(q, m) \/ PeerWriteFails(q, m)
    <3>1. ASSUME NEW q \in Peers, NEW m \in Messages, PeerWrite(q, m) \/ PeerWriteFails(q, m) PROVE FALSE
      BY <3>1, ReadsAreClips DEF Entering, Sources, PeerWrite, PeerWriteFails
    <3> QED BY <3>1
  <2>4. ~\E x \in ApiClips : ApiSend(x)
    BY DEF Entering, Sources, H!Clips
  <2> QED BY <2>1, <2>2, <2>3, <2>4 DEF Next, PeerPush, Sends
<1> QED BY <1>1, <1>2, <1>4, <1>5, <1>6, <1>7, <1>8, <1>9

LEMMA ClipsEntered == InputsInv => \A i \in 1..Len(inputs) : Clip(i) \in H!Clips
<1> SUFFICES ASSUME InputsInv, NEW i \in 1..Len(inputs) PROVE Clip(i) \in H!Clips
  OBVIOUS
<1>1. inputs \in Seq([clip : H!Clips, via : Sources])
  BY DEF InputsInv
<1>2. inputs[i] \in [clip : H!Clips, via : Sources]
  BY <1>1, ElementsAreIn
<1> QED BY <1>2 DEF Clip

\* When a clip enters a calm daemon, it is new and the only one under way.
LEMMA EntersKeeps ==
    ASSUME WP!RemoteIsShown, ApiIsSound, OneInv, Calm,
           NEW x \in H!Clips, NEW via \in Sources, Entering(x, via), calm'
    PROVE  Calm'
<1>1. /\ run = "select" /\ clipMu = "free"
      /\ UNCHANGED <<run, listed, seen, lastHash, skipHash, up, clients, todo, lastBroadcast, sound>>
      /\ \/ via = "user" /\ Copied(x)
         \/ via = "client" /\ Received(x)
         \/ via = "peer" /\ (Pushed(x) \/ NotPushed(x))
         \/ via = "api" /\ Requested(x)
  BY EnteringDoes DEF OneInv
<1>2. PICK n \in Nat : n = Len(inputs)
  BY DEF OneInv, InputsInv
<1>3. /\ n >= 1 /\ Len(inputs') = n + 1 /\ inputs'[n + 1] = Input(x, via) /\ Newest' = Input(x, via)
      /\ Newest'.clip = x /\ Newest'.via = via
      /\ \A i \in 1..n : inputs'[i] = inputs[i] /\ inputs[i].clip # x
  BY <1>2, EnteringDoes, EntersCalm DEF OneInv, Calm, DistinctInv, Input
<1>4. Quiet /\ Settled
  BY EnteringDoes, EntersCalm DEF OneInv
<1>5. \A i \in 1..n : hashContent(inputs[i].clip) # hashContent(x)
  BY <1>2, <1>3, ClipsEntered, HashTells DEF OneInv, Clip
<1>6. /\ pc \in [H!Threads -> H!ConnStates \cup H!LocalStates]
      /\ work \in [H!Threads -> H!Clips \cup {H!Blank}] /\ lastIn \in [Conns -> H!Keys]
  BY OneHub DEF OneInv, PartsInv, H!TypeOK
<1>7. Api \in H!Threads /\ Api \notin Conns /\ Api # Watch /\ \A c \in Conns : c \in H!Threads
  BY DaemonAssumption DEF DaemonAssumption, H!Threads, H!Locals
<1>8. unwritten' = unwritten \/ (via = "peer" /\ unwritten' = unwritten \cup {x})
  BY <1>1 DEF Copied, Received, Pushed, NotPushed, Requested
<1>10. DistinctInv'
  <2>1. \A i, j \in 1..(n + 1) : inputs'[i].clip = inputs'[j].clip => i = j
    BY <1>2, <1>3 DEF Calm, DistinctInv, Clip, Input
  <2>2. \A y \in unwritten' : \E i \in 1..(n + 1) : inputs'[i].clip = y
    <3>1. ASSUME NEW y \in unwritten PROVE \E i \in 1..(n + 1) : inputs'[i].clip = y
      <4>1. PICK i \in 1..n : inputs[i].clip = y
        BY <1>2 DEF Calm, DistinctInv, Clip
      <4> QED BY <1>3, <4>1
    <3>2. n + 1 \in 1..(n + 1) /\ inputs'[n + 1].clip = x
      BY <1>3 DEF Input
    <3> QED BY <1>8, <3>1, <3>2
  <2> QED BY <1>3, <2>1, <2>2 DEF DistinctInv, Clip
<1>11. BusyInv' /\ (Received(x) \/ Requested(x) \/ Quiet')
  <2>1. CASE UNCHANGED <<pc, work>>
    <3>1. Quiet'
      BY <1>4, <2>1 DEF Quiet, H!Busy
    <3> QED BY <3>1 DEF BusyInv, Quiet
  <2>2. CASE Received(x) /\ via = "client"
    <3>1. PICK c \in Conns : /\ pc' = [pc EXCEPT ![c] = "dedup"] /\ work' = [work EXCEPT ![c] = x]
                             /\ shows' = [shows EXCEPT ![c] = hashContent(x)]
      BY <2>2 DEF Received
    <3>2. \A p \in H!Threads : H!Busy(p)' => p = c
      BY <1>4, <1>6, <1>7, <3>1 DEF Quiet, H!Busy
    <3>3. work'[c] = x /\ shows'[c] = hashContent(x) /\ c # Watch /\ c # Api
      BY <1>6, <1>7, <3>1, DaemonAssumption DEF DaemonAssumption, Calm, NewInv
    <3> QED BY <1>3, <2>2, <3>2, <3>3 DEF BusyInv, H!Busy
  <2>3. CASE Requested(x) /\ via = "api"
    <3>1. \A p \in H!Threads : H!Busy(p)' => p = Api
      BY <1>4, <1>6, <1>7, <2>3 DEF Quiet, H!Busy, Requested
    <3>2. work'[Api] = x
      BY <1>6, <1>7, <2>3 DEF Requested
    <3> QED BY <1>3, <1>7, <2>3, <3>1, <3>2 DEF BusyInv
  <2> QED BY <1>1, <2>1, <2>2, <2>3 DEF Copied, Pushed, NotPushed
<1>9. HandsInv'
  <2>1. \A c \in Conns : ~Waits(c)
    BY <1>4, <1>7 DEF Quiet, H!Busy, Waits
  <2>2. CASE Copied(x) \/ NotPushed(x) \/ Requested(x)
    <3>1. clipMu' # "write"
      BY <1>1, <2>2 DEF Copied, NotPushed, Requested
    <3>2. \A c \in Conns : ~Waits(c)'
      BY <1>6, <1>7, <2>1, <2>2 DEF Copied, NotPushed, Requested, Waits
    <3> QED BY <3>1, <3>2 DEF HandsInv
  <2>3. CASE Received(x) /\ via = "client"
    <3>1. PICK c \in Conns : pc' = [pc EXCEPT ![c] = "dedup"] /\ work' = [work EXCEPT ![c] = x]
      BY <2>3 DEF Received
    <3>2. /\ \A d \in Conns : Waits(d)' => d = c
          /\ work'[c] = x /\ clipMu' # "write"
      BY <1>1, <1>6, <1>7, <2>1, <2>3, <3>1 DEF Received, Waits
    <3>3. x \notin unwritten'
      BY <1>2, <1>3, <2>3 DEF Calm, DistinctInv, Clip, Received
    <3> QED BY <1>3, <2>3, <3>2, <3>3 DEF HandsInv
  <2>4. CASE Pushed(x) /\ via = "peer"
    <3>1. \A c \in Conns : ~Waits(c)'
      BY <2>1, <2>4 DEF Pushed, Waits
    <3> QED BY <1>3, <2>4, <3>1 DEF Pushed, HandsInv
  <2> QED BY <1>1, <2>2, <2>3, <2>4
<1>12. WatchInv'
  <2>1. CASE via = "user" /\ Copied(x)
    <3>1. /\ Shown' = x /\ run' = "select" /\ clipMu' # "write" /\ Quiet'
          /\ lastHash' = lastHash /\ skipHash' = skipHash
      BY <1>1, <1>4, <2>1 DEF Copied, Quiet, H!Busy
    <3>2. lastHash # hashContent(x)
      BY <1>2, <1>4, <1>5 DEF Settled, Calm, DesktopInv, Landed, Clip
    <3>3. skipHash # hashContent(x)
      BY <1>2, <1>5, HashesAreSet DEF Calm, EchoInv, Came, Clip
    <3>4. Unreported'
      BY <1>3, <2>1, <3>1, <3>2, <3>3 DEF Unreported
    <3> QED BY <3>1, <3>4 DEF WatchInv
  <2>2. CASE Received(x) \/ NotPushed(x) \/ Requested(x)
    <3>1. UNCHANGED <<clipboard, clipMu>>
      BY <2>2 DEF Received, NotPushed, Requested
    <3>2. (lastHash = hashContent(Shown))'
      BY <1>1, <1>4, <3>1 DEF Settled, Shown
    <3> QED BY <1>1, <3>1, <3>2 DEF WatchInv
  <2>3. CASE via = "peer" /\ Pushed(x)
    BY <1>1, <1>3, <2>3 DEF Pushed, WatchInv
  <2> QED BY <1>1, <2>1, <2>2, <2>3
<1>13. DesktopInv'
  <2>1. PICK i \in 1..n : /\ inputs[i].via # "api" /\ inputs[i].clip \notin unwritten /\ Shown = inputs[i].clip
                          /\ \A j \in 1..n : inputs[j].via # "api" /\ inputs[j].clip \notin unwritten => j <= i
    BY <1>2, <1>4 DEF Calm, DesktopInv, Landed, Landing, Quiet, Waits, H!Busy, Clip, H!Threads
  <2>2. x \notin unwritten
    BY <1>2, <1>3 DEF Calm, DistinctInv, Clip
  <2>3. CASE (via = "user" /\ Copied(x)) \/ (via = "peer" /\ Pushed(x))
    <3>1. Shown' = x
      <4>1. CASE Pushed(x)
        <5>1. Read(Backend, Written(x)) = {x}
          BY <4>1, WrittenReadsBack DEF Pushed
        <5> QED BY <4>1, <5>1 DEF Pushed, Shown
      <4> QED BY <2>3, <4>1 DEF Copied
    <3>2. ~Landing'
      BY <1>4, <2>3 DEF Copied, Pushed, Landing, Quiet, Waits, H!Busy, H!Threads
    <3>3. via # "api" /\ unwritten' = unwritten
      BY <2>3 DEF Copied, Pushed
    <3>4. n + 1 \in Landed' /\ \A j \in Landed' : j <= n + 1
      BY <1>3, <2>2, <3>2, <3>3 DEF Landed, Clip
    <3> QED BY <1>3, <3>1, <3>4 DEF DesktopInv, Clip
  <2>4. CASE \/ via = "client" /\ Received(x)
             \/ via = "peer" /\ NotPushed(x)
             \/ via = "api" /\ Requested(x)
    <3>1. Shown' = Shown
      BY <2>4 DEF Received, NotPushed, Requested, Shown
    <3>2. n + 1 \notin Landed'
      <4>1. CASE via = "client" /\ Received(x)
        <5>1. Landing'
          BY <1>1, <1>6, <1>7, <4>1 DEF Received, Landing, Waits
        <5> QED BY <1>3, <5>1 DEF Landed
      <4>2. CASE via = "peer" /\ NotPushed(x)
        BY <1>3, <4>2 DEF NotPushed, Landed, Clip
      <4>3. CASE via = "api" /\ Requested(x)
        BY <1>3, <4>3 DEF Landed
      <4> QED BY <2>4, <4>1, <4>2, <4>3
    <3>3. ASSUME NEW j \in 1..n
          PROVE  j \in Landed' <=> inputs[j].via # "api" /\ inputs[j].clip \notin unwritten
      BY <1>3, <1>8 DEF Landed, Clip
    <3>4. i \in Landed' /\ \A j \in Landed' : j <= i
      <4>1. Landed' \subseteq 1..(n + 1)
        BY <1>3 DEF Landed
      <4>2. \A j \in Landed' : j \in 1..n
        BY <3>2, <4>1
      <4> QED BY <2>1, <3>3, <4>2
    <3> QED BY <1>3, <2>1, <3>1, <3>4 DEF DesktopInv, Clip
  <2> QED BY <1>1, <2>3, <2>4
<1>14. EchoInv'
  <2>1. ASSUME NEW h, NEW ways, NEW k \in 0..n, Came(h, ways, k)
        PROVE  Came(h, ways, k)' /\ Came(h, ways, n + 1)'
    BY <1>3, <2>1 DEF Came, Clip
  <2>2. Came(lastBroadcast, {"client"}, n)
    BY <1>2, <1>4 DEF Calm, EchoInv, Quiet, H!Busy, H!Threads
  <2>3. (Came(lastBroadcast, {"client"}, n) /\ Came(lastBroadcast, {"client"}, n + 1))'
    <3>1. PICK h : h = lastBroadcast
      OBVIOUS
    <3>2. (Came(h, {"client"}, n) /\ Came(h, {"client"}, n + 1))'
      BY <2>1, <2>2, <3>1
    <3>3. lastBroadcast' = h
      BY <1>1, <3>1
    <3> QED BY <3>2, <3>3 DEF Came
  <2>4. Came(skipHash, {"client", "peer"}, n + 1)'
    <3>1. PICK h : h = skipHash
      OBVIOUS
    <3>2. Came(h, {"client", "peer"}, n + 1)'
      BY <1>2, <2>1, <3>1 DEF Calm, EchoInv
    <3>3. skipHash' = h
      BY <1>1, <3>1
    <3> QED BY <3>2, <3>3 DEF Came
  <2>5. ASSUME NEW c \in Conns PROVE Came(lastIn[c], {"client"}, n + 1)'
    <3>1. CASE lastIn'[c] = lastIn[c]
      <4>1. PICK h : h = lastIn[c]
        OBVIOUS
      <4>2. Came(h, {"client"}, n + 1)'
        BY <1>2, <2>1, <4>1 DEF Calm, EchoInv
      <4> QED BY <3>1, <4>1, <4>2 DEF Came
    <3>2. CASE lastIn'[c] = hashContent(x) /\ via = "client"
      BY <1>3, <3>2 DEF Came, Clip, Input
    <3> QED BY <1>1, <1>6, <3>1, <3>2 DEF Copied, Received, Pushed, NotPushed, Requested
  <2> QED BY <1>3, <2>3, <2>4, <2>5 DEF EchoInv
<1>15. NewInv'
  <2>1. hashContent(x) \in H!Keys
    BY SameContents DEF H!Keys
  <2>2. CASE UNCHANGED <<shows, pc>>
    BY <1>1, <2>2 DEF Calm, NewInv
  <2>3. CASE Received(x)
    BY <1>1, <1>6, <1>7, <2>1, <2>3 DEF Received, Calm, NewInv
  <2>4. CASE Requested(x)
    BY <1>1, <1>6, <1>7, <2>4 DEF Requested, Calm, NewInv
  <2> QED BY <1>1, <2>2, <2>3, <2>4 DEF Copied, Pushed, NotPushed
<1>16. ASSUME Sure' PROVE ClientsInv'
  <2> SUFFICES ASSUME NEW c \in clients, up[c], shows'[c] # NoHash
               PROVE  \/ Spread' /\ OnTheWay(c)'
                      \/ \E i \in MeantTo(c)' : shows'[c] = hashContent(Clip(i)') /\ \A j \in MeantTo(c)' : j <= i
    BY <1>1 DEF ClientsInv
  <2>0. c \in Conns /\ MeantTo(c)' \subseteq 1..(n + 1)
    BY <1>3, OneHub DEF OneInv, PartsInv, H!TypeOK, MeantTo
  <2>1. CASE via = "user" /\ Copied(x)
    <3>1. Unreported'
      <4>1. via = "user" /\ Shown' = x /\ clipMu' # "write" /\ run' = "select"
        BY <1>1, <2>1 DEF Copied
      <4>2. lastHash' # hashContent(x)
        BY <1>1, <1>2, <1>4, <1>5 DEF Settled, Calm, DesktopInv, Landed, Clip
      <4>3. WatchInv' => lastHash' = hashContent(x) \/ Unreported'
        BY <4>1 DEF WatchInv
      <4> QED BY <1>12, <4>2, <4>3
    <3> QED BY <1>3, <2>1, <3>1 DEF OnTheWay, Spread
  <2>2. ASSUME via = "client", NEW d \in Conns, pc' = [pc EXCEPT ![d] = "dedup"],
               shows' = [shows EXCEPT ![d] = hashContent(x)], d = c \/ x \notin Oversize
        PROVE  \/ Spread' /\ OnTheWay(c)'
               \/ \E i \in MeantTo(c)' : shows'[c] = hashContent(Clip(i)') /\ \A j \in MeantTo(c)' : j <= i
    <3>1. CASE d = c
      <4>1. shows'[c] = hashContent(x)
        BY <2>0, <2>2, <3>1 DEF Calm, NewInv
      <4>2. n + 1 \in MeantTo(c)'
        BY <1>3, <2>2, <4>1 DEF MeantTo, MeantFor, Clip
      <4>3. \A j \in MeantTo(c)' : j <= n + 1
        BY <2>0
      <4> QED BY <1>3, <4>1, <4>2, <4>3 DEF Clip
    <3>2. CASE d # c /\ x \notin Oversize
      <4>1. pc'[d] = "dedup" /\ d \in H!Threads
        BY <1>6, <1>7, <2>2
      <4> QED BY <1>3, <2>2, <3>2, <4>1 DEF OnTheWay, Spread
    <3> QED BY <2>2, <3>1, <3>2
  <2>3. CASE shows'[c] = shows[c] /\ (via = "peer" \/ (via = "client" /\ x \in Oversize))
    <3>1. ~OnTheWay(c)
      BY <1>1, <1>4 DEF OnTheWay, Unreported, Quiet, H!Busy, Settled
    <3>2. Told
      BY <1>1, <1>16 DEF Calm, Sure
    <3>3. PICK i \in MeantTo(c) : shows[c] = hashContent(Clip(i)) /\ \A j \in MeantTo(c) : j <= i
      BY <1>1, <2>3, <3>1, <3>2 DEF Told, ClientsInv
    <3>4. i \in 1..n /\ shows'[c] # hashContent(x)
      BY <1>2, <1>5, <2>3, <3>3 DEF MeantTo, Clip
    <3>5. n + 1 \notin MeantTo(c)'
      BY <1>3, <2>3, <3>4 DEF MeantTo, MeantFor, Clip
    <3>6. \A j \in 1..n : j \in MeantTo(c)' <=> j \in MeantTo(c)
      BY <1>2, <1>3, <2>3 DEF MeantTo, MeantFor, Clip
    <3>7. i \in MeantTo(c)' /\ \A j \in MeantTo(c)' : j <= i
      <4>1. \A j \in MeantTo(c)' : j \in 1..n
        BY <2>0, <3>5
      <4> QED BY <3>3, <3>4, <3>6, <4>1
    <3> QED BY <1>3, <2>3, <3>3, <3>4, <3>7 DEF Clip
  <2>4. CASE via = "api" /\ Requested(x)
    <3>1. pc'[Api] = "relay" /\ Api # c
      BY <1>6, <1>7, <2>0, <2>4 DEF Requested
    <3> QED BY <1>3, <1>7, <2>4, <3>1 DEF OnTheWay, Spread
  <2>5. CASE via = "client" /\ Received(x)
    <3>1. PICK d \in Conns : /\ pc' = [pc EXCEPT ![d] = "dedup"]
                             /\ shows' = [shows EXCEPT ![d] = hashContent(x)]
      BY <2>5 DEF Received
    <3>2. CASE d = c \/ x \notin Oversize
      BY <2>2, <2>5, <3>1, <3>2
    <3>3. CASE d # c /\ x \in Oversize
      <4>1. shows'[c] = shows[c]
        BY <2>0, <3>1, <3>3 DEF Calm, NewInv
      <4> QED BY <2>3, <2>5, <3>3, <4>1
    <3> QED BY <3>2, <3>3
  <2>6. CASE via = "peer" /\ (Pushed(x) \/ NotPushed(x))
    <3>1. shows' = shows
      BY <2>6 DEF Pushed, NotPushed
    <3> QED BY <2>3, <2>6, <3>1
  <2> QED BY <1>1, <2>1, <2>4, <2>5, <2>6
<1> QED BY <1>9, <1>10, <1>11, <1>12, <1>13, <1>14, <1>15, <1>16 DEF Calm, Told

LEMMA InputsStay ==
    ASSUME UNCHANGED inputs
    PROVE  /\ UNCHANGED <<Newest, Spread>>
           /\ \A i : Clip(i)' = Clip(i)
           /\ \A h, ways, n : Came(h, ways, n)' = Came(h, ways, n)
           /\ \A c : shows'[c] = shows[c] => MeantTo(c)' = MeantTo(c)
  BY DEF Newest, Spread, Clip, Came, MeantTo, MeantFor

\* What else goes on leaves the clip that is under way where it is.
LEMMA StillKeeps ==
    ASSUME Calm, UNCHANGED <<inputs, calm>>, Still
    PROVE  Calm'
<1>0. Sure' => Told
  BY DEF Still, Calm, Sure
<1>1. /\ UNCHANGED <<clipboard, clipMu, pending, run, listed, seen, lastHash, skipHash, unwritten,
                     shows, work, todo, lastBroadcast, lastIn>>
      /\ Shown' = Shown
  BY DEF Still, watcher, Shown
<1>2. \A p \in H!Threads : /\ H!Busy(p)' = H!Busy(p)
                           /\ \A state \in {"dedup", "apply", "relay", "send"} :
                                (pc'[p] = state) = (pc[p] = state)
  <2> SUFFICES ASSUME NEW p \in H!Threads
               PROVE  /\ H!Busy(p)' = H!Busy(p)
                      /\ \A state \in {"dedup", "apply", "relay", "send"} :
                           (pc'[p] = state) = (pc[p] = state)
    OBVIOUS
  <2>1. H!Busy(p) \/ H!Busy(p)' => pc'[p] = pc[p]
    BY DEF Still
  <2> QED BY <2>1 DEF H!Busy
<1>3. \A c \in Conns : c \in H!Threads /\ Waits(c)' = Waits(c)
  BY <1>2 DEF Waits, H!Threads
<1>4. Quiet' = Quiet /\ Unreported' = Unreported /\ Landing' = Landing
  BY <1>1, <1>2, <1>3, InputsStay DEF Quiet, Unreported, Landing
<1>5. DistinctInv' /\ HandsInv'
  <2>1. DistinctInv'
    BY <1>1 DEF Calm, DistinctInv, Clip
  <2>2. HandsInv'
    BY <1>1, <1>3, InputsStay DEF Calm, HandsInv
  <2> QED BY <2>1, <2>2
<1>6. Sure' => BusyInv' /\ WatchInv'
  <2>1. BusyInv => BusyInv'
    BY <1>1, <1>2, InputsStay DEF BusyInv
  <2>2. WatchInv => WatchInv'
    BY <1>1, <1>4, InputsStay DEF WatchInv
  <2> QED BY <1>0, <2>1, <2>2 DEF Told
<1>7. DesktopInv'
  <2>1. Landed' = Landed
    BY <1>1, <1>4 DEF Landed, Clip
  <2> QED BY <1>1, <2>1 DEF Calm, DesktopInv, Clip
<1>8. EchoInv'
  BY <1>1, <1>2, <1>3 DEF Calm, EchoInv, Came, Clip
<1>9. NewInv'
  BY <1>1 DEF Still, Calm, NewInv
<1>10. ASSUME Sure' PROVE ClientsInv'
  <2> SUFFICES ASSUME NEW c \in clients', up'[c], shows[c] # NoHash
               PROVE  \/ Spread /\ OnTheWay(c)'
                      \/ \E i \in MeantTo(c) : shows[c] = hashContent(Clip(i)) /\ \A j \in MeantTo(c) : j <= i
    BY <1>1, InputsStay DEF ClientsInv
  <2>1. c \in clients /\ up[c]
    BY <1>1 DEF Still, Calm, NewInv
  <2>2. OnTheWay(c)' = OnTheWay(c)
    BY <1>1, <1>2, <1>4 DEF OnTheWay
  <2> QED BY <1>0, <1>10, <2>1, <2>2 DEF Told, ClientsInv
<1> QED BY <1>5, <1>6, <1>7, <1>8, <1>9, <1>10 DEF Calm, Told

\* The broadcast of a clip reaches every client but the one it came from.
LEMMA BroadcastKeeps ==
    ASSUME ApiIsSound, OneInv, Calm, UNCHANGED <<inputs, calm>>, WatcherStays,
           NEW p \in H!Threads,
           \/ UNCHANGED shows /\ (H!DropBig(p) \/ H!Begin(p) \/ H!Finish(p))
           \/ \E t \in H!Targets : Deliver(p, t) \/ (UNCHANGED shows /\ (H!Skip(p, t) \/ H!WriteFails(p, t)))
    PROVE  Calm'
<1>0. Sure' => Told
  BY DEF WatcherStays, Calm, Sure
<1>1. /\ UNCHANGED <<clipboard, clipMu, pending, run, listed, seen, lastHash, skipHash, unwritten>>
      /\ Shown' = Shown
  BY DEF WatcherStays, watcher, Shown
<1>2. H!TypeOK /\ \A c \in Conns : c \in H!Threads /\ c # Watch /\ c # Api
  BY OneHub, DaemonAssumption DEF OneInv, PartsInv, DaemonAssumption, H!Threads
<1>3. H!Busy(p) /\ work[p] \in H!Clips
  <2>1. H!Busy(p)
    BY DEF Deliver, H!DropBig, H!Begin, H!Finish, H!Deliver, H!Skip, H!WriteFails, H!Turn, H!Busy
  <2> QED BY <1>2, <2>1 DEF H!TypeOK
<1>4. ~Quiet /\ ~Unreported
  BY <1>3 DEF Unreported, Quiet
<1>5. /\ UNCHANGED <<work, clients, lastBroadcast, lastIn>>
      /\ \/ pc' = pc
         \/ pc[p] = "relay" /\ pc' = [pc EXCEPT ![p] = "send"]
         \/ pc[p] \in {"relay", "send"} /\ pc' = [pc EXCEPT ![p] = "loop"]
         \/ pc[p] = "send" /\ pc' = [pc EXCEPT ![p] = "idle"]
  BY <1>2, <1>3
  DEF H!DropBig, H!TooBig, H!Goto, H!Begin, H!Finish, H!Return, Deliver, H!Deliver, H!Skip,
      H!WriteFails, H!threads, H!registry, H!echo
<1>6. \A r \in H!Threads : (H!Busy(r)' => H!Busy(r)) /\ (r # p => pc'[r] = pc[r])
  BY <1>2, <1>5 DEF H!TypeOK, H!Busy
<1>7. \A c \in Conns : Waits(c)' = Waits(c) /\ (pc'[c] = "dedup") = (pc[c] = "dedup")
                       /\ (pc'[c] = "new" => pc[c] = "new")
  BY <1>2, <1>5 DEF H!TypeOK, Waits
<1>8. DistinctInv' /\ HandsInv'
  <2>1. DistinctInv'
    BY <1>1 DEF Calm, DistinctInv, Clip
  <2>2. HandsInv'
    BY <1>1, <1>5, <1>7, InputsStay DEF Calm, HandsInv
  <2> QED BY <2>1, <2>2
<1>9. DesktopInv'
  <2>1. Landing' = Landing
    BY <1>1, <1>7 DEF Landing
  <2>2. Landed' = Landed
    BY <1>1, <2>1 DEF Landed, Clip
  <2> QED BY <1>1, <2>2 DEF Calm, DesktopInv, Clip
<1>10. EchoInv'
  BY <1>1, <1>5, <1>7 DEF Calm, EchoInv, Came, Clip
<1>11. \A c \in Conns : \/ shows'[c] = shows[c]
                        \/ shows'[c] = hashContent(work[p]) /\ c \in todo
  BY <1>3 DEF Deliver, H!Deliver, H!Turn, Calm, NewInv
<1>12. NewInv'
  <2>1. shows' \in [Conns -> H!Keys]
    <3>1. hashContent(work[p]) \in H!Keys
      BY <1>3, SameContents DEF H!Keys
    <3> QED BY <1>3, <3>1 DEF Deliver, Calm, NewInv
  <2>2. \A c \in Conns : pc'[c] = "new" => c \notin todo'
    <3>1. CASE H!Begin(p)
      <4>1. \A c \in Conns : c \notin peers
        BY <1>2, DaemonAssumption DEF DaemonAssumption, H!TypeOK
      <4> QED BY <1>7, <3>1, <4>1 DEF H!Begin, Calm, NewInv
    <3>2. CASE todo' \subseteq todo
      BY <1>7, <3>2 DEF Calm, NewInv
    <3> QED BY <1>3, <3>1, <3>2 DEF H!DropBig, H!Goto, H!Finish, Deliver, H!Deliver, H!Skip, H!WriteFails
  <2> QED BY <1>5, <1>7, <1>11, <2>1, <2>2 DEF Calm, NewInv
<1>13. ASSUME Told PROVE Told'
  <2>1. /\ Newest.via # "peer" /\ work[p] = Newest.clip
        /\ p \notin Conns => Newest.via # "client"
        /\ run # "fire" /\ run \notin {"init", "first"}
    BY <1>3, <1>4, <1>13 DEF Told, BusyInv, WatchInv, H!Threads, H!Locals
  <2>2. BusyInv'
    BY <1>1, <1>5, <1>6, <1>11, <1>13, <2>1, InputsStay DEF Told, BusyInv
  <2>3. WatchInv'
    BY <1>1, <1>4, <1>13, <2>1, InputsStay DEF Told, WatchInv
  <2>4. ClientsInv'
    <3> SUFFICES ASSUME NEW c \in clients, up'[c], shows'[c] # NoHash
                 PROVE  \/ Spread /\ OnTheWay(c)'
                        \/ \E i \in MeantTo(c)' : shows'[c] = hashContent(Clip(i)) /\ \A j \in MeantTo(c)' : j <= i
      BY <1>5, InputsStay DEF ClientsInv
    <3>1. c \in Conns /\ c \in H!Targets
      BY <1>2 DEF H!TypeOK, H!Targets
    <3>2. up[c]
      BY <1>2, <1>3, <3>1
      DEF H!TypeOK, H!Begin, H!Finish, H!DropBig, H!Goto, H!registry, Deliver, H!Deliver, H!Skip, H!WriteFails
    <3>3. CASE shows'[c] = hashContent(Newest.clip)
      <4>1. Len(inputs) \in MeantTo(c)' /\ \A j \in MeantTo(c)' : j <= Len(inputs)
        BY <2>1, <3>3 DEF MeantTo, MeantFor, Newest, Clip, Calm, DistinctInv, OneInv, InputsInv
      <4> QED BY <3>3, <4>1 DEF Newest, Clip
    <3>4. CASE shows'[c] = shows[c] /\ Spread /\ OnTheWay(c)
      <4>1. CASE H!Begin(p)
        <5>1. pc[p] = "relay" /\ pc' = [pc EXCEPT ![p] = "send"] /\ todo' = (clients \ {p}) \cup peers
          BY <4>1 DEF H!Begin
        <5>2. p # c
          BY <1>3, <1>4, <1>13, <2>1, <3>4, <5>1 DEF OnTheWay, Told, BusyInv, H!Busy
        <5>3. pc'[p] = "send" /\ c \in todo'
          BY <1>2, <5>1, <5>2 DEF H!TypeOK
        <5> QED BY <3>4, <5>3 DEF OnTheWay
      <4>2. CASE H!Finish(p)
        BY <1>3, <1>4, <1>13, <2>1, <3>4, <4>2 DEF OnTheWay, H!Finish, Told, BusyInv, H!Busy
      <4>3. ASSUME NEW t \in H!Targets, c # t, todo' = todo \ {t}, pc' = pc PROVE OnTheWay(c)'
        BY <1>4, <2>1, <3>4, <4>3 DEF OnTheWay
      <4>4. ASSUME H!Skip(p, c) PROVE FALSE
        <5>1. p \notin Conns /\ lastIn[c] = hashContent(Newest.clip)
          BY <1>2, <2>1, <4>4, SameContents
          DEF H!Skip, H!MaySkip, H!recentlySent, H!Locals
        <5>2. PICK i \in 1..Len(inputs) : inputs[i].via = "client" /\ hashContent(Clip(i)) = hashContent(Newest.clip)
          BY <3>1, <5>1, HashesAreSet DEF Calm, EchoInv, Came
        <5>3. Len(inputs) \in 1..Len(inputs)
          BY DEF Calm, DistinctInv, OneInv, InputsInv
        <5>4. Clip(i) = Clip(Len(inputs))
          BY <5>2, <5>3, ClipsEntered, HashTells DEF OneInv, Newest, Clip
        <5>5. i = Len(inputs)
          BY <5>3, <5>4 DEF Calm, DistinctInv
        <5> QED BY <2>1, <5>1, <5>2, <5>5 DEF Newest
      <4>5. ASSUME H!WriteFails(p, c) PROVE FALSE
        BY <1>2, <3>1, <4>5 DEF H!WriteFails, H!TypeOK
      <4>6. ASSUME Deliver(p, c) PROVE shows'[c] = hashContent(Newest.clip)
        BY <2>1, <3>1, <4>6 DEF Deliver, Calm, NewInv
      <4>7. CASE \E t \in H!Targets : Deliver(p, t) \/ H!Skip(p, t) \/ H!WriteFails(p, t)
        <5>1. PICK t \in H!Targets : Deliver(p, t) \/ H!Skip(p, t) \/ H!WriteFails(p, t)
          BY <4>7
        <5>2. todo' = todo \ {t} /\ pc' = pc
          BY <5>1 DEF Deliver, H!Deliver, H!Skip, H!WriteFails, H!threads
        <5>3. CASE t = c
          <6>1. shows'[c] = hashContent(Newest.clip)
            BY <4>4, <4>5, <4>6, <5>1, <5>3
          <6> QED BY <3>3, <6>1
        <5> QED BY <3>4, <4>3, <5>2, <5>3
      <4>8. CASE H!DropBig(p)
        BY <1>3, <1>13, <2>1, <3>4, <4>8 DEF H!DropBig, H!TooBig, Told, BusyInv, Spread
      <4> QED BY <4>1, <4>2, <4>7, <4>8
    <3>5. CASE shows'[c] = shows[c] /\ ~(Spread /\ OnTheWay(c))
      BY <1>13, <3>2, <3>5, InputsStay DEF Told, ClientsInv
    <3> QED BY <1>11, <2>1, <3>1, <3>3, <3>4, <3>5
  <2> QED BY <2>2, <2>3, <2>4 DEF Told
<1> QED BY <1>0, <1>8, <1>9, <1>10, <1>12, <1>13 DEF Calm

\* A clip that comes for the first time is no echo.
LEMMA DedupKeeps ==
    ASSUME ApiIsSound, OneInv, Calm, UNCHANGED <<inputs, calm>>, WatcherStays, UNCHANGED shows,
           NEW c \in Conns, H!Dedup(c)
    PROVE  Calm'
<1>0. Sure' => Told
  BY DEF WatcherStays, Calm, Sure
<1>1. /\ UNCHANGED <<clipboard, clipMu, pending, run, listed, seen, lastHash, skipHash, unwritten>>
      /\ Shown' = Shown
  BY DEF WatcherStays, watcher, Shown
<1>2. H!TypeOK /\ \A d \in Conns : d \in H!Threads
  BY OneHub DEF OneInv, PartsInv, H!Threads
<1>3. /\ pc[c] = "dedup" /\ H!Busy(c) /\ Waits(c) /\ lastBroadcast' = hashContent(work[c])
      /\ UNCHANGED <<work, up, clients, todo, lastIn>>
  BY SameContents DEF H!Dedup, H!Busy, Waits, H!registry
<1>4. work[c] = Newest.clip /\ Newest.via = "client" /\ ~Quiet /\ ~Unreported
  BY <1>2, <1>3 DEF Calm, HandsInv, Quiet, Unreported
<1>5. /\ Len(inputs) \in 1..Len(inputs) /\ Clip(Len(inputs)) = Newest.clip
      /\ inputs[Len(inputs)].via = "client"
  BY <1>4 DEF Calm, DistinctInv, OneInv, InputsInv, Newest, Clip
<1>6. lastBroadcast # hashContent(Newest.clip)
  <2>1. Came(lastBroadcast, {"client"}, Len(inputs) - 1)
    BY <1>3 DEF Calm, EchoInv
  <2>2. ASSUME NEW i \in 1..(Len(inputs) - 1), hashContent(Clip(i)) = hashContent(Newest.clip) PROVE FALSE
    <3>1. i \in 1..Len(inputs) /\ i # Len(inputs)
      BY <1>5
    <3>2. Clip(i) = Clip(Len(inputs))
      BY <1>5, <2>2, <3>1, ClipsEntered, HashTells DEF OneInv
    <3> QED BY <1>5, <3>1, <3>2 DEF Calm, DistinctInv
  <2> QED BY <2>1, <2>2, HashesAreSet DEF Came
<1>7. pc' = [pc EXCEPT ![c] = "apply"]
  BY <1>4, <1>6, SameContents DEF H!Dedup, H!IsEcho
<1>8. \A p \in H!Threads : H!Busy(p)' = H!Busy(p) /\ (p # c => pc'[p] = pc[p])
  BY <1>2, <1>3, <1>7 DEF H!TypeOK, H!Busy
<1>9. /\ \A d \in Conns : Waits(d)' = Waits(d) /\ (pc'[d] = "new" => pc[d] = "new")
      /\ pc'[c] = "apply"
  BY <1>2, <1>3, <1>7 DEF H!TypeOK, Waits
<1>10. DistinctInv'
  BY <1>1 DEF Calm, DistinctInv, Clip
<1>11. HandsInv'
  BY <1>1, <1>3, <1>9, InputsStay DEF Calm, HandsInv
<1>12. Sure' => BusyInv' /\ WatchInv'
  <2>1. BusyInv => BusyInv'
    BY <1>3, <1>8, InputsStay DEF BusyInv
  <2>2. WatchInv => WatchInv'
    BY <1>1, <1>4, InputsStay DEF WatchInv
  <2> QED BY <1>0, <2>1, <2>2 DEF Told
<1>13. DesktopInv'
  <2>1. Landing' = Landing
    BY <1>1, <1>9 DEF Landing
  <2>2. Landed' = Landed
    BY <1>1, <2>1 DEF Landed, Clip
  <2> QED BY <1>1, <2>2 DEF Calm, DesktopInv, Clip
<1>14. EchoInv'
  <2>1. \A d \in Conns : pc'[d] # "dedup"
    <3>1. \A d \in Conns : d # c => ~Waits(d)
      BY <1>3 DEF Calm, HandsInv
    <3> QED BY <1>9, <3>1 DEF Waits
  <2>2. Came(lastBroadcast, {"client"}, Len(inputs))'
    BY <1>3, <1>4, <1>5 DEF Came, Clip
  <2> QED BY <1>1, <1>3, <2>1, <2>2 DEF Calm, EchoInv, Came, Clip
<1>15. NewInv'
  BY <1>3, <1>9 DEF Calm, NewInv
<1>16. ASSUME Told PROVE ClientsInv'
  <2>1. ASSUME NEW d, OnTheWay(d) PROVE OnTheWay(d)'
    <3>1. CASE run = "fire"
      BY <1>1, <3>1 DEF OnTheWay
    <3>2. ASSUME NEW p \in H!Threads, p # d, pc[p] \in {"dedup", "apply", "relay"} PROVE OnTheWay(d)'
      <4>1. pc'[p] \in {"dedup", "apply", "relay"}
        BY <1>8, <1>9, <3>2
      <4> QED BY <3>2, <4>1 DEF OnTheWay
    <3>3. ASSUME NEW p \in H!Threads, d \in todo, pc[p] = "send" PROVE OnTheWay(d)'
      <4>1. pc'[p] = "send"
        BY <1>3, <1>8, <3>3
      <4> QED BY <1>3, <3>3, <4>1 DEF OnTheWay
    <3> QED BY <1>4, <2>1, <3>1, <3>2, <3>3 DEF OnTheWay
  <2> QED BY <1>3, <1>16, <2>1, InputsStay DEF Told, ClientsInv
<1> QED BY <1>0, <1>10, <1>11, <1>12, <1>13, <1>14, <1>15, <1>16 DEF Calm, Told

\* The clipboard reads as one content, whoever placed it.
LEMMA OneReading ==
    ASSUME WP!RemoteIsShown, CopiesReadAsOne, WriteInv, OwnInv
    PROVE  Read(Backend, clipboard) = {Shown}
<1>1. \E c : Read(Backend, clipboard) = {c}
  <2>1. CASE owner = "user"
    BY <2>1 DEF OwnInv, CopiesReadAsOne
  <2>2. CASE owner # "user" /\ clipMu = "write"
    BY <2>2, WrittenReadsBack DEF OwnInv, WriteInv
  <2>3. CASE owner # "user" /\ clipMu # "write"
    BY <2>3 DEF OwnInv
  <2> QED BY <2>1, <2>2, <2>3
<1> QED BY <1>1 DEF Shown

\* The watcher disturbs nothing on its way to the desktop, and while its reads
\* are sound it tells a clip that it has not compared, and no other.
LEMMA WatchKeeps ==
    ASSUME WP!RemoteIsShown, OneInv, Calm, UNCHANGED <<inputs, calm>>, Watching
    PROVE  Calm'
<1>0. /\ H!TypeOK /\ (\A c \in Conns : c \in H!Threads /\ c # Watch) /\ Watch # Api
      /\ \A p \in H!Threads : p \in Conns \/ p = Watch \/ p = Api
  BY OneHub, DaemonAssumption DEF OneInv, PartsInv, H!Threads, H!Locals, DaemonAssumption
<1>1. \/ Report
      \/ /\ HubStays /\ UNCHANGED <<writer, unwritten>>
         /\ \/ (W!SnapshotList \/ W!Tick \/ W!CheckList \/ W!CheckDecide) /\ UNCHANGED sound
            \/ (W!Snapshot \/ W!CheckRead) /\ sound' = (sound /\ seen'.whole)
  BY DEF Watching, Snapshot, Tick, CheckList, CheckRead, CheckDecide, Watches
<1>2. Sure' => Told
  BY <1>1 DEF Report, Calm, Sure
<1>3. /\ UNCHANGED <<clipboard, pending, skipHash, up, clients, todo, lastBroadcast, lastIn, shows, unwritten>>
      /\ (clipMu' = "write") = (clipMu = "write") /\ Shown' = Shown
      /\ \A c \in Conns : pc'[c] = pc[c] /\ work'[c] = work[c]
  <2>1. CASE Report
    <3>1. UNCHANGED <<clipboard, pending, skipHash, clipMu>>
      BY <2>1 DEF Report, W!OnChange, W!desktop, W!writer, W!hashes
    <3>2. /\ pc' = [pc EXCEPT ![Watch] = "relay"] /\ work' = [work EXCEPT ![Watch] = seen.content]
          /\ UNCHANGED <<up, clients, todo, lastBroadcast, lastIn, shows, unwritten>>
      BY <2>1 DEF Report, H!Report, H!LocalStart, H!registry, H!echo
    <3> QED BY <1>0, <3>1, <3>2 DEF Shown, H!TypeOK
  <2>2. CASE HubStays /\ UNCHANGED unwritten
    <3>1. UNCHANGED <<clipboard, pending, skipHash>> /\ (clipMu' = "write") = (clipMu = "write")
      <4>1. CASE Report
        BY <4>1 DEF Report, W!OnChange, W!desktop, W!writer, W!hashes
      <4> QED BY <1>1, <4>1
        DEF W!SnapshotList, W!Snapshot, W!Tick, W!CheckList, W!List, W!CheckRead,
            W!CheckDecide, W!desktop, W!writer, W!hashes, OneInv, WriteInv
    <3> QED BY <2>2, <3>1 DEF HubStays, hub, Shown
  <2> QED BY <1>1, <2>1, <2>2
<1>4. \A c \in Conns : Waits(c)' = Waits(c)
  BY <1>3 DEF Waits
<1>5. DistinctInv' /\ HandsInv' /\ EchoInv' /\ NewInv'
  <2>1. DistinctInv'
    BY <1>3 DEF Calm, DistinctInv, Clip
  <2>2. HandsInv'
    BY <1>3, <1>4, InputsStay DEF Calm, HandsInv
  <2>3. EchoInv'
    BY <1>3 DEF Calm, EchoInv, Came, Clip
  <2>4. NewInv'
    BY <1>3 DEF Calm, NewInv
  <2> QED BY <2>1, <2>2, <2>3, <2>4
<1>6. DesktopInv'
  <2>1. Landed' = Landed
    BY <1>3, <1>4 DEF Landed, Landing, Clip
  <2> QED BY <1>3, <2>1 DEF Calm, DesktopInv, Clip
<1>7. ASSUME Report, Told PROVE Told'
  <2>1. /\ run = "fire" /\ run' = "select" /\ seen.content = Newest.clip /\ Quiet
        /\ Newest.via \in {"start", "user"}
    BY <1>7 DEF Report, W!OnChange, Told, WatchInv
  <2>2. /\ Watch \in H!Threads /\ pc[Watch] = "idle" /\ pc' = [pc EXCEPT ![Watch] = "relay"]
        /\ work' = [work EXCEPT ![Watch] = Newest.clip]
    BY <1>7, <2>1 DEF Report, H!Report, H!LocalStart, H!Threads, H!Locals
  <2>3. UNCHANGED <<clipMu, lastHash>> /\ clipMu # "write" /\ lastHash = hashContent(Shown)
    <3>1. UNCHANGED <<clipMu, lastHash>>
      BY <1>7 DEF Report, W!OnChange, W!hashes
    <3>2. clipMu # "write"
      BY <2>1 DEF Calm, HandsInv
    <3> QED BY <1>7, <2>1, <3>1, <3>2 DEF Told, WatchInv, Unreported
  <2>4. /\ \A p \in H!Threads : H!Busy(p)' => p = Watch
        /\ pc'[Watch] = "relay" /\ work'[Watch] = Newest.clip
    BY <1>0, <2>1, <2>2 DEF Quiet, H!TypeOK, H!Busy
  <2>5. BusyInv'
    BY <1>0, <2>1, <2>4, InputsStay DEF BusyInv
  <2>6. WatchInv'
    BY <1>3, <2>1, <2>3 DEF WatchInv
  <2>7. ClientsInv'
    <3>1. \A c \in clients : OnTheWay(c)'
      BY <1>0, <2>2, <2>4 DEF OnTheWay, H!TypeOK
    <3> QED BY <1>3, <2>1, <3>1, InputsStay DEF ClientsInv, Spread
  <2> QED BY <2>5, <2>6, <2>7 DEF Told
<1>8. ASSUME HubStays, Told, Sure',
             \/ (W!SnapshotList \/ W!Tick \/ W!CheckList \/ W!CheckDecide) /\ UNCHANGED sound
             \/ (W!Snapshot \/ W!CheckRead) /\ sound' = (sound /\ seen'.whole)
      PROVE  Told'
  <2> DEFINE Telling == Unreported \/ run = "fire"
  <2>1. UNCHANGED <<pc, work, shows>> /\ UNCHANGED <<Newest, Quiet>>
    BY <1>8, InputsStay DEF HubStays, hub, Quiet, H!Busy
  <2>2. /\ WatchInv'
        /\ Telling => Telling' \/ \A c \in Conns : shows[c] = NoHash
    <3>1. CASE W!Tick
      <4>1. run = "select" /\ run' = "check" /\ UNCHANGED <<lastHash, clipMu>>
        BY <3>1 DEF W!Tick, W!hashes
      <4>2. Unreported' = Unreported
        BY <1>3, <2>1, <4>1 DEF Unreported
      <4> QED BY <1>3, <1>8, <2>1, <4>1, <4>2 DEF Told, WatchInv
    <3>2. CASE W!SnapshotList \/ W!CheckList
      <4>1. /\ (run = "init" /\ run' = "first") \/ (run = "check" /\ run' = "read")
            /\ UNCHANGED lastHash
        BY <3>2 DEF W!SnapshotList, W!CheckList, W!List, W!hashes
      <4>2. Unreported' = Unreported
        BY <1>3, <2>1, <4>1 DEF Unreported
      <4> QED BY <1>3, <1>8, <2>1, <4>1, <4>2 DEF Told, WatchInv
    <3>3. ASSUME NEW c, seen' = W!Seen(c), seen'.whole PROVE c = Shown
      <4>1. c \in W!Read(Backend, clipboard)
        BY <3>3 DEF W!Seen, W!Readable
      <4>2. Read(Backend, clipboard) = {Shown}
        BY <1>8, OneReading DEF Sure, OneInv
      <4> QED BY <4>1, <4>2, SameContents
    <3>4. CASE W!Snapshot
      <4>1. run = "first" /\ run' = "select" /\ (\A c \in Conns : shows[c] = NoHash) /\ clipMu' # "write"
        BY <1>8, <3>4 DEF W!Snapshot, Told, WatchInv
      <4>2. PICK c \in W!Fetched : seen' = W!Seen(c) /\ lastHash' = W!hashContent(c)
        BY <3>4 DEF W!Snapshot
      <4>3. seen'.whole
        BY <1>8, <3>4, <4>1 DEF Sure, W!SnapshotList, W!Tick, W!CheckList, W!List, W!CheckDecide
      <4>4. lastHash' = hashContent(Shown)
        BY <3>3, <4>2, <4>3, SameContents
      <4> QED BY <1>3, <4>1, <4>4 DEF WatchInv
    <3>5. CASE W!CheckRead
      <4>1. run = "read" /\ run' = "decide" /\ UNCHANGED <<lastHash, clipMu>>
        BY <3>5 DEF W!CheckRead, W!hashes
      <4>2. PICK c \in W!Fetched : seen' = W!Seen(c)
        BY <3>5 DEF W!CheckRead
      <4>3. seen'.whole
        BY <1>8, <3>5, <4>1 DEF Sure, W!SnapshotList, W!Tick, W!CheckList, W!List, W!CheckDecide
      <4>4. seen'.content = Shown
        BY <3>3, <4>2, <4>3 DEF W!Seen
      <4>5. Unreported' = Unreported
        BY <1>3, <2>1, <4>1 DEF Unreported
      <4> QED BY <1>3, <1>8, <2>1, <4>1, <4>4, <4>5 DEF Told, WatchInv
    <3>6. CASE W!CheckDecide
      <4>1. /\ run = "decide" /\ seen.content = Shown /\ seen' = seen /\ lastHash' = hashContent(Shown)
            /\ run' = IF lastHash # hashContent(Shown) /\ skipHash # hashContent(Shown) THEN "fire" ELSE "select"
        BY <1>8, <3>6, SameContents DEF W!CheckDecide, W!Fires, Told, WatchInv
      <4>2. clipMu # "write"
        BY <4>1 DEF OneInv, WriteInv
      <4>3. CASE Unreported
        BY <1>3, <2>1, <4>1, <4>2, <4>3 DEF Unreported, WatchInv
      <4>4. CASE ~Unreported
        <5>1. lastHash = hashContent(Shown)
          BY <1>8, <4>2, <4>4 DEF Told, WatchInv
        <5> QED BY <1>3, <4>1, <4>2, <4>4, <5>1 DEF WatchInv
      <4> QED BY <4>3, <4>4
    <3> QED BY <1>8, <3>1, <3>2, <3>4, <3>5, <3>6
  <2>3. BusyInv'
    BY <1>8, <2>1 DEF Told, BusyInv, H!Busy
  <2>4. ClientsInv'
    <3> SUFFICES ASSUME NEW c \in clients, up[c], shows[c] # NoHash, Spread, OnTheWay(c)
                 PROVE  OnTheWay(c)'
      BY <1>3, <1>8, InputsStay DEF Told, ClientsInv
    <3>1. c \in Conns
      BY <1>0 DEF H!TypeOK
    <3>2. CASE Telling
      BY <2>2, <3>1, <3>2 DEF OnTheWay
    <3>3. CASE ~Telling
      BY <1>3, <2>1, <3>3 DEF OnTheWay
    <3> QED BY <3>2, <3>3
  <2> QED BY <2>2, <2>3, <2>4 DEF Told
<1> QED BY <1>1, <1>2, <1>5, <1>6, <1>7, <1>8 DEF Calm

\* A clip that is written, or fails to be, goes on to be relayed.
LEMMA ApplyKeeps ==
    ASSUME WP!RemoteIsShown, OneInv, Calm, UNCHANGED <<inputs, calm>>,
           NEW c \in Conns, Write(c) \/ WriteFails(c)
    PROVE  Calm'
<1>0. Sure' => Told
  BY DEF Write, WriteFails, Calm, Sure
<1>1. /\ H!TypeOK /\ \A d \in Conns : d \in H!Threads
      /\ Len(inputs) \in 1..Len(inputs) /\ Clip(Len(inputs)) = Newest.clip
  BY OneHub DEF OneInv, PartsInv, H!Threads, InputsInv, Calm, DistinctInv, Newest, Clip
<1>2. /\ pc[c] = "apply" /\ H!Busy(c) /\ Waits(c) /\ clipMu = "free"
      /\ UNCHANGED <<run, listed, seen, lastHash, skipHash, work, up, clients, todo, lastBroadcast, lastIn, shows>>
  BY DEF Write, WriteFails, W!WriteClip, W!WriteFails, W!thread, W!hashes, HubStays, hub, H!Apply,
         H!registry, H!echo, H!Busy, Waits
<1>3. /\ work[c] = Newest.clip /\ work[c] \in H!RemoteClips
      /\ Newest.via = "client" /\ Newest.clip \notin unwritten
      /\ \A d \in Conns : Waits(d) => d = c
  BY <1>1, <1>2 DEF Calm, HandsInv, OneInv, PartsInv, HandledInv
<1>4. ~Quiet /\ ~Unreported /\ Landing /\ run \notin {"first", "read", "decide"}
  BY <1>1, <1>2 DEF Quiet, Unreported, OneInv, WriteInv, Landing
<1>5. Told => /\ run \notin {"init", "first", "read", "decide", "fire"} /\ lastHash = hashContent(Shown)
              /\ \A p \in H!Threads : H!Busy(p) => p = c
  BY <1>1, <1>2, <1>4 DEF Told, WatchInv, BusyInv
<1>6. CASE Write(c)
  <2>1. /\ clipMu' = "write" /\ pending' = Newest.clip /\ clipboard' = Written(Newest.clip)
        /\ UNCHANGED <<pc, unwritten>> /\ CanWrite(Backend, Newest.clip)
    BY <1>3, <1>6, SameContents
    DEF Write, W!WriteClip, W!SetClipboard, W!CanWrite, CanWrite, HubStays, hub
  <2>2. Shown' = Newest.clip
    <3>1. Read(Backend, Written(Newest.clip)) = {Newest.clip}
      BY <1>3, <2>1, WrittenReadsBack
    <3> QED BY <2>1, <3>1 DEF Shown
  <2>3. DistinctInv' /\ HandsInv' /\ EchoInv' /\ NewInv'
    <3>1. DistinctInv'
      BY <2>1 DEF Calm, DistinctInv, Clip
    <3>2. HandsInv'
      BY <1>2, <1>3, <2>1, InputsStay DEF Calm, HandsInv, Waits
    <3>3. EchoInv' /\ NewInv'
      BY <1>2, <2>1 DEF Calm, EchoInv, Came, Clip, NewInv
    <3> QED BY <3>1, <3>2, <3>3
  <2>4. DesktopInv'
    <3>1. Len(inputs) \in Landed' /\ \A j \in Landed' : j <= Len(inputs)
      BY <1>1, <1>3, <2>1 DEF Landed, Landing, Clip, Newest
    <3> QED BY <1>1, <2>2, <3>1 DEF DesktopInv, Clip
  <2>5. ASSUME Told PROVE Told'
    <3>1. BusyInv'
      BY <1>2, <2>1, <2>5, InputsStay DEF Told, BusyInv, H!Busy
    <3>2. WatchInv'
      BY <1>2, <1>5, <2>1, <2>5 DEF WatchInv
    <3>3. ASSUME NEW d, OnTheWay(d) PROVE OnTheWay(d)'
      BY <1>2, <1>4, <2>1, <3>3 DEF OnTheWay
    <3>4. ClientsInv'
      BY <1>2, <2>5, <3>3, InputsStay DEF Told, ClientsInv
    <3> QED BY <3>1, <3>2, <3>4 DEF Told
  <2> QED BY <1>0, <2>3, <2>4, <2>5 DEF Calm
<1>7. CASE WriteFails(c)
  <2>1. /\ UNCHANGED <<clipboard, clipMu, pending>> /\ Shown' = Shown
        /\ pc' = [pc EXCEPT ![c] = "relay"] /\ unwritten' = unwritten \cup {Newest.clip}
    BY <1>3, <1>7 DEF WriteFails, W!WriteFails, W!desktop, H!Apply, Shown
  <2>2. /\ \A p \in H!Threads : H!Busy(p)' = H!Busy(p) /\ (p # c => pc'[p] = pc[p])
        /\ pc'[c] = "relay"
    BY <1>1, <1>2, <2>1 DEF H!TypeOK, H!Busy
  <2>3. \A d \in Conns : ~Waits(d)' /\ pc[d] # "dedup" /\ pc'[d] # "dedup"
    BY <1>1, <1>2, <1>3, <2>2 DEF Waits
  <2>4. DistinctInv' /\ HandsInv'
    <3>1. DistinctInv'
      BY <1>1, <2>1 DEF Calm, DistinctInv, Clip
    <3>2. HandsInv'
      BY <1>2, <2>1, <2>3 DEF HandsInv
    <3> QED BY <3>1, <3>2
  <2>5. DesktopInv'
    <3>1. Landed' = Landed
      <4>1. ASSUME NEW i \in 1..Len(inputs)
            PROVE  i < Len(inputs) <=> Clip(i) # Newest.clip
        BY <1>1, <4>1 DEF Calm, DistinctInv
      <4>2. Landed = {i \in 1..Len(inputs) : /\ inputs[i].via # "api"
                                             /\ Clip(i) \notin unwritten /\ i < Len(inputs)}
        BY <1>4 DEF Landed
      <4>3. Landed' = {i \in 1..Len(inputs) : inputs[i].via # "api" /\ Clip(i) \notin unwritten'}
        BY <2>3 DEF Landed, Landing, Clip
      <4> QED BY <2>1, <4>1, <4>2, <4>3
    <3> QED BY <2>1, <3>1 DEF Calm, DesktopInv, Clip
  <2>6. EchoInv'
    <3>1. Came(lastBroadcast, {"client"}, Len(inputs))
      BY <2>3 DEF Calm, EchoInv
    <3> QED BY <1>2, <2>3, <3>1 DEF Calm, EchoInv, Came, Clip
  <2>7. NewInv'
    BY <1>1, <1>2, <2>2 DEF Calm, NewInv
  <2>8. ASSUME Told PROVE Told'
    <3>1. BusyInv'
      BY <1>2, <2>2, <2>8, InputsStay DEF Told, BusyInv
    <3>2. WatchInv'
      BY <1>2, <1>5, <2>1, <2>8 DEF WatchInv
    <3>3. ASSUME NEW d, OnTheWay(d) PROVE OnTheWay(d)'
      <4>1. c # d
        BY <1>2, <1>4, <1>5, <2>8, <3>3 DEF OnTheWay, H!Busy
      <4> QED BY <1>1, <2>2, <4>1 DEF OnTheWay
    <3>4. ClientsInv'
      BY <1>2, <2>8, <3>3, InputsStay DEF Told, ClientsInv
    <3> QED BY <3>1, <3>2, <3>4 DEF Told
  <2> QED BY <1>0, <2>4, <2>5, <2>6, <2>7, <2>8 DEF Calm
<1> QED BY <1>6, <1>7

\* What was written is marked, so it is neither reported nor mistaken.
LEMMA MarkKeeps ==
    ASSUME WP!RemoteIsShown, OneInv, Calm, UNCHANGED <<inputs, calm>>,
           (\E c \in Conns : Mark(c)) \/ (\E q \in Peers : PeerMark(q))
    PROVE  Calm'
<1>0. Sure' => Told
  BY DEF Mark, PeerMark, Calm, Sure
<1>1. /\ H!TypeOK /\ \A d \in Conns : d \in H!Threads
      /\ Len(inputs) \in 1..Len(inputs) /\ Clip(Len(inputs)) = Newest.clip
  BY OneHub DEF OneInv, PartsInv, H!Threads, InputsInv, Calm, DistinctInv, Newest, Clip
<1>2. /\ clipMu = "write" /\ clipMu' = "free"
      /\ skipHash' = hashContent(pending) /\ lastHash' = hashContent(pending)
      /\ UNCHANGED <<clipboard, pending, run, listed, seen, work, up, clients, todo,
                     lastBroadcast, lastIn, shows, unwritten>>
      /\ \/ \E c \in Conns : writer = c /\ H!Apply(c)
         \/ writer \notin Conns /\ UNCHANGED pc
  <2>1. W!WriteMark
    BY DEF Mark, PeerMark
  <2>2. /\ clipMu = "write" /\ clipMu' = "free"
        /\ skipHash' = hashContent(pending) /\ lastHash' = hashContent(pending)
        /\ UNCHANGED <<clipboard, pending, run, listed, seen>>
    BY <2>1, SameContents DEF W!WriteMark, W!desktop, W!writer, W!thread
  <2>3. CASE \E c \in Conns : Mark(c)
    BY <2>2, <2>3 DEF Mark, H!Apply, H!registry, H!echo
  <2>4. CASE \E q \in Peers : PeerMark(q)
    BY <2>2, <2>4, DaemonAssumption DEF PeerMark, HubStays, hub, DaemonAssumption
  <2> QED BY <2>3, <2>4
<1>3. /\ Newest.clip = pending /\ clipboard = Written(pending) /\ Newest.via \in {"client", "peer"}
      /\ pending \in H!RemoteClips /\ CanWrite(Backend, pending)
      /\ run \notin {"first", "read", "decide"} /\ ~Unreported
      /\ Told => run \notin {"init", "first", "read", "decide", "fire"}
  BY <1>2 DEF Calm, HandsInv, Told, WatchInv, OneInv, WriteInv, Unreported
<1>4. Shown = Newest.clip /\ Shown' = Shown
  <2>1. Read(Backend, clipboard) = {Newest.clip}
    BY <1>3, WrittenReadsBack
  <2> QED BY <1>2, <2>1 DEF Shown
<1>5. /\ \A p \in H!Threads : /\ H!Busy(p)' = H!Busy(p)
                              /\ pc'[p] = pc[p] \/ (Newest.via = "client" /\ pc[p] = "apply" /\ pc'[p] = "relay")
      /\ \A d \in Conns : ~Waits(d)'
  <2>1. CASE \E c \in Conns : writer = c /\ H!Apply(c)
    <3>1. PICK c \in Conns : /\ pc[c] = "apply" /\ pc' = [pc EXCEPT ![c] = "relay"]
      BY <2>1 DEF H!Apply
    <3>2. Waits(c) /\ Newest.via = "client" /\ \A d \in Conns : d # c => ~Waits(d)
      BY <3>1 DEF Calm, HandsInv, Waits
    <3>3. \A p \in H!Threads : /\ H!Busy(p)' = H!Busy(p)
                               /\ pc'[p] = pc[p] \/ (p = c /\ pc'[p] = "relay")
      BY <1>1, <3>1 DEF H!TypeOK, H!Busy
    <3>4. \A d \in Conns : ~Waits(d)'
      BY <1>1, <3>1, <3>2 DEF H!TypeOK, Waits
    <3> QED BY <3>1, <3>2, <3>3, <3>4
  <2>2. CASE writer \notin Conns /\ UNCHANGED pc
    <3>1. PICK i \in 1..Len(inputs) : inputs[i].via = "peer" /\ Clip(i) = pending
      BY <1>2, <2>2 DEF OneInv, WriteInv
    <3>2. i = Len(inputs)
      BY <1>1, <1>3, <3>1 DEF Calm, DistinctInv
    <3>3. \A d \in Conns : ~Waits(d)
      BY <3>1, <3>2 DEF Newest, Calm, HandsInv
    <3> QED BY <2>2, <3>3 DEF H!Busy, Waits
  <2> QED BY <1>2, <2>1, <2>2
<1>6. DistinctInv'
  BY <1>2 DEF Calm, DistinctInv, Clip
<1>7. HandsInv'
  BY <1>2, <1>5 DEF HandsInv
<1>9. DesktopInv'
  <2>1. ~Landing /\ ~Landing'
    BY <1>2, <1>5 DEF Landing
  <2>2. Landed' = Landed
    BY <1>2, <2>1 DEF Landed, Clip
  <2> QED BY <1>4, <2>2 DEF Calm, DesktopInv, Clip
<1>10. EchoInv'
  <2>1. Came(skipHash, {"client", "peer"}, Len(inputs))'
    BY <1>1, <1>2, <1>3 DEF Came, Clip, Newest
  <2>2. \A d \in Conns : pc'[d] # "dedup"
    BY <1>5 DEF Waits
  <2>3. Came(lastBroadcast, {"client"}, Len(inputs))
    <3>1. CASE \E d \in Conns : pc[d] = "dedup"
      <4>1. Came(lastBroadcast, {"client"}, Len(inputs) - 1) /\ Len(inputs) \in Nat
        BY <3>1 DEF Calm, EchoInv, OneInv, InputsInv
      <4> QED BY <4>1 DEF Came
    <3>2. CASE ~\E d \in Conns : pc[d] = "dedup"
      BY <3>2 DEF Calm, EchoInv
    <3> QED BY <3>1, <3>2
  <2> QED BY <1>2, <2>1, <2>2, <2>3 DEF Calm, EchoInv, Came, Clip
<1>11. NewInv'
  BY <1>1, <1>2, <1>5 DEF Calm, NewInv
<1>12. ASSUME Told PROVE Told'
  <2>1. BusyInv'
    BY <1>2, <1>5, <1>12, InputsStay DEF Told, BusyInv
  <2>2. WatchInv'
    BY <1>2, <1>3, <1>4, <1>12 DEF WatchInv
  <2>3. ASSUME NEW d, OnTheWay(d) PROVE OnTheWay(d)'
    <3>1. \A p \in H!Threads : \A state \in {"relay", "send"} : pc[p] = state => pc'[p] = state
      BY <1>5
    <3>2. \A p \in H!Threads : pc[p] \in {"dedup", "apply"} => pc'[p] \in {"dedup", "apply", "relay"}
      BY <1>5
    <3> QED BY <1>2, <1>3, <2>3, <3>1, <3>2 DEF OnTheWay
  <2>4. ClientsInv'
    BY <1>2, <1>12, <2>3, InputsStay DEF Told, ClientsInv
  <2> QED BY <2>1, <2>2, <2>4 DEF Told
<1> QED BY <1>0, <1>6, <1>7, <1>9, <1>10, <1>11, <1>12 DEF Calm

LEMMA CalmInit == Init => OneInv /\ Calm
<1> SUFFICES ASSUME Init PROVE OneInv /\ Calm
  OBVIOUS
<1>0. NoHash = H!NoHash
  BY DEF NoHash, H!NoHash, Hash, H!Hash, NoMime, H!NoMime
<1>1. OneInv
  BY PartsInit, SentInit DEF SentInv, OneInv
<1>2. /\ clipMu = "free" /\ run = "init" /\ lastHash = NoHash /\ skipHash = NoHash
      /\ pc = [p \in H!Threads |-> IF p \in Conns THEN "new" ELSE "idle"]
      /\ clients = {} /\ todo = {} /\ unwritten = {} /\ shows = [c \in Conns |-> NoHash]
      /\ lastBroadcast = NoHash /\ lastIn = [c \in Conns |-> NoHash]
  BY <1>0, SameContents DEF Init, W!Init, H!Init
<1>3. /\ Len(inputs) = 1 /\ Newest.via = "start" /\ Newest.clip = Shown
      /\ Clip(1) = Shown /\ inputs[1].via = "start"
  BY DEF Init, Newest, Clip, Input
<1>4. Quiet /\ \A c \in Conns : ~Waits(c) /\ c \in H!Threads
  BY <1>2 DEF Quiet, H!Busy, Waits, H!Threads
<1>5. DistinctInv /\ HandsInv /\ BusyInv
  BY <1>2, <1>3, <1>4 DEF DistinctInv, HandsInv, BusyInv, Quiet
<1>6. WatchInv
  BY <1>2, <1>3, <1>4, HashesAreSet DEF WatchInv, Unreported
<1>7. DesktopInv
  <2>1. 1 \in Landed /\ \A j \in Landed : j <= 1
    BY <1>2, <1>3, <1>4 DEF Landed, Landing
  <2> QED BY <1>3, <2>1 DEF DesktopInv
<1>8. EchoInv /\ ClientsInv
  BY <1>2 DEF EchoInv, Came, ClientsInv
<1>9. NewInv
  <2>1. NoHash \in H!Keys
    BY <1>0 DEF H!Keys
  <2> QED BY <1>2, <2>1 DEF NewInv
<1> QED BY <1>1, <1>5, <1>6, <1>7, <1>8, <1>9 DEF Calm, Told

LEMMA CalmStep ==
    ASSUME WP!RemoteIsShown, ApiIsSound, OneInv, calm => Calm, [Next]_vars
    PROVE  OneInv' /\ (calm' => Calm')
<1>1. OneInv'
  BY PartsStep, InputsGrow, WriteStep, OwnStep DEF OneInv
<1>2. H!TypeOK
  BY OneHub DEF OneInv, PartsInv
<1>3. ASSUME calm', NEW x \in H!Clips, NEW via \in Sources, Entering(x, via) PROVE Calm'
  <2>1. calm
    BY <1>3, EnteringDoes, EntersCalm DEF OneInv
  <2> QED BY <1>3, <2>1, EntersKeeps
<1>4. ASSUME calm', UNCHANGED <<inputs, calm>>,
             \/ Watching \/ (\E c \in Conns : LocalWrite(c)) \/ (\E q \in Peers : PeerMark(q))
             \/ /\ WatcherStays
                /\ \/ UNCHANGED shows /\ \E c \in Conns : H!Dedup(c)
                   \/ \E p \in H!Threads :
                        \/ UNCHANGED shows /\ (H!DropBig(p) \/ H!Begin(p) \/ H!Finish(p))
                        \/ \E t \in H!Targets :
                             \/ UNCHANGED shows /\ (H!Skip(p, t) \/ H!WriteFails(p, t))
                             \/ Deliver(p, t)
             \/ Still
      PROVE  Calm'
  <2>0. Calm
    BY <1>4
  <2>1. CASE Watching
    BY <1>4, <2>0, <2>1, WatchKeeps
  <2>2. CASE \E c \in Conns : LocalWrite(c)
    BY <1>4, <2>0, <2>2, ApplyKeeps, MarkKeeps DEF LocalWrite
  <2>3. CASE \E q \in Peers : PeerMark(q)
    BY <1>4, <2>0, <2>3, MarkKeeps
  <2>4. CASE WatcherStays /\ UNCHANGED shows /\ \E c \in Conns : H!Dedup(c)
    BY <1>4, <2>0, <2>4, DedupKeeps
  <2>5. ASSUME WatcherStays, NEW p \in H!Threads,
               \/ UNCHANGED shows /\ (H!DropBig(p) \/ H!Begin(p) \/ H!Finish(p))
               \/ \E t \in H!Targets :
                    \/ UNCHANGED shows /\ (H!Skip(p, t) \/ H!WriteFails(p, t))
                    \/ Deliver(p, t)
        PROVE  Calm'
    <3>1. \/ UNCHANGED shows /\ (H!DropBig(p) \/ H!Begin(p) \/ H!Finish(p))
          \/ \E t \in H!Targets : Deliver(p, t) \/ (UNCHANGED shows /\ (H!Skip(p, t) \/ H!WriteFails(p, t)))
      BY <2>5
    <3> QED BY <1>4, <2>0, <2>5, <3>1, BroadcastKeeps
  <2>6. CASE Still
    BY <1>4, <2>0, <2>6, StillKeeps
  <2> QED BY <1>4, <2>1, <2>2, <2>3, <2>4, <2>5, <2>6
<1> QED BY <1>1, <1>2, <1>3, <1>4, Moves

\* Clips that come one at a time and never repeat get everywhere, for every
\* number of clients and peers: while all reads are sound, a settled daemon's
\* clients show the newest clip meant for them, of the user, the clients or the
\* API (handlers.go:115-145, server.go:191-239, broadcast.go:14-18), if the
\* clips delivered read back as they were written and each copy of the user
\* reads as one content.  While a clip is under way it is the newest, nobody
\* else is busy, and every hash that could pass it for an echo is of a clip
\* that came before.
THEOREM ClientsGetTheNewest ==
    ASSUME WP!RemoteIsShown, ApiIsSound, CopiesReadAsOne
    PROVE  Spec => []ClientsAgree
<1>1. OneInv /\ (calm => Calm) /\ [Next]_vars => (OneInv /\ (calm => Calm))'
  BY CalmStep
<1>2. OneInv /\ (calm => Calm) => ClientsAgree
  <2> SUFFICES ASSUME OneInv, Calm, Told, Settled, NEW c \in clients, up[c], shows[c] # NoHash
               PROVE  \E i \in MeantTo(c) : shows[c] = hashContent(Clip(i)) /\ \A j \in MeantTo(c) : j <= i
    BY DEF ClientsAgree, MeantTo, Calm, Sure
  <2>1. ~OnTheWay(c)
    BY DEF Settled, OnTheWay, Unreported, H!Busy
  <2> QED BY <2>1 DEF Told, ClientsInv
<1> QED BY <1>1, <1>2, CalmInit, PTL DEF Spec

\* Likewise the desktop shows the newest clip that was copied there or
\* delivered, unless its write failed (app.go:121-135, watch.go:56-70).  No read
\* that fails, and so no clip that is broadcast for another, keeps it from the
\* desktop, nor that it is too big to be relayed.
THEOREM DesktopShowsTheNewest ==
    ASSUME WP!RemoteIsShown, ApiIsSound
    PROVE  Spec => []DesktopAgrees
<1>1. OneInv /\ (calm => Calm) /\ [Next]_vars => (OneInv /\ (calm => Calm))'
  BY CalmStep
<1>2. OneInv /\ (calm => Calm) => DesktopAgrees
  <2> SUFFICES ASSUME OneInv, Calm, Settled PROVE DesktopAgrees
    BY DEF DesktopAgrees
  <2>1. Quiet /\ ~Landing
    BY DEF Settled, Quiet, Landing, Waits, H!Busy, H!Threads
  <2>2. Landed = {i \in 1..Len(inputs) : inputs[i].via # "api" /\ Clip(i) \notin unwritten}
    BY <2>1 DEF Landed
  <2> QED BY <2>2 DEF Calm, DesktopInv, DesktopAgrees
<1> QED BY <1>1, <1>2, CalmInit, PTL DEF Spec
=============================================================================
