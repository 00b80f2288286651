--------------------------- MODULE WatcherProofs ---------------------------
(* Theorems about Watcher, for every value of its constants. *)
EXTENDS Watcher, TLAPS

----------------------------------------------------------------------------
(* Reading back what was written *)

\* What MsgToContent hands to LocalWrite, provided an image has an image type.
Shown(c) ==
    \/ \E b \in Bodies : c = Text(b)
    \/ \E b \in Bodies, m \in ImageMimes : c = Image(b, m)
RemoteIsShown == \A c \in Remote : Shown(c)

\* A backend that accepted such a content reads it back as it was
\* (linuxClip.Read after linuxClip.Write).
LEMMA ReadsBack ==
    ASSUME NEW c, Shown(c), CanWrite(Backend, c)
    PROVE  Read(Backend, Written(c)) = {c}
<1> USE ContentAssumption DEF ContentAssumption
<1>1. CASE \E b \in Bodies : c = Text(b)
  <2>1. PICK b \in Bodies : c = Text(b)
    BY <1>1
  <2>2. Written(c) = Offer(<<TextMime>>, b)
    BY <2>1 DEF Written, Text
  <2>3. Range(<<TextMime>>) = {TextMime}
    BY DEF Range
  <2>4. chooseImageType(<<TextMime>>) = NoMime
    <3>1. {i \in DOMAIN <<TextMime>> : <<TextMime>>[i] \in ImageMimes} = {}
      BY DEF TextMime
    <3> QED BY <3>1, <2>3 DEF chooseImageType, TextMime, DefaultImageMime
  <2> QED BY <2>1, <2>2, <2>3, <2>4 DEF Read, Listed, Fetch, TextRead, Offer
<1>2. CASE \E b \in Bodies, m \in ImageMimes : c = Image(b, m)
  <2>1. PICK b \in Bodies, m \in ImageMimes : c = Image(b, m)
    BY <1>2
  <2>2. Written(c) = Offer(<<m>>, b) /\ Backend # "xsel"
    BY <2>1 DEF Written, Image, withMime, CanWrite
  <2>3. chooseImageType(<<m>>) = m
    <3> DEFINE images == {i \in DOMAIN <<m>> : <<m>>[i] \in ImageMimes}
    <3>1. images = {1}
      OBVIOUS
    <3>2. (CHOOSE i \in images : \A j \in images : i <= j) = 1
      BY <3>1
    <3>3. Range(<<m>>) = {m}
      BY DEF Range
    <3> QED BY <3>1, <3>2, <3>3 DEF chooseImageType
  <2>4. m # NoMime /\ m \in Range(<<m>>)
    BY DEF Range
  <2> QED BY <2>1, <2>2, <2>3, <2>4 DEF Read, Listed, Fetch, TextRead, Offer
<1> QED BY <1>1, <1>2 DEF Shown

----------------------------------------------------------------------------
(* Types *)

LEMMA TypeInit == Init => TypeOK
<1> SUFFICES ASSUME Init PROVE TypeOK
  OBVIOUS
<1>1. copies \in 1..MaxCopies /\ writes \in 0..MaxWrites /\ reported \in 0..copies
  BY WatcherAssumption DEF Init, WatcherAssumption
<1>2. seen.owner = "user" /\ seen.copy \in 1..copies
  BY <1>1 DEF Init, Seen
<1>3. owner = "user" /\ events = 0 /\ mu = "free" /\ pc = "init"
  BY DEF Init
<1>4. seen.whole \in BOOLEAN /\ listed = NoMime
  BY DEF Init, Seen
<1>5. notify \in BOOLEAN /\ cancelled \in BOOLEAN /\ notifier \in {"on", "dead", "off"}
  BY WatcherAssumption DEF WatcherAssumption, Init
<1> QED BY <1>1, <1>2, <1>3, <1>4, <1>5 DEF TypeOK

LEMMA TypeStep == TypeOK /\ [Next]_vars => TypeOK'
<1> SUFFICES ASSUME TypeOK, [Next]_vars PROVE TypeOK'
  OBVIOUS
<1> USE WatcherAssumption DEF WatcherAssumption, TypeOK, desktop, writer, thread, hashes
<1>1. ASSUME NEW offer \in Copies, UserCopy(offer) PROVE TypeOK'
  BY <1>1 DEF UserCopy, SetClipboard
<1>2. CASE Forward
  BY <1>2 DEF Forward
<1>10. CASE NotifierDies
  BY <1>10 DEF NotifierDies
<1>3. ASSUME NEW c \in Remote, WriteClip(c) PROVE TypeOK'
  BY <1>3 DEF WriteClip, SetClipboard
<1>4. CASE WriteFails \/ WriteMark
  BY <1>4 DEF WriteFails, WriteMark
<1>11. CASE Snapshot
  <2>1. seen'.owner = owner /\ seen'.copy = copies /\ seen'.whole \in BOOLEAN
    BY <1>11 DEF Snapshot, Seen
  <2> QED BY <1>11, <2>1 DEF Snapshot
<1>5. CASE Tick \/ TakeSignal \/ SettleMore
  BY <1>5 DEF Tick, TakeSignal, SettleMore
<1>13. CASE SettleDone \/ Stop \/ Cancel
  BY <1>13 DEF SettleDone, Stop, Cancel
<1>12. CASE SnapshotList \/ CheckList
  BY <1>12 DEF SnapshotList, CheckList, List
<1>6. CASE CheckRead
  <2>1. seen'.owner = owner /\ seen'.copy = copies /\ seen'.whole \in BOOLEAN
    BY <1>6 DEF CheckRead, Seen
  <2> QED BY <1>6, <2>1 DEF CheckRead
<1>7. CASE CheckDecide
  BY <1>7 DEF CheckDecide
<1>8. CASE OnChange
  BY <1>8 DEF OnChange
<1>9. CASE UNCHANGED vars
  BY <1>9 DEF vars
<1> QED BY <1>1, <1>2, <1>3, <1>4, <1>5, <1>6, <1>7, <1>8, <1>9, <1>10, <1>11, <1>12, <1>13
        DEF Next, LocalWrite, Run

\* The variables of the watcher keep their types; a report names a copy that
\* was made.
THEOREM TypeCorrect == Spec => []TypeOK
  BY TypeInit, TypeStep, PTL DEF Spec

----------------------------------------------------------------------------
(* Loop protection *)

\* w.mu is held by Run exactly while it reads and compares.
LockInv == pc \in {"first", "read", "decide"} <=> mu = "watch"

\* Whatever the daemon put on the clipboard is marked in skipHash once w.mu
\* is free, so a read of it never fires.
MarkInv ==
    /\ mu = "write" => pending \in Remote /\ CanWrite(Backend, pending)
    /\ mu = "write" /\ owner = "daemon" => clipboard = Written(pending)
    /\ mu # "write" /\ owner = "daemon" => \A c \in Readable : hashContent(c) = skipHash
    /\ pc = "decide" /\ seen.owner = "daemon" /\ seen.whole => hashContent(seen.content) = skipHash

SelfInv == TypeOK /\ LockInv /\ MarkInv /\ NoSelfReport

LEMMA SelfInit == Init => SelfInv
  BY TypeInit DEF Init, SelfInv, LockInv, MarkInv, NoSelfReport, Seen

LEMMA SelfStep ==
    ASSUME RemoteIsShown, SelfInv, [Next]_vars
    PROVE  SelfInv'
<1>0. TypeOK'
  BY TypeStep DEF SelfInv
<1> USE DEF SelfInv, LockInv, MarkInv, NoSelfReport, Readable
<1>1. ASSUME NEW offer \in Copies, UserCopy(offer) PROVE SelfInv'
  BY <1>0, <1>1 DEF UserCopy, SetClipboard, writer, thread, hashes
<1>2. CASE Forward \/ NotifierDies
  BY <1>0, <1>2 DEF Forward, NotifierDies, writer, thread, hashes
<1>3. ASSUME NEW c \in Remote, WriteClip(c) PROVE SelfInv'
  BY <1>0, <1>3 DEF WriteClip, SetClipboard, thread, hashes
<1>4. CASE WriteFails
  BY <1>0, <1>4 DEF WriteFails, desktop, thread, hashes
<1>5. CASE WriteMark
  <2>1. owner = "daemon" => Read(Backend, clipboard) = {pending}
    BY <1>5, ReadsBack DEF WriteMark, RemoteIsShown
  <2>2. mu = "write" /\ pc \notin {"first", "read", "decide"}
    BY <1>0, <1>5 DEF WriteMark
  <2> QED BY <1>0, <1>5, <2>1, <2>2 DEF WriteMark, desktop, writer, thread
<1>6. CASE Snapshot
  BY <1>0, <1>6 DEF Snapshot, desktop, writer
<1>8. CASE Tick \/ TakeSignal \/ SettleMore \/ SettleDone \/ Stop \/ Cancel
  BY <1>0, <1>8 DEF Tick, TakeSignal, SettleMore, SettleDone, Stop, Cancel,
              desktop, writer, thread, hashes
<1>12. CASE SnapshotList \/ CheckList
  BY <1>0, <1>12 DEF SnapshotList, CheckList, List, desktop, writer, hashes
<1>7. CASE CheckRead
  <2>1. PICK c \in Fetched : seen' = Seen(c)
    BY <1>7 DEF CheckRead
  <2>2. seen'.content = c /\ seen'.owner = owner /\ (seen'.whole <=> c \in Readable)
    BY <2>1 DEF Seen
  <2>3. owner = "daemon" /\ c \in Readable => hashContent(c) = skipHash
    BY <1>7 DEF CheckRead
  <2> HIDE DEF Readable
  <2> QED BY <1>0, <1>7, <2>2, <2>3 DEF CheckRead, desktop, writer, hashes, Readable
<1>9. CASE CheckDecide
  <2>1. LockInv' /\ MarkInv'
    BY <1>9 DEF CheckDecide, desktop, writer
  <2>2. seen.owner # "user" /\ seen.whole => ~Fires(hashContent(seen.content))
    BY <1>9 DEF CheckDecide, Fires, TypeOK
  <2>3. seen' = seen /\ (pc' = "fire" => Fires(hashContent(seen.content)))
    BY <1>9 DEF CheckDecide
  <2>4. NoSelfReport'
    BY <2>2, <2>3
  <2> QED BY <1>0, <2>1, <2>4
<1>10. CASE OnChange
  BY <1>0, <1>10 DEF OnChange, desktop, writer, hashes
<1>11. CASE UNCHANGED vars
  BY <1>0, <1>11 DEF vars, desktop, writer, thread, hashes
<1> QED BY <1>1, <1>2, <1>3, <1>4, <1>5, <1>6, <1>7, <1>8, <1>9, <1>10, <1>11, <1>12
        DEF Next, LocalWrite, Run

\* The watcher never reports what the daemon wrote when it reads it as it is,
\* for any number of copies and writes and whatever failing tools returned
\* before, as long as clients deliver texts and images of an image type
\* (watch.go:18-24, 133-161).  What failing tools make of the daemon's own
\* image may be reported; NoPhantomReport is what denies that, and it fails.
THEOREM LoopProtection == ASSUME RemoteIsShown PROVE Spec => []NoSelfReport
<1>1. SelfInv /\ [Next]_vars => SelfInv'
  BY SelfStep
<1>2. SelfInv => NoSelfReport
  BY DEF SelfInv
<1> QED BY SelfInit, <1>1, <1>2, PTL DEF Spec

----------------------------------------------------------------------------
(* No change is lost *)

\* With nothing signalled and no check on its way, what was compared is
\* still on the clipboard.
CoverInv ==
    notifier = "on" /\ events = 0 /\ ~notify /\ pc \notin {"init", "settle", "check", "done"} =>
      /\ mu # "write"
      /\ pc = "decide" => seen.content \in Comparable
      /\ pc \in {"select", "fire"} => \E c \in Comparable : lastHash = hashContent(c)

\* A read that a copy has torn will be repeated: the copy is signalled.
TornInv ==
    notifier = "on" /\ events = 0 /\ ~notify /\ pc \in {"first", "read"} =>
        listed = Listed(Backend, clipboard)

LostInv == TypeOK /\ LockInv /\ CoverInv /\ TornInv

\* What a read returns that nothing tore is what can be compared after it.
LEMMA FetchedIsComparable ==
    ASSUME NEW c \in Fetched, listed = Listed(Backend, clipboard), seen' = Seen(c),
           UNCHANGED clipboard
    PROVE  c \in Comparable'
<1>1. seen'.whole <=> c \in Readable
  BY DEF Seen
<1>2. c \in Readable \/ c \in Misreadable
  BY DEF Fetched, Readable, Read
<1> QED BY <1>1, <1>2 DEF Comparable, Readable, Misreadable

LEMMA LostStep ==
    ASSUME LostInv, [Next]_vars
    PROVE  LostInv'
<1>1. TypeOK'
  BY TypeStep DEF LostInv
<1> USE DEF LostInv, LockInv, CoverInv, TornInv, Comparable, Misreadable, Readable
<1>2. ASSUME NEW offer \in Copies, UserCopy(offer) PROVE LostInv'
  BY <1>1, <1>2 DEF UserCopy, SetClipboard, thread, TypeOK
<1>3. CASE Forward \/ NotifierDies
  BY <1>1, <1>3 DEF Forward, NotifierDies, thread, TypeOK
<1>4. ASSUME NEW c \in Remote, WriteClip(c) PROVE LostInv'
  BY <1>1, <1>4 DEF WriteClip, SetClipboard, thread, TypeOK
<1>5. CASE WriteFails
  BY <1>1, <1>5 DEF WriteFails, desktop, thread, hashes
<1>6. CASE WriteMark
  BY <1>1, <1>6 DEF WriteMark, desktop, thread
<1>7. CASE Snapshot
  <2>1. PICK c \in Fetched : seen' = Seen(c) /\ lastHash' = hashContent(c)
    BY <1>7 DEF Snapshot
  <2>2. notifier = "on" /\ events = 0 /\ ~notify => c \in Comparable'
    <3>1. UNCHANGED clipboard /\ pc \in {"first", "read"}
      BY <1>7 DEF Snapshot, desktop
    <3>2. notifier = "on" /\ events = 0 /\ ~notify => listed = Listed(Backend, clipboard)
      BY <3>1
    <3> HIDE DEF Comparable, Readable, Misreadable
    <3> QED BY <2>1, <3>1, <3>2, FetchedIsComparable
  <2> QED BY <1>1, <1>7, <2>1, <2>2 DEF Snapshot, desktop
<1>8. CASE Tick \/ TakeSignal \/ SettleMore \/ SettleDone \/ Stop \/ Cancel
  BY <1>1, <1>8 DEF Tick, TakeSignal, SettleMore, SettleDone, Stop, Cancel,
                    desktop, thread, hashes
<1>9. CASE CheckRead
  <2>1. PICK c \in Fetched : seen' = Seen(c)
    BY <1>9 DEF CheckRead
  <2>2. seen'.content = c
    BY <2>1 DEF Seen
  <2>3. notifier = "on" /\ events = 0 /\ ~notify => c \in Comparable'
    <3>1. UNCHANGED clipboard /\ pc \in {"first", "read"}
      BY <1>9 DEF CheckRead, desktop
    <3>2. notifier = "on" /\ events = 0 /\ ~notify => listed = Listed(Backend, clipboard)
      BY <3>1
    <3> HIDE DEF Comparable, Readable, Misreadable
    <3> QED BY <2>1, <3>1, <3>2, FetchedIsComparable
  <2> QED BY <1>1, <1>9, <2>2, <2>3 DEF CheckRead, desktop
<1>14. CASE SnapshotList \/ CheckList
  BY <1>1, <1>14 DEF SnapshotList, CheckList, List, desktop, writer, hashes
<1>11. CASE CheckDecide
  BY <1>1, <1>11 DEF CheckDecide, desktop
<1>12. CASE OnChange
  BY <1>1, <1>12 DEF OnChange, desktop, hashes
<1>13. CASE UNCHANGED vars
  BY <1>1, <1>13 DEF vars, desktop, thread, hashes
<1> QED BY <1>2, <1>3, <1>4, <1>5, <1>6, <1>7, <1>8, <1>9, <1>11, <1>12, <1>13, <1>14
        DEF Next, LocalWrite, Run

\* While the notifier lives, coalesced signals and the settle window lose no
\* change: an idle watcher has compared what is on the clipboard, or what
\* failing tools made of it (watch.go:96-148, notify_linux.go:73-83).
THEOREM ChangesAreSeen == Spec => []NoLostChange
<1>1. Init => LostInv
  BY TypeInit DEF Init, LostInv, LockInv, CoverInv, TornInv
<1>2. LostInv /\ [Next]_vars => LostInv'
  BY LostStep
<1>3. LostInv => NoLostChange
  BY DEF LostInv, CoverInv, NoLostChange, Idle
<1> QED BY <1>1, <1>2, <1>3, PTL DEF Spec

----------------------------------------------------------------------------
(* No copy is reported twice *)

\* Every offer of the user reads as one content.
ReadsAreStable == \A offer \in Copies : \E c : Read(Backend, offer) = {c}

\* The content that every read of a stable offer returns.
ContentOf(offer) == CHOOSE c \in Read(Backend, offer) : TRUE

\* Once a copy is reported, lastHash is its hash for as long as it stays on
\* the clipboard and is read as it is; an older copy that check has read is
\* not reported twice either.
LastInv ==
    /\ pc \in {"init", "first"} => reported = 0
    /\ owner = "user" => clipboard \in Copies
    /\ owner = "user" /\ reported = copies => lastHash = hashContent(ContentOf(clipboard))
    /\ mu = "write" => owner = "daemon" \/ (reported < copies /\ seen.copy < copies)
    /\ pc \in {"decide", "fire"} => seen.copy >= reported
    /\ pc = "fire" /\ ~seen.whole => reported = 0
    /\ pc = "decide" /\ seen.owner = "user" /\ seen.whole /\ seen.copy = reported =>
         lastHash = hashContent(seen.content)
    /\ pc = "decide" /\ owner = "user" /\ seen.copy = copies /\ seen.whole =>
         seen.content = ContentOf(clipboard)
    /\ pc = "fire" /\ owner = "user" /\ seen.copy = copies /\ seen.whole =>
         lastHash = hashContent(ContentOf(clipboard))

OnceInv == TypeOK /\ LockInv /\ LastInv /\ NoDoubleReport

LEMMA StableRead ==
    ASSUME ReadsAreStable, NEW offer \in Copies, NEW c \in Read(Backend, offer)
    PROVE  c = ContentOf(offer)
  BY DEF ReadsAreStable, ContentOf

LEMMA OnceInit == Init => OnceInv
<1> SUFFICES ASSUME Init PROVE OnceInv
  OBVIOUS
<1>1. TypeOK
  BY TypeInit
<1> QED BY <1>1 DEF Init, OnceInv, LockInv, LastInv, NoDoubleReport, Seen

LEMMA OnceStep ==
    ASSUME ReadsAreStable, OnceInv, [Next]_vars
    PROVE  OnceInv'
<1>1. TypeOK'
  BY TypeStep DEF OnceInv
<1> USE <1>1 DEF OnceInv, LockInv, LastInv, NoDoubleReport
<1>2. ASSUME NEW offer \in Copies, UserCopy(offer) PROVE OnceInv'
  BY <1>2 DEF UserCopy, SetClipboard, thread, hashes, TypeOK
<1>3. CASE Forward \/ NotifierDies
  BY <1>3 DEF Forward, NotifierDies, thread, hashes
<1>4. ASSUME NEW c \in Remote, WriteClip(c) PROVE OnceInv'
  BY <1>4 DEF WriteClip, SetClipboard, thread, hashes
<1>5. CASE WriteFails
  BY <1>5 DEF WriteFails, desktop, thread, hashes
<1>6. CASE WriteMark
  BY <1>6 DEF WriteMark, desktop, thread, TypeOK
<1>7. CASE Snapshot
  <2>1. reported = 0 /\ reported < copies
    BY <1>7 DEF Snapshot, TypeOK
  <2>2. mu' = "free" /\ pc' = "select" /\ UNCHANGED <<desktop, reported>>
    BY <1>7 DEF Snapshot
  <2> QED BY <2>1, <2>2 DEF desktop
<1>8. CASE Tick \/ TakeSignal \/ SettleMore \/ SettleDone \/ Stop \/ Cancel
  BY <1>8 DEF Tick, TakeSignal, SettleMore, SettleDone, Stop, Cancel,
              desktop, thread, hashes
<1>14. CASE SnapshotList \/ CheckList
  BY <1>14 DEF SnapshotList, CheckList, List, desktop, writer, hashes
<1>9. CASE CheckRead
  <2>1. PICK c \in Fetched : seen' = Seen(c)
    BY <1>9 DEF CheckRead
  <2>2. /\ seen'.content = c /\ seen'.owner = owner /\ seen'.copy = copies
        /\ seen'.whole <=> c \in Readable
    BY <2>1 DEF Seen
  <2>3. owner = "user" /\ c \in Readable => c = ContentOf(clipboard)
    BY StableRead DEF Readable
  <2> HIDE DEF OnceInv
  <2>5. /\ pc' = "decide" /\ mu = "watch"
        /\ UNCHANGED <<desktop, mu, lastHash, reported>>
    BY <1>9 DEF CheckRead, hashes, OnceInv
  <2> QED BY <2>2, <2>3, <2>5 DEF desktop, TypeOK, OnceInv
<1>11. CASE CheckDecide
  <2>1. (pc' = "fire" => lastHash # hashContent(seen.content)) /\ seen' = seen
        /\ lastHash' = hashContent(seen.content)
        /\ reported' = IF seen.whole THEN reported ELSE 0
    BY <1>11 DEF CheckDecide, Fires
  <2> QED BY <1>11, <2>1 DEF CheckDecide, desktop, TypeOK
<1>12. CASE OnChange
  BY <1>12 DEF OnChange, desktop, hashes, TypeOK
<1>13. CASE UNCHANGED vars
  BY <1>13 DEF vars, desktop, thread, hashes
<1> QED BY <1>2, <1>3, <1>4, <1>5, <1>6, <1>7, <1>8, <1>9, <1>11, <1>12, <1>13, <1>14
        DEF Next, LocalWrite, Run

\* Where each offer of the user reads as one content, a copy is reported again
\* only after a read that did not return what it should, for any number of
\* copies, writes and signals (watch.go:133-148).
THEOREM AtMostOnce == ASSUME ReadsAreStable PROVE Spec => []NoDoubleReport
<1>1. OnceInv /\ [Next]_vars => OnceInv'
  BY OnceStep
<1>2. OnceInv => NoDoubleReport
  BY DEF OnceInv
<1> QED BY OnceInit, <1>1, <1>2, PTL DEF Spec
=============================================================================
