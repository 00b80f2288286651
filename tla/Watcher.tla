------------------------------ MODULE Watcher ------------------------------
(***************************************************************************)
(* clip.Watcher of one daemon, with the desktop clipboard it watches, the  *)
(* notifier goroutine that signals it and the goroutines that call         *)
(* LocalWrite when a client or a peer delivers a clip.                     *)
(*                                                                         *)
(* The user's applications do not take the watcher's mutex: a copy may     *)
(* happen between any two steps of the daemon.                             *)
(***************************************************************************)
EXTENDS Content

CONSTANTS
    Backend,       \* the clipboard tools selectBackend picked
    Copies,        \* the offers the user's applications place
    Remote,        \* the contents clients and peers deliver
    Notifiers,     \* what App.Run may start with: an "on" notifier, or "off" to poll
    ToolsFail,     \* whether the tools that read the clipboard may fail
    MaxCopies,     \* bound on copies by the user
    MaxWrites      \* bound on LocalWrite calls

ASSUME WatcherAssumption ==
    /\ Backend \in Backends
    /\ Notifiers \subseteq {"on", "off"}
    /\ ToolsFail \in BOOLEAN
    /\ MaxCopies \in Nat \ {0} /\ MaxWrites \in Nat

VARIABLES
    clipboard,     \* the offer on the desktop clipboard
    owner,         \* who placed it: "user" or "daemon"
    copies,        \* number of copies the user has made, the first before start
    events,        \* OS change events the notifier goroutine has not read
    notifier,      \* "on", "dead" once it has ended, "off" when the watcher polls
    notify,        \* the notifier's channel of capacity one holds a signal
    mu,            \* holder of w.mu: "free", "watch" or "write"
    pending,       \* the content LocalWrite wrote, while it holds w.mu
    writes,        \* number of LocalWrite calls made
    pc,            \* control state of Run
    listed,        \* the image type found on offer by the read under way
    seen,          \* what was read last: content, who had placed it, at which
                   \* copy, and whether that copy reads so
    lastHash,      \* w.lastHash
    skipHash,      \* w.skipHash
    reported,      \* the copy onChange was last called for, 0 once a read since
                   \* has not returned a copy as it reads
    cancelled      \* ctx is done

desktop == <<clipboard, owner, copies, events, notifier>>
thread == <<pc, listed, seen>>
writer == <<pending, writes>>
hashes == <<lastHash, skipHash>>
vars == <<desktop, notify, mu, writer, thread, hashes, reported, cancelled>>

\* What linuxClip.Read returns of the clipboard as it is, ...
Readable == Read(Backend, clipboard)
\* ... what failing tools make of it, ...
Misreadable == IF ToolsFail THEN Misread(Backend, clipboard) ELSE {}
\* ... and what a read may return that has listed the types: a copy since then
\* tears it.
Fetched == Fetch(Backend, listed, clipboard) \cup Misreadable

Seen(c) == [content |-> c, owner |-> owner, copy |-> copies, whole |-> c \in Readable]

TypeOK ==
    /\ owner \in {"user", "daemon"}
    /\ copies \in 1..MaxCopies
    /\ writes \in 0..MaxWrites
    /\ events \in Nat
    /\ notifier \in {"on", "dead", "off"}
    /\ notify \in BOOLEAN
    /\ mu \in {"free", "watch", "write"}
    /\ pc \in {"init", "first", "select", "settle", "check", "read", "decide", "fire", "done"}
    /\ pc \notin {"first", "read"} => listed = NoMime
    /\ seen.whole \in BOOLEAN
    /\ seen.owner \in {"user", "daemon"}
    /\ seen.copy \in 1..copies
    /\ reported \in 0..copies
    /\ cancelled \in BOOLEAN

Init ==
    /\ clipboard \in Copies
    /\ owner = "user"
    /\ copies = 1
    /\ events = 0
    /\ notifier \in Notifiers
    /\ notify = FALSE
    /\ mu = "free"
    /\ pending = Blank
    /\ writes = 0
    /\ pc = "init"
    /\ listed = NoMime
    /\ seen = Seen(Blank)
    /\ lastHash = NoHash
    /\ skipHash = NoHash
    /\ reported = 0
    /\ cancelled = FALSE

----------------------------------------------------------------------------
(* The desktop and the notifier *)

\* Every change of the selection's owner is an OS event, the daemon's own
\* writes included.  Nobody listens for them in polling mode, or once the
\* notifier has ended.
SetClipboard(offer, by) ==
    /\ clipboard' = offer
    /\ owner' = by
    /\ events' = IF notifier = "on" THEN events + 1 ELSE events

UserCopy(offer) ==
    /\ copies < MaxCopies
    /\ copies' = copies + 1
    /\ SetClipboard(offer, "user")
    /\ UNCHANGED <<notifier, notify, mu, writer, thread, hashes, reported, cancelled>>

\* Fault: an unbuffered channel loses the events nobody is waiting for.
ForwardUnbuffered ==
    /\ notifier = "on"
    /\ events > 0
    /\ events' = events - 1
    /\ notify' = (notify \/ pc \in {"select", "settle"})
    /\ UNCHANGED <<clipboard, owner, copies, notifier, mu, writer, thread, hashes, reported, cancelled>>

\* The scanner goroutine: a signal already pending absorbs the event.
Forward ==
    /\ notifier = "on"
    /\ events > 0
    /\ events' = events - 1
    /\ notify' = TRUE
    /\ UNCHANGED <<clipboard, owner, copies, notifier, mu, writer, thread, hashes, reported, cancelled>>

\* wl-paste or the X server goes away, and with it what it had not told yet.
\* The watcher keeps waiting for signals.
NotifierDies ==
    /\ notifier = "on"
    /\ notifier' = "dead"
    /\ UNCHANGED <<clipboard, owner, copies, events, notify, mu, writer, thread, hashes,
                   reported, cancelled>>

----------------------------------------------------------------------------
(* Run *)

\* linuxClip.Read begins: under w.mu the types are listed.
List(from, to) ==
    /\ pc = from
    /\ mu = "free"
    /\ mu' = "watch"
    /\ listed' = Listed(Backend, clipboard)
    /\ pc' = to
    /\ UNCHANGED <<desktop, notify, writer, seen, hashes, reported, cancelled>>

\* The first snapshot.
SnapshotList == List("init", "first")
Snapshot ==
    /\ pc = "first"
    /\ \E c \in Fetched : seen' = Seen(c) /\ lastHash' = hashContent(c)
    /\ listed' = NoMime
    /\ mu' = "free"
    /\ pc' = "select"
    /\ UNCHANGED <<desktop, notify, writer, skipHash, reported, cancelled>>

\* The ticker of polling mode.
Tick ==
    /\ notifier = "off"
    /\ pc = "select"
    /\ pc' = "check"
    /\ UNCHANGED <<desktop, notify, mu, writer, listed, seen, hashes, reported, cancelled>>

\* runEvents receives a signal and starts settling ...
TakeSignal ==
    /\ notifier # "off"
    /\ pc = "select"
    /\ notify
    /\ notify' = FALSE
    /\ pc' = "settle"
    /\ UNCHANGED <<desktop, mu, writer, listed, seen, hashes, reported, cancelled>>

\* ... every further signal restarts the settle timer ...
SettleMore ==
    /\ pc = "settle"
    /\ notify
    /\ notify' = FALSE
    /\ UNCHANGED <<desktop, mu, writer, thread, hashes, reported, cancelled>>

\* ... which fires in the end.
SettleDone ==
    /\ pc = "settle"
    /\ pc' = "check"
    /\ UNCHANGED <<desktop, notify, mu, writer, listed, seen, hashes, reported, cancelled>>

\* check takes w.mu and reads the clipboard.  linuxClip.Read returns no error:
\* a failing tool shows in the content.
CheckList == List("check", "read")
CheckRead ==
    /\ pc = "read"
    /\ \E c \in Fetched : seen' = Seen(c)
    /\ listed' = NoMime
    /\ pc' = "decide"
    /\ UNCHANGED <<desktop, notify, mu, writer, hashes, reported, cancelled>>

\* A hash that is neither the one compared last nor the one written last.
Fires(h) == h # lastHash /\ h # skipHash
\* Fault: the compared hash is not remembered.
CheckDecideForgets ==
    /\ pc = "decide"
    /\ pc' = IF Fires(hashContent(seen.content)) THEN "fire" ELSE "select"
    /\ reported' = IF seen.whole THEN reported ELSE 0
    /\ mu' = "free"
    /\ UNCHANGED <<desktop, notify, writer, listed, seen, hashes, cancelled>>

\* The rest of check up to the unlock.
CheckDecide ==
    /\ pc = "decide"
    /\ LET h == hashContent(seen.content)
       IN  /\ pc' = IF Fires(h) THEN "fire" ELSE "select"
           /\ lastHash' = h
    /\ reported' = IF seen.whole THEN reported ELSE 0
    /\ mu' = "free"
    /\ UNCHANGED <<desktop, notify, writer, listed, seen, skipHash, cancelled>>

\* onChange runs outside the lock.
OnChange ==
    /\ pc = "fire"
    /\ reported' = IF seen.whole THEN seen.copy ELSE reported
    /\ pc' = "select"
    /\ UNCHANGED <<desktop, notify, mu, writer, listed, seen, hashes, cancelled>>

Cancel ==
    /\ ~cancelled
    /\ cancelled' = TRUE
    /\ UNCHANGED <<desktop, notify, mu, writer, thread, hashes, reported>>

\* Both selects also listen to ctx.
Stop ==
    /\ cancelled
    /\ pc \in {"select", "settle"}
    /\ pc' = "done"
    /\ UNCHANGED <<desktop, notify, mu, writer, listed, seen, hashes, reported, cancelled>>

----------------------------------------------------------------------------
(* LocalWrite, called by the goroutines that serve clients and peers *)

\* It takes w.mu and writes the clipboard,
WriteClip(c) ==
    /\ writes < MaxWrites
    /\ mu = "free"
    /\ CanWrite(Backend, c)
    /\ mu' = "write"
    /\ writes' = writes + 1
    /\ pending' = c
    /\ SetClipboard(Written(c), "daemon")
    /\ UNCHANGED <<copies, notifier, notify, thread, hashes, reported, cancelled>>

\* or fails to, and marks nothing.
WriteFails ==
    /\ writes < MaxWrites
    /\ mu = "free"
    /\ writes' = writes + 1
    /\ UNCHANGED <<desktop, notify, mu, pending, thread, hashes, reported, cancelled>>

\* Faults: what is on the clipboard by then is marked; only lastHash is.
WriteMarkCurrent ==
    /\ mu = "write"
    /\ \E c \in Readable : skipHash' = hashContent(c) /\ lastHash' = hashContent(c)
    /\ mu' = "free"
    /\ UNCHANGED <<desktop, notify, writer, thread, reported, cancelled>>
WriteMarkLast ==
    /\ mu = "write"
    /\ lastHash' = hashContent(pending)
    /\ mu' = "free"
    /\ UNCHANGED <<desktop, notify, writer, thread, skipHash, reported, cancelled>>

\* Then it marks the content as its own and unlocks.
WriteMark ==
    /\ mu = "write"
    /\ skipHash' = hashContent(pending)
    /\ lastHash' = hashContent(pending)
    /\ mu' = "free"
    /\ UNCHANGED <<desktop, notify, writer, thread, reported, cancelled>>

----------------------------------------------------------------------------
LocalWrite == (\E c \in Remote : WriteClip(c)) \/ WriteFails \/ WriteMark

Run == \/ SnapshotList \/ Snapshot \/ Tick \/ TakeSignal \/ SettleMore \/ SettleDone
       \/ CheckList \/ CheckRead \/ CheckDecide \/ OnChange \/ Stop

Next == (\E offer \in Copies : UserCopy(offer)) \/ Forward \/ NotifierDies \/ LocalWrite \/ Run \/ Cancel

\* Goroutines that can run do.  A mutex is handed over in turn, tools that fail
\* do not fail for ever, and a select that finds ctx done picks it at random,
\* so those are strongly fair.
Fairness ==
    /\ WF_vars(Forward) /\ WF_vars(WriteMark)
    /\ WF_vars(Tick) /\ WF_vars(TakeSignal) /\ WF_vars(SettleDone)
    /\ SF_vars(SnapshotList) /\ WF_vars(Snapshot)
    /\ SF_vars(CheckList) /\ WF_vars(CheckRead) /\ SF_vars(CheckRead /\ seen'.whole)
    /\ WF_vars(CheckDecide) /\ WF_vars(OnChange) /\ SF_vars(Stop)

Spec == Init /\ [][Next]_vars
FairSpec == Spec /\ Fairness

----------------------------------------------------------------------------
(* Properties *)

\* Loop protection: a sound read of what the daemon itself wrote is never
\* reported (watch.go:18-24), however LocalWrite, the user's copies and check
\* interleave, and whatever failing tools made of the clipboard in between:
\* the hash compared last is then another's, and only skipHash still tells.
NoSelfReport == pc = "fire" /\ seen.whole => seen.owner = "user"

\* Coalescing signals and settling never leave a change behind: while its
\* notifier lives, once no event or signal is left and no write is in
\* progress, the watcher has compared what is on the clipboard, or what
\* failing tools made of it, and never of what was there before
\* (watch.go:96-148).
Idle == pc = "select" /\ ~notify /\ events = 0 /\ mu = "free"
Comparable == Readable \cup (IF seen.whole THEN {} ELSE Misreadable)
NoLostChange ==
    notifier = "on" /\ Idle => \E c \in Comparable : lastHash = hashContent(c)

\* A copy that was reported is reported again, whole, only when some read in
\* between did not return what it should: a tool failed, or a newer copy tore
\* it (watch.go:141-147, backend_linux.go:83-158).
NoDoubleReport == pc = "fire" => seen.owner = "daemon" \/ seen.copy > reported

\* A failing read is never taken for a change ("Read errors are logged and
\* treated as no change", watch.go:131-132).
NoPhantomReport == pc = "fire" => seen.whole

\* The user's copy now on the clipboard, not looked at yet, and different
\* from what was compared before (or is about to be) and from what the daemon
\* wrote last, with no write about to be marked.
Unseen(n) ==
    /\ pc \notin {"init", "first"} /\ mu # "write"
    /\ owner = "user" /\ copies = n /\ reported < n
    /\ \A c \in Readable :
        /\ Fires(hashContent(c))
        /\ pc = "decide" => hashContent(c) # hashContent(seen.content)

\* With nothing signalled, nobody will look at the clipboard again.
Stuck == notifier = "dead" \/ (notifier = "on" /\ Idle /\ ~seen.whole)

\* A copy of the user that stays on the clipboard is reported, unless the
\* daemon stops.  Only two things make the watcher deaf to it, neither of them
\* in polling mode: the notifier has ended, or the last read of it failed,
\* which nothing but another change repeats (watch.go:72-148,
\* notify_linux.go:87-94).
ChangeReported ==
    \A n \in 1..MaxCopies :
        Unseen(n) ~> (reported = n \/ copies > n \/ owner = "daemon" \/ cancelled \/ Stuck)

\* "A genuine external change must still be reported after local writes"
\* (watch_test.go): the copy after one that was reported is reported too when
\* the watcher finds it to differ from what it compared before.
GenuineChangeReported ==
    [][CheckDecide /\ seen.owner = "user" /\ reported > 0 /\ seen.copy = reported + 1
         /\ hashContent(seen.content) # lastHash
       => pc' = "fire"]_vars
=============================================================================
