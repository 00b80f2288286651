------------------------------ MODULE MCDaemon ------------------------------
(* Small instances of Daemon for TLC. *)
EXTENDS Daemon, TLC

CONSTANTS a, b, d, e, c1, c2, q

TextOf(x) == Offer(<<TextMime>>, x)
Mimes == {DefaultImageMime}
CopiesAB == {TextOf(a), Offer(<<TextMime, DefaultImageMime>>, b)}

Picture == Image(d, DefaultImageMime)
MessagesPic == {ContentMsg(Picture)}
ApiE == {Text(e)}

\* Bounds: the desktop starts with a text, connections come and go while
\* nothing else moves (MCHub has them race), and at most one ends.
Quiet == Idle /\ run \in {"init", "select"} /\ \A p \in Conns \cup {Api} : ~H!Busy(p)
Ended == {c \in Conns : pc[c] = "gone" \/ (pc[c] # "new" /\ ~up[c])} \cup {x \in peers : ~up[x]}
Bounded ==
    /\ Clip(1) = Text(a)
    /\ (\E c \in Conns : pc[c] \in {"hello", "hook", "reply", "leave"}) => Quiet
    /\ Cardinality(Ended) <= 1

\* The clients can be exchanged.
Symmetric == Permutations({c1, c2})
\* States that differ only in what nothing reads any more are one: what was
\* read once check is over, what a goroutine handled, the key of a client that
\* left, the order of the log, and, once clips have raced, what the properties
\* about clips that come one at a time compare.
Told == {log[i].clip : i \in 1..Len(log)}
Untold == {Clip(i) : i \in {j \in 1..Len(inputs) : inputs[j].via \in {"start", "peer"}}}
Account == IF calm THEN <<[c \in clients |-> shows[c]], inputs, unwritten, sound>>
                   ELSE <<Len(inputs), Untold>>
Compared == <<clipboard, clipMu, run, listed, lastHash, skipHash, pc, up, clients,
              peers, mu, todo, lastBroadcast, entered, writer, calm, Account, Told,
              IF run \in {"decide", "fire"} THEN seen.content ELSE Blank,
              IF clipMu = "write" THEN pending ELSE Blank,
              [p \in {x \in H!Threads : H!Busy(x)} |-> work[p]],
              [c \in clients |-> lastIn[c]]>>
=============================================================================
