----------------------------- MODULE Transient -----------------------------
(***************************************************************************)
(* The two commands that run a server for one clip: the one-shot send,     *)
(* which gives its clip to the first client, and watch, which keeps the    *)
(* first clip a client pushes.  Both set SetMaxClients(1).                 *)
(*                                                                         *)
(* The goroutine of the command, main, waits for a channel that a          *)
(* connection's goroutine closes.  When it returns, the process ends.  The *)
(* relay of a push to other clients is left out: it has no effect on main. *)
(***************************************************************************)
EXTENDS FiniteSets, Naturals

CONSTANTS
    Conns,         \* inbound connections, each used once
    Pushes,        \* clips that clients send
    Nothing        \* no clip

ASSUME TransientAssumption == Nothing \notin Pushes /\ IsFiniteSet(Conns)

VARIABLES
    command,       \* "send" or "watch"
    main,          \* control state of the command
    outcome,       \* how it ended
    port,          \* the listener: "closed", "open" or "failed"
    pc,            \* control state of each connection's goroutine
    up,            \* the connections that are open
    clients,       \* s.clients
    greeted,       \* the connections whose hello was accepted
    signal,        \* the channel delivered (send) or received (watch)
    once,          \* the sync.Once of send: "fresh", "running" or "done"
    panicked,      \* a closed channel was closed again
    got,           \* the connections that received the clip of send
    lastClip,      \* s.lastBroadcast
    work,          \* the push a goroutine handles
    board          \* the local clipboard of watch

process == <<command, main, outcome, port>>
handler == <<pc, work>>
registry == <<up, clients, greeted>>
handover == <<signal, once, panicked>>
clips == <<got, lastClip, board>>
vars == <<process, handler, registry, handover, clips>>

TypeOK ==
    /\ command \in {"send", "watch"}
    /\ main \in {"ask", "wait", "grace", "done"}
    /\ outcome \in {"none", "sent", "error", "delivered", "received", "timeout", "interrupt"}
    /\ port \in {"closed", "open", "failed"}
    /\ pc \in [Conns -> {"new", "hello", "hook", "push", "mark", "reply", "loop",
                         "apply", "check", "close", "leave", "gone"}]
    /\ work \in [Conns -> Pushes \cup {Nothing}]
    /\ up \in SUBSET Conns /\ clients \in SUBSET Conns /\ greeted \in SUBSET Conns
    /\ signal \in {"open", "closed"}
    /\ once \in {"fresh", "running", "done"}
    /\ panicked \in BOOLEAN
    /\ got \in SUBSET Conns
    /\ lastClip \in Pushes \cup {Nothing}
    /\ board \in Pushes \cup {Nothing}

Init ==
    /\ command \in {"send", "watch"}
    /\ main = IF command = "send" THEN "ask" ELSE "wait"
    /\ outcome = "none"
    /\ port = "closed"
    /\ pc = [c \in Conns |-> "new"]
    /\ work = [c \in Conns |-> Nothing]
    /\ up = {} /\ clients = {} /\ greeted = {}
    /\ signal = "open" /\ once = "fresh" /\ panicked = FALSE
    /\ got = {} /\ lastClip = Nothing /\ board = Nothing

Running == main \in {"wait", "grace"} /\ ~panicked

----------------------------------------------------------------------------
(* main *)

End(result) == main' = "done" /\ outcome' = result

\* Fault: a daemon that does not answer is asked again.
AskAgain ==
    /\ main = "ask"
    /\ \/ main' = "wait" /\ UNCHANGED outcome
       \/ main' = "retry" /\ UNCHANGED outcome
       \/ End("sent")
    /\ UNCHANGED <<command, port, handler, registry, handover, clips>>

\* send asks the daemon; only a refused connection, or --oneshot, leads to a
\* server of its own.
Ask ==
    /\ main = "ask"
    /\ \/ main' = "wait" /\ UNCHANGED outcome
       \/ End("sent")
       \/ End("error")
    /\ UNCHANGED <<command, port, handler, registry, handover, clips>>

\* ListenAndServe; a port that cannot be bound is only logged.
Listen ==
    /\ Running
    /\ port = "closed"
    /\ port' \in {"open", "failed"}
    /\ UNCHANGED <<command, main, outcome, handler, registry, handover, clips>>

\* The channel is closed: send stays for a grace period, watch returns.
Signalled ==
    /\ Running
    /\ main = "wait"
    /\ signal = "closed"
    /\ IF command = "send" THEN main' = "grace" /\ UNCHANGED outcome
                           ELSE End("received")
    /\ UNCHANGED <<command, port, handler, registry, handover, clips>>

\* Fault: the grace period has no end.
TimeoutOfWait ==
    /\ Running
    /\ main = "wait"
    /\ End("timeout")
    /\ UNCHANGED <<command, port, handler, registry, handover, clips>>

\* OneShotTimeout or the timeout of watch; OneShotGrace.
Timeout ==
    /\ Running
    /\ End(IF main = "wait" THEN "timeout" ELSE "delivered")
    /\ UNCHANGED <<command, port, handler, registry, handover, clips>>

Interrupt ==
    /\ Running
    /\ End("interrupt")
    /\ UNCHANGED <<command, port, handler, registry, handover, clips>>

----------------------------------------------------------------------------
(* A connection's goroutine: admission and handshake *)

\* Fault: nobody is refused.
NeverFull == FALSE
Full == Cardinality(clients) >= 1

Accept(c) ==
    /\ Running /\ port = "open"
    /\ pc[c] = "new"
    /\ ~Full
    /\ clients' = clients \cup {c}
    /\ up' = up \cup {c}
    /\ pc' = [pc EXCEPT ![c] = "hello"]
    /\ UNCHANGED <<process, work, greeted, handover, clips>>

Goto(c, state) ==
    /\ Running
    /\ pc' = [pc EXCEPT ![c] = state]
    /\ UNCHANGED <<process, work, registry, handover, clips>>

Refuse(c) ==
    /\ port = "open"
    /\ pc[c] = "new"
    /\ Goto(c, "gone")

\* Fault: the first message is taken for a hello without a look.
HelloUnread(c) ==
    /\ pc[c] = "hello"
    /\ Goto(c, "hook")

Hello(c) ==
    /\ Running
    /\ pc[c] = "hello"
    /\ c \in up
    /\ greeted' = greeted \cup {c}
    /\ pc' = [pc EXCEPT ![c] = "hook"]
    /\ UNCHANGED <<process, work, up, clients, handover, clips>>

HelloFails(c) ==
    /\ pc[c] = "hello"
    /\ Goto(c, "leave")

\* Fault: the hook pushes for each client.
HookRepeated(c) ==
    /\ Running
    /\ pc[c] = "hook"
    /\ command = "send"
    /\ once' = "running"
    /\ pc' = [pc EXCEPT ![c] = "push"]
    /\ UNCHANGED <<process, work, registry, signal, panicked, clips>>

\* The connect hook of send is a sync.Once: the first caller runs it,
Hook(c) ==
    /\ Running
    /\ pc[c] = "hook"
    /\ command = "send" /\ once = "fresh"
    /\ once' = "running"
    /\ pc' = [pc EXCEPT ![c] = "push"]
    /\ UNCHANGED <<process, work, registry, signal, panicked, clips>>

\* and others pass when it is over; watch has none.
HookOver(c) ==
    /\ pc[c] = "hook"
    /\ command = "watch" \/ once = "done"
    /\ Goto(c, "reply")

\* Fault: the broadcast leaves its caller out, as a relay does.
PushToOthers(c) ==
    /\ Running
    /\ pc[c] = "push"
    /\ \E reached \in SUBSET ((clients \ {c}) \cap up) :
          /\ got' = got \cup reached
          /\ up' = (up \ (clients \ {c})) \cup reached
    /\ pc' = [pc EXCEPT ![c] = "mark"]
    /\ UNCHANGED <<process, work, clients, greeted, handover, lastClip, board>>

\* BroadcastLocal writes to all registered clients under s.mu; a write that
\* fails or takes too long costs the client its connection.
Push(c) ==
    /\ Running
    /\ pc[c] = "push"
    /\ \E reached \in SUBSET (clients \cap up) :
          /\ got' = got \cup reached
          /\ up' = (up \ clients) \cup reached
    /\ pc' = [pc EXCEPT ![c] = "mark"]
    /\ UNCHANGED <<process, work, clients, greeted, handover, lastClip, board>>

\* Closing a channel twice is a panic.
CloseChannel ==
    /\ signal' = "closed"
    /\ panicked' = (signal = "closed")

\* The hook closes delivered, whether or not the write succeeded.
Mark(c) ==
    /\ Running
    /\ pc[c] = "mark"
    /\ CloseChannel
    /\ once' = "done"
    /\ pc' = [pc EXCEPT ![c] = "reply"]
    /\ UNCHANGED <<process, work, registry, clips>>

HelloReply(c) ==
    /\ pc[c] = "reply"
    /\ Goto(c, "loop")

----------------------------------------------------------------------------
(* A connection's goroutine: the read loop *)

\* handleClipboard up to the callback: an echo of the last clip is ignored.
ReadPush(c, x) ==
    /\ Running
    /\ pc[c] = "loop"
    /\ c \in up
    /\ x # lastClip
    /\ lastClip' = x
    /\ work' = [work EXCEPT ![c] = x]
    /\ pc' = [pc EXCEPT ![c] = "apply"]
    /\ UNCHANGED <<process, registry, handover, got, board>>

\* The echo window runs out.
Expire ==
    /\ Running
    /\ lastClip # Nothing
    /\ lastClip' = Nothing
    /\ UNCHANGED <<process, handler, registry, handover, got, board>>

\* send ignores the push; watch writes it ...
Ignore(c) ==
    /\ pc[c] = "apply"
    /\ command = "send"
    /\ Goto(c, "loop")

WriteFails(c) ==
    /\ pc[c] = "apply"
    /\ command = "watch"
    /\ Goto(c, "loop")

Write(c) ==
    /\ Running
    /\ pc[c] = "apply"
    /\ command = "watch"
    /\ board' = work[c]
    /\ pc' = [pc EXCEPT ![c] = "check"]
    /\ UNCHANGED <<process, work, registry, handover, got, lastClip>>

\* ... and closes received, unless it finds it closed (closeOnce).
CheckSignal(c) ==
    /\ pc[c] = "check"
    /\ Goto(c, IF signal = "closed" THEN "loop" ELSE "close")

CloseSignal(c) ==
    /\ Running
    /\ pc[c] = "close"
    /\ CloseChannel
    /\ pc' = [pc EXCEPT ![c] = "loop"]
    /\ UNCHANGED <<process, work, registry, once, clips>>

ReadFails(c) ==
    /\ pc[c] = "loop"
    /\ c \notin up
    /\ Goto(c, "leave")

\* The deferred clean-up.
Leave(c) ==
    /\ Running
    /\ pc[c] = "leave"
    /\ clients' = clients \ {c}
    /\ up' = up \ {c}
    /\ pc' = [pc EXCEPT ![c] = "gone"]
    /\ UNCHANGED <<process, work, greeted, handover, clips>>

\* A client hangs up or its connection breaks.
Drop(c) ==
    /\ Running
    /\ c \in up
    /\ up' = up \ {c}
    /\ UNCHANGED <<process, handler, clients, greeted, handover, clips>>

----------------------------------------------------------------------------
Command == Ask \/ Listen \/ Signalled \/ Timeout \/ Interrupt
Handshake(c) == \/ Accept(c) \/ Refuse(c) \/ Hello(c) \/ HelloFails(c) \/ Hook(c)
                \/ HookOver(c) \/ Push(c) \/ Mark(c) \/ HelloReply(c)
Serve(c) == \/ (\E x \in Pushes : ReadPush(c, x)) \/ Ignore(c) \/ Write(c) \/ WriteFails(c)
            \/ CheckSignal(c) \/ CloseSignal(c) \/ ReadFails(c) \/ Leave(c)

Next == Command \/ Expire \/ \E c \in Conns : Handshake(c) \/ Serve(c) \/ Drop(c)

\* The steps a goroutine takes without waiting for its client.
Step(c) == \/ Hook(c) \/ HookOver(c) \/ Push(c) \/ Mark(c) \/ HelloReply(c)
           \/ Ignore(c) \/ Write(c) \/ CheckSignal(c) \/ CloseSignal(c) \/ Leave(c)

\* Goroutines run, the API call returns, and the timers of main fire.
Fairness ==
    /\ WF_vars(Ask) /\ WF_vars(Timeout)
    /\ \A c \in Conns : WF_vars(Step(c))

Spec == Init /\ [][Next]_vars
FairSpec == Spec /\ Fairness

----------------------------------------------------------------------------
(* Properties *)

\* The clip of send only reaches clients whose hello was accepted, although
\* BroadcastLocal writes to everybody registered: the limit of one client
\* makes the greeted client the only one (send.go:84-93, handlers.go:30-87).
OnlyGreeted == got \subseteq greeted

\* It goes to one of them at most, however many come while the command lasts
\* (send.go:86-93).
SentOnce == OnlyGreeted /\ \A c, d \in got : c = d

\* No channel is closed twice: closeOnce is not atomic, and only the limit of
\* one client keeps two goroutines out of it (watch.go:74-76, 99-105;
\* send.go:86-93).
NeverPanics == ~panicked

\* When send is done offering its clip, the client that said hello has it or
\* has lost its connection (send.go:87-93, client.go:27-33).
ServedOrBroken ==
    command = "send" /\ signal = "closed" /\ got = {} => ~(greeted \subseteq up)

\* The command ends, whatever clients do (send.go:107-120, watch.go:88-96).
Ends == <>(main = "done")
=============================================================================
