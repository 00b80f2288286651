-------------------------------- MODULE App --------------------------------
(***************************************************************************)
(* The `clipshare daemon` process from the loading of its settings to its  *)
(* exit: which goroutines App.Run starts, in which order, what happens     *)
(* when one cannot start, how the watcher gets its notifier (wl-paste or   *)
(* the X server on Linux, a listener window on Windows), and how a signal  *)
(* ends them.  What the parts do once they run is the matter of Daemon.    *)
(***************************************************************************)
EXTENDS Config

CONSTANT Platforms

ASSUME PlatformsAssumption == Platforms \subseteq {"linux", "windows"}

VARIABLES
    platform, noWatch,  \* where it runs, and --no-watch
    run,                \* control state of the main goroutine
    cfg,                \* the daemon's settings
    ctx,                \* a signal has cancelled the context
    hook,               \* s.onRemoteClip
    watcher,            \* the watcher's goroutine
    source, alive,      \* what its change signals come from, and that it still runs
    listening,          \* the source has been registered for changes
    events, notify,     \* a change it has not forwarded yet, and the signal in the channel
    unseen,             \* the clipboard changed since the watcher's last read
    pump, ready,        \* the goroutine of the Windows notifier, its handshake,
    res,                \* and what it holds
    server, peers, api, mdns, beacon

start == <<configVars, platform, noWatch, cfg, ctx>>
feed == <<source, alive, listening, events, notify, unseen>>
windows == <<pump, ready, res>>
services == <<server, peers, api, mdns, beacon>>
vars == <<start, run, hook, watcher, feed, windows, services>>

RunStates == {"off", "new", "notify", "wayland", "x11", "pump", "poll", "watch", "hook", "serve",
              "peers", "discover", "beacon", "api", "up", "exit"}

ServerStates == {"none", "bind", "serving", "failed", "closed"}

FlagsOK ==
    /\ noWatch \in BOOLEAN /\ ctx \in BOOLEAN
    /\ alive \in BOOLEAN /\ listening \in BOOLEAN
    /\ events \in BOOLEAN /\ notify \in BOOLEAN /\ unseen \in BOOLEAN

StatesOK ==
    /\ platform \in Platforms
    /\ run \in RunStates
    /\ hook \in {"placeholder", "write", "writeRemote"}
    /\ watcher \in {"none", "first", "select", "check", "compare", "ended"}
    /\ source \in {"none", "wayland", "x11", "windows", "poll"}
    /\ pump \in {"none", "class", "window", "map", "listen", "loop", "unlisten", "unmap", "destroy", "ended"}
    /\ ready \in {"none", "ok", "failed"}
    /\ res \subseteq {"class", "window", "mapped", "listener"}
    /\ server \in ServerStates /\ api \in ServerStates
    /\ peers \in {"none", "dialing", "ended"}
    /\ mdns \in {"none", "on", "failed", "withdrawn"}
    /\ beacon \in {"none", "dial", "sending", "failed", "ended"}

TypeOK == ConfigTypeOK /\ cfg \in [Settings -> Values] /\ FlagsOK /\ StatesOK

Init ==
    /\ ConfigInit
    /\ platform \in Platforms /\ noWatch \in BOOLEAN
    /\ run = "off" /\ cfg = Default /\ ctx = FALSE
    /\ hook = "placeholder" /\ watcher = "none"
    /\ source = "none" /\ alive = FALSE /\ listening = FALSE
    /\ events = FALSE /\ notify = FALSE /\ unseen = FALSE
    /\ pump = "none" /\ ready = "none" /\ res = {}
    /\ server = "none" /\ peers = "none" /\ api = "none" /\ mdns = "none" /\ beacon = "none"

----------------------------------------------------------------------------
(* The main goroutine *)

Step(from, to) == run = from /\ run' = to
Goes(from, to) == Step(from, to) /\ UNCHANGED <<start, hook, watcher, feed, windows, services>>

\* A file that does not parse, a log file that cannot be opened, no clipboard.
LoadFails == Goes("off", "exit") \/ Goes("new", "exit")

LoadConfig ==
    /\ Step("off", "new")
    /\ file # Garbage
    /\ cfg' = Load(file)
    /\ UNCHANGED <<configVars, platform, noWatch, ctx, hook, watcher, feed, windows, services>>

New == Goes("new", IF noWatch THEN "hook" ELSE "notify")

\* Wayland, if there is a wl-paste and it can be started, else X11.
StartLinux ==
    /\ platform = "linux"
    /\ \/ Goes("notify", "x11")
       \/ /\ Step("notify", "wayland")
          /\ source' = "wayland" /\ alive' = TRUE
          /\ UNCHANGED <<start, hook, watcher, listening, events, notify, unseen, windows, services>>

\* wl-paste is still there after 250 ms; or it is not, and X11 is tried.
WaylandStarted ==
    \/ alive /\ Goes("wayland", "hook")
    \/ /\ ~alive
       /\ Step("wayland", "x11")
       /\ source' = "none" /\ listening' = FALSE /\ events' = FALSE
       /\ UNCHANGED <<start, hook, watcher, alive, notify, unseen, windows, services>>

\* Every request has been answered; or there is no X server, or no XFixes.
X11Started ==
    /\ Step("x11", "hook")
    /\ source' = "x11" /\ alive' = TRUE /\ listening' = TRUE
    /\ UNCHANGED <<start, hook, watcher, events, notify, unseen, windows, services>>
X11Fails == Goes("x11", "poll")

StartWindows ==
    /\ platform = "windows"
    /\ Step("notify", "pump")
    /\ pump' = "class"
    /\ UNCHANGED <<start, hook, watcher, feed, ready, res, services>>

\* The goroutine has reported that its window listens, or that it failed.
PumpReady ==
    \/ ready = "failed" /\ Goes("pump", "poll")
    \/ /\ ready = "ok"
       /\ Step("pump", "hook")
       /\ source' = "windows"
       /\ UNCHANGED <<start, hook, watcher, alive, listening, events, notify, unseen, windows, services>>

\* Without a notifier the watcher polls.
Poll ==
    /\ Step("poll", "hook")
    /\ source' = "poll"
    /\ UNCHANGED <<start, hook, watcher, alive, listening, events, notify, unseen, windows, services>>

\* The hook is set before anything is started that could deliver a clip;
\* without a watcher it writes to the clipboard itself.
SetHook ==
    /\ Step("hook", IF noWatch THEN "serve" ELSE "watch")
    /\ hook' = IF noWatch THEN "write" ELSE "writeRemote"
    /\ UNCHANGED <<start, watcher, feed, windows, services>>

StartWatcher ==
    /\ Step("watch", "serve")
    /\ watcher' = "first"
    /\ UNCHANGED <<start, hook, feed, windows, services>>

StartServer ==
    /\ Step("serve", "peers")
    /\ server' = "bind"
    /\ UNCHANGED <<start, hook, watcher, feed, windows, peers, api, mdns, beacon>>

StartPeers ==
    /\ Step("peers", "discover")
    /\ peers' = "dialing"
    /\ UNCHANGED <<start, hook, watcher, feed, windows, server, api, mdns, beacon>>

Discovers == cfg["connection.mode"] = "discover"

\* discover.Start: when mDNS cannot be registered there is no beacon either.
StartDiscovery ==
    \/ ~Discovers /\ Goes("discover", "api")
    \/ Discovers /\ cfg[Mdns] = "false" /\ Goes("discover", "beacon")
    \/ /\ Discovers /\ cfg[Mdns] = "true"
       /\ \/ Step("discover", "beacon") /\ mdns' = "on"
          \/ Step("discover", "api") /\ mdns' = "failed"
       /\ UNCHANGED <<start, hook, watcher, feed, windows, server, peers, api, beacon>>

StartBeacon ==
    /\ Step("beacon", "api")
    /\ beacon' = IF cfg["discovery.beacon"] = "true" THEN "dial" ELSE "none"
    /\ UNCHANGED <<start, hook, watcher, feed, windows, server, peers, api, mdns>>

StartApi ==
    /\ Step("api", "up")
    /\ api' = "bind"
    /\ UNCHANGED <<start, hook, watcher, feed, windows, server, peers, mdns, beacon>>

\* Run returns without waiting for the other goroutines: the process ends.
Exit == ctx /\ Goes("up", "exit")

----------------------------------------------------------------------------
(* The goroutine of the Windows notifier *)

Runs == run # "exit"
PumpOnly == UNCHANGED <<start, run, hook, watcher, source, notify, unseen, services>>

\* Class, window and channel are made in this order,
Made == [class |-> "class", window |-> "window", map |-> "mapped"]
AfterMade == [class |-> "window", window |-> "map", map |-> "listen"]
PumpMakes ==
    /\ Runs /\ pump \in DOMAIN Made
    /\ res' = res \cup {Made[pump]}
    /\ pump' = AfterMade[pump]
    /\ PumpOnly /\ UNCHANGED <<ready, alive, listening, events>>

\* Fault: the handshake comes before the listener.
PumpListensLate ==
    /\ Runs /\ pump = "listen"
    /\ IF ready = "ok" THEN res' = res \cup {"listener"} /\ listening' = TRUE /\ pump' = "loop"
                       ELSE UNCHANGED <<res, listening, pump>>
    /\ alive' = TRUE /\ ready' = "ok"
    /\ PumpOnly /\ UNCHANGED events

\* then the listener is registered: from now on changes are heard.
PumpListens ==
    /\ Runs /\ pump = "listen"
    /\ res' = res \cup {"listener"}
    /\ alive' = TRUE /\ listening' = TRUE /\ ready' = "ok"
    /\ pump' = "loop"
    /\ PumpOnly /\ UNCHANGED events

\* Fault: a failure is not reported to the goroutine that waits for it.
PumpFailsSilently ==
    /\ Runs /\ pump \in {"class", "window", "listen"}
    /\ res' = {} /\ pump' = "ended"
    /\ PumpOnly /\ UNCHANGED <<ready, alive, listening, events>>

\* When a call fails, what was made is undone.
PumpFails ==
    /\ Runs /\ pump \in {"class", "window", "listen"}
    /\ res' = {} /\ pump' = "ended" /\ ready' = "failed"
    /\ PumpOnly /\ UNCHANGED <<alive, listening, events>>

\* The message loop ends with the WM_QUIT that the context's end posts, or
\* with an error, at any time.
PumpQuits ==
    /\ Runs /\ pump = "loop"
    /\ alive' = FALSE
    /\ pump' = "unlisten"
    /\ PumpOnly /\ UNCHANGED <<ready, res, listening, events>>

Undone == [unlisten |-> {"listener"}, unmap |-> {"mapped"}, destroy |-> {"window", "class"}]
AfterUndone == [unlisten |-> "unmap", unmap |-> "destroy", destroy |-> "ended"]
PumpUndoes ==
    /\ Runs /\ pump \in DOMAIN Undone
    /\ res' = res \ Undone[pump]
    /\ listening' = ("listener" \in res')
    /\ pump' = AfterUndone[pump]
    /\ PumpOnly /\ UNCHANGED <<ready, alive, events>>

----------------------------------------------------------------------------
(* The watcher, in outline, and what signals it *)

\* An application takes the clipboard.
Change ==
    /\ run \notin {"off", "exit"}
    /\ unseen' = TRUE
    /\ events' = (events \/ (listening /\ alive))
    /\ UNCHANGED <<start, run, hook, watcher, source, alive, listening, notify, windows, services>>

\* wl-paste announces the clipboard it finds when it begins to watch.
WlPasteListens ==
    /\ Runs /\ source = "wayland" /\ alive /\ ~listening
    /\ listening' = TRUE /\ events' = TRUE
    /\ UNCHANGED <<start, run, hook, watcher, source, alive, notify, unseen, windows, services>>

\* wl-paste or the X connection ends: by itself, or with the context.
SourceEnds ==
    /\ Runs /\ source \in {"wayland", "x11"} /\ alive
    /\ alive' = FALSE
    /\ UNCHANGED <<start, run, hook, watcher, source, listening, events, notify, unseen, windows, services>>

\* Fault: the channel has no buffer.
ForwardUnbuffered ==
    /\ Runs /\ events
    /\ pump \in {"none", "loop"}
    /\ events' = FALSE /\ notify' = (watcher = "select")
    /\ UNCHANGED <<start, run, hook, watcher, source, alive, listening, unseen, windows, services>>

\* A change becomes a signal, if none is pending.
Forward ==
    /\ Runs /\ events
    /\ pump \in {"none", "loop"}
    /\ events' = FALSE /\ notify' = TRUE
    /\ UNCHANGED <<start, run, hook, watcher, source, alive, listening, unseen, windows, services>>

WatcherOnly == UNCHANGED <<start, run, hook, source, alive, listening, events, windows, services>>

\* A first read sets what later ones are compared with.  A change after the
\* read is not in what it read.
Wake ==
    /\ Runs /\ watcher = "select"
    /\ source = "poll" \/ notify
    /\ watcher' = "check" /\ notify' = FALSE
    /\ WatcherOnly /\ UNCHANGED unseen
Read ==
    /\ Runs /\ watcher \in {"first", "check"}
    /\ watcher' = "compare" /\ unseen' = FALSE
    /\ WatcherOnly /\ UNCHANGED notify
Compare ==
    /\ Runs /\ watcher = "compare"
    /\ watcher' = "select"
    /\ WatcherOnly /\ UNCHANGED <<notify, unseen>>
StopWatcher ==
    /\ Runs /\ watcher = "select" /\ ctx
    /\ watcher' = "ended"
    /\ WatcherOnly /\ UNCHANGED <<notify, unseen>>

----------------------------------------------------------------------------
(* The other goroutines *)

ServiceOnly == Runs /\ UNCHANGED <<start, run, hook, watcher, feed, windows>>

\* The port is taken, or TLS cannot be set up: that is only logged.
ServerBinds ==
    /\ server = "bind" /\ server' \in {"serving", "failed"}
    /\ ServiceOnly /\ UNCHANGED <<peers, api, mdns, beacon>>
ApiBinds ==
    /\ api = "bind" /\ api' \in {"serving", "failed"}
    /\ ServiceOnly /\ UNCHANGED <<server, peers, mdns, beacon>>
BeaconDials ==
    /\ beacon = "dial" /\ beacon' \in {"sending", "failed"}
    /\ ServiceOnly /\ UNCHANGED <<server, peers, api, mdns>>

\* What waits for the context ends, if the process lasts that long.
Shutdown ==
    /\ ctx
    /\ \/ server = "serving" /\ server' = "closed" /\ UNCHANGED <<peers, api, mdns, beacon>>
       \/ api = "serving" /\ api' = "closed" /\ UNCHANGED <<server, peers, mdns, beacon>>
       \/ peers = "dialing" /\ peers' = "ended" /\ UNCHANGED <<server, api, mdns, beacon>>
       \/ mdns = "on" /\ mdns' = "withdrawn" /\ UNCHANGED <<server, peers, api, beacon>>
       \/ beacon = "sending" /\ beacon' = "ended" /\ UNCHANGED <<server, peers, api, mdns>>
    /\ ServiceOnly

\* SIGINT or SIGTERM, once the command has asked for them.
Signal ==
    /\ run \notin {"off", "new", "exit"}
    /\ ~ctx
    /\ ctx' = TRUE
    /\ UNCHANGED <<configVars, platform, noWatch, cfg, run, hook, watcher, feed, windows, services>>

\* The daemon does not look at the file again once it has loaded it.
Configure ==
    /\ run = "off"
    /\ Commands \/ \E f \in UserFiles : Edit(f)
    /\ UNCHANGED <<platform, noWatch, cfg, ctx, run, hook, watcher, feed, windows, services>>

----------------------------------------------------------------------------
Notifier == StartLinux \/ WaylandStarted \/ X11Started \/ X11Fails \/ StartWindows \/ PumpReady \/ Poll
Main ==
    \/ New \/ Notifier \/ StartWatcher \/ SetHook \/ StartServer \/ StartPeers
    \/ StartDiscovery \/ StartBeacon \/ StartApi \/ Exit
Pump == PumpMakes \/ PumpListens \/ PumpFails \/ PumpQuits \/ PumpUndoes
Feed == Change \/ WlPasteListens \/ SourceEnds \/ Forward
Watch == Wake \/ Read \/ Compare \/ StopWatcher
Serve == ServerBinds \/ ApiBinds \/ BeaconDials \/ Shutdown

Next ==
    \/ Configure \/ LoadConfig \/ LoadFails \/ Main
    \/ Pump \/ Feed \/ Watch \/ Serve \/ Signal

\* Goroutines that can run do, and wl-paste begins to watch.
Fairness ==
    /\ WF_vars(Main) /\ WF_vars(PumpMakes \/ PumpListens \/ PumpFails)
    /\ WF_vars(WlPasteListens) /\ WF_vars(Forward) /\ WF_vars(Wake \/ Read \/ Compare)

Spec == Init /\ [][Next]_vars
FairSpec == Spec /\ Fairness

----------------------------------------------------------------------------
(* Properties *)

\* Whatever commands are killed or cut short, and whenever the daemon reads
\* the file, each of its settings is one the user's files or the defaults
\* give, except a number whose line was cut (config.go:172-225, 344-352).
SettingsKnown ==
    \A s \in Settings \ damaged : cfg[s] \in Known(s) /\ held[s] \in Known(s)

\* A config that was saved loads as what was saved ("so re-saving is
\* consistent", config.go:202), unless a string in it needs an escape that
\* TOML does not have.
ResaveKeeps == cmd = "saved" /\ file # Garbage => Load(file) = held

\* From the moment the watcher waits, no change goes unnoticed while its
\* source is alive: the source listens before the first snapshot is taken,
\* or announces what it finds (notify_linux.go:73-83, 127-147, notify_windows.go:190-207).
NoGap ==
    watcher = "select" /\ unseen /\ source # "poll" /\ alive =>
        notify \/ events \/ (source = "wayland" /\ ~listening)

\* No clip meets the placeholder: who can deliver one starts after the hook
\* was set (app.go:79-93).
HookFirst == server = "serving" \/ peers = "dialing" => hook # "placeholder"

\* No change can arrive for an unmapped window (notify_windows.go:190-191),
\* and a notifier that has ended leaves nothing behind.
WindowMapped ==
    /\ "listener" \in res => "mapped" \in res
    /\ pump = "ended" => res = {}

\* What is announced is what the settings say: nothing outside mode discover;
\* there, a beacon wherever it is wanted and mDNS did not fail (discover.go:15-32).
Advertised ==
    run = "up" =>
        /\ mdns # "none" <=> cfg["connection.mode"] = "discover" /\ cfg[Mdns] = "true"
        /\ beacon # "none" <=>
            cfg["connection.mode"] = "discover" /\ cfg["discovery.beacon"] = "true" /\ mdns # "failed"

\* The start never hangs: whatever fails, the daemon is up in the end, or has
\* exited (app.go:56-117).
Starts == run = "new" ~> run \in {"up", "exit"}

\* A change is read as long as its source lasts, whatever the watcher is doing
\* when it comes (notify_linux.go:78-81, notify_windows.go:93-96).
Heard ==
    unseen /\ watcher # "none" ~> ~unseen \/ ctx \/ (source # "poll" /\ ~alive)

=============================================================================
