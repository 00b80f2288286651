----------------------------- MODULE AppProofs -----------------------------
(* Theorems about Config and App: for any settings, values and editors,    *)
(* what a daemon runs with, what a saved file stands for, and when a clip  *)
(* or a change can first arrive.                                           *)
EXTENDS App, TLAPS

USE ConfigAssumption DEF ConfigAssumption

----------------------------------------------------------------------------
(* Load and Save *)

\* Load returns values it accepts, and one value for both mdns keys.
Consistent(c) ==
    /\ \A s \in Settings : c[s] \in Accepted[s]
    /\ c[Legacy] = c[Mdns]

LEMMA LoadReturns ==
    ASSUME NEW f \in Parsed
    PROVE  Load(f) \in [Settings -> Values] /\ Consistent(Load(f))
<1>1. \A s \in Settings : Taken(f, s) \in Accepted[s]
  BY DEF Taken
<1>2. MdnsOf(f) \in {Legacy, Mdns}
  BY DEF MdnsOf
<1>3. Taken(f, MdnsOf(f)) \in Accepted[Legacy]
  BY <1>1, <1>2
<1>4. \A s \in Settings : Load(f)[s] \in Accepted[s]
  BY <1>1, <1>2, <1>3 DEF Load
<1> QED BY <1>4 DEF Load, Consistent

LEMMA DefaultReturns == Default \in [Settings -> Values] /\ Consistent(Default)
  BY DEF Consistent

\* Loading what was saved changes nothing.
LEMMA LoadKeeps ==
    ASSUME NEW c \in [Settings -> Values], Consistent(c)
    PROVE  Load(c) = c
<1>1. MdnsOf(c) = Mdns
  BY DEF MdnsOf
<1>2. \A s \in Settings : Taken(c, s) = c[s]
  BY DEF Taken, Consistent
<1>3. \A s \in Settings : Load(c)[s] = c[s]
  BY <1>1, <1>2 DEF Load, Consistent
<1>4. Load(c) = [s \in Settings |-> Load(c)[s]] /\ c = [s \in Settings |-> c[s]]
  BY DEF Load
<1> QED BY <1>3, <1>4, Zenon

----------------------------------------------------------------------------
(* The settings a file may hold *)

LEMMA KnownValues ==
    ASSUME NEW s \in Settings
    PROVE  Known(s) \subseteq Accepted[s] /\ Default[s] \in Known(s)
  BY DEF Known

LEMMA KnownMdns == Known(Legacy) = Known(Mdns)
<1>1. NamesOf(Legacy) = NamesOf(Mdns)
  BY DEF NamesOf
<1>2. Accepted[Legacy] = Accepted[Mdns] /\ Default[Legacy] = Default[Mdns]
  OBVIOUS
<1> QED BY <1>1, <1>2, SMT DEF Known

\* A file that the user, Save or a cut-off write left.
KnownFile(f, D) ==
    \/ f \in UserFiles \cup {Garbage}
    \/ \A s \in Settings \ D : f[s] \in Known(s) \cup {Unset}

LEMMA LoadKnown ==
    ASSUME NEW D \in SUBSET Numbers, NEW f \in Parsed, KnownFile(f, D)
    PROVE  \A s \in Settings \ D : Load(f)[s] \in Known(s)
<1>1. f # Garbage
  BY DEF Parsed
<1>2. \A s \in Settings \ D : Taken(f, s) \in Known(s)
  <2>1. CASE f \in UserFiles
    <3>1. \A s \in Settings : f[s] \in Accepted[s] => f[s] \in Known(s)
      BY <1>1, <2>1 DEF Known, NamesOf
    <3> QED BY <3>1, KnownValues DEF Taken
  <2>2. CASE \A s \in Settings \ D : f[s] \in Known(s) \cup {Unset}
    BY <2>2, KnownValues DEF Taken
  <2> QED BY <1>1, <2>1, <2>2 DEF KnownFile
<1>3. MdnsOf(f) \in {Legacy, Mdns} /\ {Legacy, Mdns} \subseteq Settings \ D
  BY DEF MdnsOf
<1>4. Taken(f, MdnsOf(f)) \in Known(Legacy) /\ Taken(f, MdnsOf(f)) \in Known(Mdns)
  BY <1>2, <1>3, KnownMdns
<1> QED BY <1>2, <1>4 DEF Load

\* What Save writes, whole or cut, is such a file.
LEMMA SavedKnown ==
    ASSUME NEW D, NEW f, \A s \in Settings \ D : f[s] \in Known(s) \cup {Unset}
    PROVE  KnownFile(Saved(f), D)
  BY DEF Saved, KnownFile

----------------------------------------------------------------------------
(* The config command *)

CmdInv ==
    /\ ConfigTypeOK
    /\ Consistent(held)
    /\ KnownFile(file, damaged)
    /\ \A s \in Settings \ damaged : held[s] \in Known(s)
    /\ cmd = "saved" => file \in {held, Garbage}

CommandOrEdit == Commands \/ \E f \in UserFiles : Edit(f)

LEMMA CmdInit0 == ConfigInit => CmdInv
<1> SUFFICES ASSUME ConfigInit PROVE CmdInv
  OBVIOUS
<1>1. ConfigTypeOK
  BY DEF ConfigInit, ConfigTypeOK, Parsed
<1> QED BY <1>1, DefaultReturns, KnownValues DEF ConfigInit, CmdInv, KnownFile

\* A write that is cut short.
LEMMA CutShort ==
    ASSUME CmdInv, CmdWriteShort
    PROVE  CmdInv'
<1>1. PICK n \in 0..Len(Order) - 1 :
        LET s == Order[n + 1]
            f == Cut(held, n)
        IN  \/ file' \in {Saved(f), Garbage} /\ UNCHANGED damaged
            \/ /\ s \in Numbers
               /\ \E v \in Values : file' = Saved([f EXCEPT ![s] = v])
               /\ damaged' = damaged \cup {s}
  BY DEF CmdWriteShort
<1> DEFINE s == Order[n + 1]
           f == Cut(held, n)
<1>2. f \in Parsed /\ \A x \in Settings : f[x] \in {held[x], Unset}
  BY DEF CmdInv, ConfigTypeOK, Cut, Parsed
<1>3. cmd' = "idle" /\ held' = held
  BY DEF CmdWriteShort
<1> HIDE DEF f
<1>4. CASE file' \in {Saved(f), Garbage} /\ UNCHANGED damaged
  <2>1. file' \in Parsed \cup {Garbage}
    BY <1>2, <1>4 DEF Saved
  <2>2. KnownFile(file', damaged)
    BY <1>2, <1>4, SavedKnown DEF CmdInv, KnownFile
  <2> QED BY <1>3, <1>4, <2>1, <2>2 DEF CmdInv, ConfigTypeOK, KnownFile
<1>5. ASSUME s \in Numbers, NEW v \in Values, file' = Saved([f EXCEPT ![s] = v]),
             damaged' = damaged \cup {s}
      PROVE  CmdInv'
  <2> DEFINE g == [f EXCEPT ![s] = v]
  <2>1. g \in Parsed /\ \A x \in Settings \ {s} : g[x] \in {held[x], Unset}
    BY <1>2, <1>5 DEF Parsed
  <2> HIDE DEF g
  <2>2. file' \in Parsed \cup {Garbage}
    BY <1>5, <2>1 DEF Saved, g
  <2>3. \A x \in Settings \ damaged' : g[x] \in Known(x) \cup {Unset}
    BY <1>5, <2>1 DEF CmdInv
  <2>4. KnownFile(file', damaged')
    BY <1>5, <2>3, SavedKnown DEF g
  <2> QED BY <1>3, <1>5, <2>2, <2>4 DEF CmdInv, ConfigTypeOK, KnownFile
<1> QED BY <1>1, <1>4, <1>5 DEF f

LEMMA CmdStep ==
    ASSUME CmdInv, CommandOrEdit
    PROVE  CmdInv'
<1>1. CASE CmdLoad
  BY <1>1 DEF CmdLoad, CmdInv, ConfigTypeOK, KnownFile
<1>2. CASE CmdReload
  <2>1. file \in Parsed
    BY <1>2 DEF CmdReload, CmdInv, ConfigTypeOK
  <2>2. \A s \in Settings \ damaged : Load(file)[s] \in Known(s)
    BY <2>1, LoadKnown DEF CmdInv, ConfigTypeOK
  <2> QED BY <1>2, <2>1, <2>2, LoadReturns DEF CmdReload, CmdInv, ConfigTypeOK, KnownFile
<1>3. CASE CmdInit
  BY <1>3, DefaultReturns, KnownValues DEF CmdInit, CmdInv, ConfigTypeOK, KnownFile
<1>4. CASE CmdTruncate
  BY <1>4 DEF CmdTruncate, CmdInv, ConfigTypeOK, KnownFile, Empty, Parsed
<1>5. CASE CmdWrite
  <2>1. file' \in {held, Garbage} /\ held \in Parsed
    BY <1>5 DEF CmdWrite, CmdInv, ConfigTypeOK, Saved, Parsed
  <2>2. KnownFile(file', damaged)
    BY <1>5, SavedKnown DEF CmdWrite, CmdInv
  <2> QED BY <1>5, <2>1, <2>2 DEF CmdWrite, CmdInv, ConfigTypeOK, KnownFile
<1>6. CASE CmdWriteShort
  BY <1>6, CutShort
<1>7. CASE CmdEnds
  BY <1>7 DEF CmdEnds, CmdInv, ConfigTypeOK, KnownFile
<1>8. ASSUME NEW f \in UserFiles, Edit(f) PROVE CmdInv'
  BY <1>8 DEF Edit, CmdInv, ConfigTypeOK, KnownFile, Parsed
<1> QED BY <1>1, <1>2, <1>3, <1>4, <1>5, <1>6, <1>7, <1>8 DEF CommandOrEdit, Commands

----------------------------------------------------------------------------
(* What the daemon runs with *)

CfgInv ==
    /\ CmdInv
    /\ cfg \in [Settings -> Values]
    /\ \A s \in Settings \ damaged : cfg[s] \in Known(s)

\* Only three things touch the settings: the command and the editor, the load,
\* and nothing else.
LEMMA SettingsMove ==
    ASSUME [Next]_vars
    PROVE  \/ CommandOrEdit /\ cfg' = cfg
           \/ LoadConfig
           \/ UNCHANGED <<configVars, cfg>>
<1> USE DEF start, configVars
<1>1. CASE Configure
  BY <1>1 DEF Configure, CommandOrEdit
<1>2. CASE LoadFails \/ New \/ Exit \/ Signal
  BY <1>2 DEF LoadFails, New, Exit, Signal, Goes, Step
<1>3. CASE Notifier
  BY <1>3 DEF Notifier, StartLinux, WaylandStarted, X11Started, X11Fails, StartWindows, PumpReady,
              Poll, Goes, Step
<1>4. CASE StartWatcher \/ SetHook \/ StartServer \/ StartPeers \/ StartDiscovery \/ StartBeacon \/ StartApi
  BY <1>4 DEF StartWatcher, SetHook, StartServer, StartPeers, StartDiscovery, StartBeacon, StartApi, Goes
<1>5. CASE Pump
  BY <1>5 DEF Pump, PumpMakes, PumpListens, PumpFails, PumpQuits, PumpUndoes, PumpOnly
<1>6. CASE Feed
  BY <1>6 DEF Feed, Change, WlPasteListens, SourceEnds, Forward
<1>7. CASE Watch
  BY <1>7 DEF Watch, Wake, Read, Compare, StopWatcher, WatcherOnly
<1>8. CASE Serve
  BY <1>8 DEF Serve, ServerBinds, ApiBinds, BeaconDials, Shutdown, ServiceOnly
<1>9. CASE UNCHANGED vars
  BY <1>9 DEF vars
<1> QED BY <1>1, <1>2, <1>3, <1>4, <1>5, <1>6, <1>7, <1>8, <1>9 DEF Next, Main

LEMMA CfgStep ==
    ASSUME CfgInv, [Next]_vars
    PROVE  CfgInv'
<1>1. CASE CommandOrEdit /\ cfg' = cfg
  <2>1. CmdInv'
    BY <1>1, CmdStep DEF CfgInv
  <2>2. damaged \subseteq damaged'
    BY <1>1 DEF CommandOrEdit, Commands, CmdLoad, CmdReload, CmdInit, CmdTruncate, CmdWrite,
                CmdWriteShort, CmdEnds, Edit
  <2> QED BY <1>1, <2>1, <2>2 DEF CfgInv
<1>2. CASE LoadConfig
  <2>1. file \in Parsed /\ cfg' = Load(file) /\ UNCHANGED configVars
    BY <1>2 DEF LoadConfig, CfgInv, CmdInv, ConfigTypeOK
  <2>2. cfg' \in [Settings -> Values]
    BY <2>1, LoadReturns
  <2>3. \A s \in Settings \ damaged : cfg'[s] \in Known(s)
    BY <2>1, LoadKnown DEF CfgInv, CmdInv, ConfigTypeOK
  <2>4. CmdInv'
    BY <2>1 DEF CfgInv, CmdInv, ConfigTypeOK, KnownFile, configVars
  <2> QED BY <2>1, <2>2, <2>3, <2>4 DEF CfgInv, configVars
<1>3. CASE UNCHANGED <<configVars, cfg>>
  BY <1>3 DEF CfgInv, CmdInv, ConfigTypeOK, KnownFile, configVars
<1> QED BY <1>1, <1>2, <1>3, SettingsMove

LEMMA CfgStart == Init => CfgInv
  BY CmdInit0, DefaultReturns, KnownValues DEF Init, CfgInv

\* Each setting the daemon runs with, and each one the config command is about
\* to write, is one that the user's files or the defaults give, whatever was
\* killed or cut short before (config.go:172-225, 344-352).
THEOREM SettingsStayKnown == Spec => []SettingsKnown
<1>1. CfgInv => SettingsKnown
  BY DEF CfgInv, CmdInv, SettingsKnown
<1> QED BY <1>1, CfgStart, CfgStep, PTL DEF Spec

\* A saved config loads as what was saved (config.go:202-203), for any settings.
THEOREM ResavingKeeps == Spec => []ResaveKeeps
<1>1. ASSUME CfgInv PROVE ResaveKeeps
  BY <1>1, LoadKeeps DEF CfgInv, CmdInv, ConfigTypeOK, ResaveKeeps
<1> QED BY <1>1, CfgStart, CfgStep, PTL DEF Spec

----------------------------------------------------------------------------
(* What holds along the start *)

Notifying == {"notify", "wayland", "x11", "pump", "poll"}
Starting == {"off", "new", "hook"} \cup Notifying

\* Nothing that can deliver a clip runs before the hook is set.
HookInv ==
    \/ hook # "placeholder" /\ run \notin Starting
    \/ server = "none" /\ peers = "none" /\ run \in Starting \cup {"exit"}

\* What the notifier's goroutine holds where it is.
Holds == [none |-> {}, class |-> {}, window |-> {"class"}, map |-> {"class", "window"},
          listen |-> {"class", "window", "mapped"},
          loop |-> {"class", "window", "mapped", "listener"},
          unlisten |-> {"class", "window", "mapped", "listener"},
          unmap |-> {"class", "window", "mapped"},
          destroy |-> {"class", "window"}, ended |-> {}]
Making == {"class", "window", "map", "listen"}
Undoing == {"unlisten", "unmap", "destroy", "ended"}
PumpInv ==
    /\ pump \in DOMAIN Holds /\ res = Holds[pump]
    /\ pump \in Making => run \in {"pump", "exit"} /\ ready = "none" /\ ~alive
    /\ pump \in Undoing => ~alive
    /\ pump = "loop" => listening
    /\ run \in {"off", "new", "notify", "wayland", "x11"} => pump = "none"
    /\ run \in {"off", "new", "notify", "x11", "pump", "poll"} => source = "none"
    /\ source \in {"wayland", "x11"} => pump = "none"
    /\ pump = "none" => ready = "none"
    /\ run \in {"off", "new", "notify"} => ~alive

\* A change the watcher has not read is on its way to it.
FeedInv ==
    /\ watcher # "none" => run \notin Starting \cup {"watch"}
    /\ alive => listening \/ source = "wayland"
    /\ watcher \in {"compare", "select"} /\ unseen /\ source # "poll" /\ alive =>
        notify \/ events \/ (source = "wayland" /\ ~listening)

\* What is announced, as far as the start has come.
Announced ==
    /\ mdns # "none" <=> cfg["connection.mode"] = "discover" /\ cfg[Mdns] = "true"
    /\ beacon # "none" <=>
        cfg["connection.mode"] = "discover" /\ cfg["discovery.beacon"] = "true" /\ mdns # "failed"
AdvInv ==
    /\ run \in Starting \cup {"watch", "serve", "peers", "discover"} => mdns = "none" /\ beacon = "none"
    /\ run = "beacon" =>
        /\ cfg["connection.mode"] = "discover"
        /\ mdns # "none" <=> cfg[Mdns] = "true"
        /\ mdns # "failed" /\ beacon = "none"
    /\ run \in {"api", "up"} => Announced

StartInv == HookInv /\ PumpInv /\ FeedInv /\ AdvInv

USE DEF Notifying, Starting, Making, Undoing

LEMMA StartBegins == Init => StartInv
  BY DEF Init, StartInv, HookInv, PumpInv, Holds, FeedInv, AdvInv

LEMMA MainSteps ==
    ASSUME StartInv, Main \/ LoadConfig \/ LoadFails \/ Configure \/ Signal
    PROVE  StartInv'
<1> USE DEF StartInv, HookInv, PumpInv, FeedInv, AdvInv, Announced, Holds, Goes, Step, start, configVars, feed,
            windows, services
<1>1. CASE New \/ LoadFails
  BY <1>1 DEF New, LoadFails
<1>2. CASE LoadConfig
  BY <1>2 DEF LoadConfig
<1>3. CASE Configure \/ Signal
  BY <1>3 DEF Configure, Signal
<1>4. CASE StartLinux
  BY <1>4 DEF StartLinux
<1>5. CASE WaylandStarted
  BY <1>5 DEF WaylandStarted
<1>6. CASE X11Started \/ X11Fails
  BY <1>6 DEF X11Started, X11Fails
<1>7. CASE StartWindows
  BY <1>7 DEF StartWindows
<1>8. CASE PumpReady
  BY <1>8 DEF PumpReady
<1>9. CASE Poll
  BY <1>9 DEF Poll
<1>10. CASE SetHook \/ StartWatcher
  BY <1>10 DEF SetHook, StartWatcher
<1>11. CASE StartServer \/ StartPeers \/ StartApi \/ Exit
  BY <1>11 DEF StartServer, StartPeers, StartApi, Exit
<1>12. CASE StartDiscovery
  BY <1>12 DEF StartDiscovery, Discovers
<1>13. CASE StartBeacon
  BY <1>13 DEF StartBeacon
<1> QED BY <1>1, <1>2, <1>3, <1>4, <1>5, <1>6, <1>7, <1>8, <1>9, <1>10, <1>11, <1>12, <1>13
        DEF Main, Notifier

LEMMA OtherSteps ==
    ASSUME StartInv, Pump \/ Feed \/ Watch \/ Serve \/ UNCHANGED vars
    PROVE  StartInv'
<1> USE DEF StartInv, HookInv, PumpInv, FeedInv, AdvInv, Announced, Holds, start, configVars, feed,
            windows, services
<1>1. CASE PumpMakes
  <2>1. pump \in {"class", "window", "map"}
    BY <1>1 DEF PumpMakes, Made
  <2> QED BY <1>1, <2>1 DEF PumpMakes, Made, AfterMade, PumpOnly, Runs
<1>2. CASE PumpListens
  BY <1>2 DEF PumpListens, PumpOnly, Runs
<1>3. CASE PumpFails
  BY <1>3 DEF PumpFails, PumpOnly, Runs
<1>11. CASE PumpQuits
  BY <1>11 DEF PumpQuits, PumpOnly, Runs
<1>4. CASE PumpUndoes
  <2>1. pump \in {"unlisten", "unmap", "destroy"}
    BY <1>4 DEF PumpUndoes, Undone
  <2> QED BY <1>4, <2>1 DEF PumpUndoes, Undone, AfterUndone, PumpOnly, Runs
<1>5. CASE Change
  <2>1. HookInv' /\ PumpInv' /\ AdvInv'
    BY <1>5 DEF Change
  <2>2. FeedInv'
    BY <1>5 DEF Change
  <2> QED BY <2>1, <2>2
<1>6. CASE WlPasteListens \/ SourceEnds
  BY <1>6 DEF WlPasteListens, SourceEnds
<1>10. CASE Forward
  BY <1>10 DEF Forward
<1>7. CASE Watch
  BY <1>7 DEF Watch, Wake, Read, Compare, StopWatcher, WatcherOnly
<1>8. CASE Serve
  BY <1>8 DEF Serve, ServerBinds, ApiBinds, BeaconDials, Shutdown, ServiceOnly, Runs
<1>9. CASE UNCHANGED vars
  BY <1>9 DEF vars
<1> QED BY <1>1, <1>2, <1>3, <1>4, <1>5, <1>6, <1>7, <1>8, <1>9, <1>10, <1>11 DEF Pump, Feed

THEOREM Started == Spec => []StartInv
<1>1. StartInv /\ [Next]_vars => StartInv'
  BY MainSteps, OtherSteps DEF Next
<1> QED BY <1>1, StartBegins, PTL DEF Spec

\* No clip meets the placeholder: the server and the peers are started after
\* the hook is set (app.go:79-93).
THEOREM HookComesFirst == Spec => []HookFirst
<1>1. StartInv => HookFirst
  BY DEF StartInv, HookInv, HookFirst
<1> QED BY <1>1, Started, PTL

\* No change can arrive for an unmapped window, and a notifier that has ended
\* leaves nothing behind (notify_windows.go:190-228).
THEOREM WindowsStayMapped == Spec => []WindowMapped
<1>1. StartInv => WindowMapped
  BY DEF StartInv, PumpInv, Holds, WindowMapped
<1> QED BY <1>1, Started, PTL

\* A change that comes while the watcher waits is on its way to it, for every
\* kind of source that is still alive (notify_linux.go:73-83, notify_windows.go:190-207).
THEOREM NoChangeIsMissed == Spec => []NoGap
<1>1. StartInv => NoGap
  BY DEF StartInv, FeedInv, NoGap
<1> QED BY <1>1, Started, PTL

\* What is announced is what the settings say (discover.go:15-32).
THEOREM OnlyWantedIsAdvertised == Spec => []Advertised
<1>1. StartInv => Advertised
  BY DEF StartInv, AdvInv, Announced, Advertised
<1> QED BY <1>1, Started, PTL

----------------------------------------------------------------------------
(* Types *)

LEMMA FlagsStep ==
    ASSUME FlagsOK, [Next]_vars
    PROVE  FlagsOK'
<1> USE DEF FlagsOK, start, configVars, feed, windows, services,
            Goes, Step
<1>1. CASE Configure \/ LoadConfig \/ LoadFails \/ New \/ Exit \/ Signal
  BY <1>1 DEF Configure, LoadConfig, LoadFails, New, Exit, Signal
<1>2. CASE StartLinux \/ WaylandStarted \/ X11Started \/ X11Fails
  BY <1>2 DEF StartLinux, WaylandStarted, X11Started, X11Fails
<1>3. CASE StartWindows \/ PumpReady \/ Poll
  BY <1>3 DEF StartWindows, PumpReady, Poll
<1>4. CASE SetHook \/ StartWatcher \/ StartServer \/ StartPeers \/ StartDiscovery \/ StartBeacon \/ StartApi
  BY <1>4 DEF SetHook, StartWatcher, StartServer, StartPeers, StartDiscovery, StartBeacon, StartApi
<1>5. CASE PumpMakes
  <2>1. pump \in {"class", "window", "map"}
    BY <1>5 DEF PumpMakes, Made
  <2> QED BY <1>5, <2>1 DEF PumpMakes, Made, AfterMade, PumpOnly
<1>6. CASE PumpListens \/ PumpFails \/ PumpQuits
  BY <1>6 DEF PumpListens, PumpFails, PumpQuits, PumpOnly
<1>7. CASE PumpUndoes
  <2>1. pump \in {"unlisten", "unmap", "destroy"}
    BY <1>7 DEF PumpUndoes, Undone
  <2> QED BY <1>7, <2>1 DEF PumpUndoes, Undone, AfterUndone, PumpOnly
<1>8. CASE Feed
  BY <1>8 DEF Feed, Change, WlPasteListens, SourceEnds, Forward
<1>9. CASE Watch
  BY <1>9 DEF Watch, Wake, Read, Compare, StopWatcher, WatcherOnly
<1>10. CASE Serve
  BY <1>10 DEF Serve, ServerBinds, ApiBinds, BeaconDials, Shutdown, ServiceOnly
<1>11. CASE UNCHANGED vars
  BY <1>11 DEF vars
<1> QED BY <1>1, <1>2, <1>3, <1>4, <1>5, <1>6, <1>7, <1>8, <1>9, <1>10, <1>11
        DEF Next, Main, Notifier, Pump

LEMMA MovesOK ==
    ASSUME StatesOK, NEW from, NEW to \in RunStates, Goes(from, to)
    PROVE  StatesOK'
  BY DEF StatesOK, Goes, Step, start, configVars, feed, windows, services

LEMMA SourceOK ==
    ASSUME StatesOK, run' \in RunStates, source' \in {"none", "wayland", "windows"} \cup {source},
           UNCHANGED <<platform, hook, watcher, pump, ready, res, services>>
    PROVE  StatesOK'
  BY DEF StatesOK, services

LEMMA StatesStep ==
    ASSUME StatesOK, [Next]_vars
    PROVE  StatesOK'
<1> USE DEF StatesOK, RunStates, ServerStates, start, configVars, feed, windows, services, Goes, Step,
            PumpOnly, WatcherOnly, ServiceOnly
<1>1. CASE PumpMakes
  <2>1. pump \in {"class", "window", "map"}
    BY <1>1 DEF PumpMakes, Made
  <2>2. pump' \in {"window", "map", "listen"}
    BY <1>1, <2>1 DEF PumpMakes, AfterMade
  <2>3. res' \subseteq {"class", "window", "mapped", "listener"}
    <3>1. Made[pump] \in {"class", "window", "mapped"}
      BY <2>1 DEF Made
    <3> QED BY <1>1, <3>1 DEF PumpMakes
  <2>4. UNCHANGED <<platform, run, hook, watcher, source, ready, services>>
    BY <1>1 DEF PumpMakes
  <2> QED BY <2>2, <2>3, <2>4
<1>2. CASE PumpUndoes
  <2>1. pump \in {"unlisten", "unmap", "destroy"}
    BY <1>2 DEF PumpUndoes, Undone
  <2>2. pump' \in {"unmap", "destroy", "ended"} /\ res' \subseteq res
    BY <1>2, <2>1 DEF PumpUndoes, AfterUndone
  <2>3. UNCHANGED <<platform, run, hook, watcher, source, ready, services>>
    BY <1>2 DEF PumpUndoes
  <2> QED BY <2>2, <2>3
<1>3. CASE Configure
  BY <1>3 DEF Configure
<1>4. CASE LoadConfig
  BY <1>4 DEF LoadConfig
<1>5. CASE LoadFails
  <2>1. "exit" \in RunStates
    OBVIOUS
  <2> QED BY <1>5, <2>1, MovesOK DEF LoadFails
<1>6. CASE New
  BY <1>6 DEF New
<1>7. CASE Exit
  BY <1>7 DEF Exit
<1>8. CASE Signal
  BY <1>8 DEF Signal
<1>9. CASE StartLinux
  <2>1. run' \in RunStates /\ source' \in {"none", "wayland", "windows"} \cup {source}
    BY <1>9 DEF StartLinux
  <2>2. UNCHANGED <<platform, hook, watcher, pump, ready, res, services>>
    BY <1>9 DEF StartLinux
  <2> QED BY <2>1, <2>2, SourceOK
<1>10. CASE WaylandStarted
  <2>1. run' \in RunStates /\ source' \in {"none", "wayland", "windows"} \cup {source}
    BY <1>10 DEF WaylandStarted
  <2>2. UNCHANGED <<platform, hook, watcher, pump, ready, res, services>>
    BY <1>10 DEF WaylandStarted
  <2> QED BY <2>1, <2>2, SourceOK
<1>11. CASE X11Started
  BY <1>11 DEF X11Started
<1>12. CASE X11Fails
  BY <1>12 DEF X11Fails
<1>13. CASE StartWindows
  BY <1>13 DEF StartWindows
<1>14. CASE PumpReady
  <2>1. run' \in RunStates /\ source' \in {"none", "wayland", "windows"} \cup {source}
    BY <1>14 DEF PumpReady
  <2>2. UNCHANGED <<platform, hook, watcher, pump, ready, res, services>>
    BY <1>14 DEF PumpReady
  <2> QED BY <2>1, <2>2, SourceOK
<1>15. CASE Poll
  BY <1>15 DEF Poll
<1>16. CASE SetHook
  BY <1>16 DEF SetHook
<1>17. CASE StartWatcher
  BY <1>17 DEF StartWatcher
<1>18. CASE StartServer
  BY <1>18 DEF StartServer
<1>19. CASE StartPeers
  BY <1>19 DEF StartPeers
<1>20. CASE StartDiscovery
  <2>1. CASE Goes("discover", "api") \/ Goes("discover", "beacon")
    <3>1. {"api", "beacon"} \subseteq RunStates
      OBVIOUS
    <3> QED BY <2>1, <3>1, MovesOK
  <2>2. CASE Step("discover", "beacon") /\ mdns' = "on"
    BY <1>20, <2>2 DEF StartDiscovery
  <2>3. CASE Step("discover", "api") /\ mdns' = "failed"
    BY <1>20, <2>3 DEF StartDiscovery
  <2> QED BY <1>20, <2>1, <2>2, <2>3 DEF StartDiscovery
<1>21. CASE StartBeacon
  BY <1>21 DEF StartBeacon
<1>22. CASE StartApi
  BY <1>22 DEF StartApi
<1>23. CASE PumpListens
  BY <1>23 DEF PumpListens
<1>24. CASE PumpFails
  BY <1>24 DEF PumpFails
<1>25. CASE PumpQuits
  BY <1>25 DEF PumpQuits
<1>26. CASE Change
  BY <1>26 DEF Change
<1>27. CASE WlPasteListens
  BY <1>27 DEF WlPasteListens
<1>28. CASE SourceEnds
  BY <1>28 DEF SourceEnds
<1>29. CASE Forward
  BY <1>29 DEF Forward
<1>30. CASE Wake
  BY <1>30 DEF Wake
<1>31. CASE Read
  BY <1>31 DEF Read
<1>32. CASE Compare
  BY <1>32 DEF Compare
<1>33. CASE StopWatcher
  BY <1>33 DEF StopWatcher
<1>34. CASE ServerBinds
  BY <1>34 DEF ServerBinds
<1>35. CASE ApiBinds
  BY <1>35 DEF ApiBinds
<1>36. CASE BeaconDials
  BY <1>36 DEF BeaconDials
<1>37. CASE Shutdown
  BY <1>37 DEF Shutdown
<1>38. CASE UNCHANGED vars
  BY <1>38 DEF vars
<1> QED
  BY <1>1, <1>2, <1>3, <1>4, <1>5, <1>6, <1>7, <1>8, <1>9, <1>10, <1>11, <1>12, <1>13, <1>14,
     <1>15, <1>16, <1>17, <1>18, <1>19, <1>20, <1>21, <1>22, <1>23, <1>24, <1>25, <1>26, <1>27,
     <1>28, <1>29, <1>30, <1>31, <1>32, <1>33, <1>34, <1>35, <1>36, <1>37, <1>38
     DEF Next, Main, Notifier, Pump, Feed, Watch, Serve

\* The types of the daemon's state, and of the config command's.
THEOREM TypeCorrect == Spec => []TypeOK
<1>1. Init => FlagsOK /\ StatesOK
  BY PlatformsAssumption DEF Init, FlagsOK, StatesOK, RunStates, ServerStates
<1>2. FlagsOK /\ StatesOK /\ CfgInv => TypeOK
  BY DEF TypeOK, CfgInv, CmdInv
<1> QED BY <1>1, <1>2, CfgStart, CfgStep, FlagsStep, StatesStep, PTL DEF Spec
=============================================================================
