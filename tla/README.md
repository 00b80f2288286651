# Verification of the clipshare server

TLA+ models of the clipshare daemon (`src/internal/`, Go), TLC configurations
that check them on small instances, and proofs of their main properties for
every instance. Paths below are relative to the repository.

## 1. The system

A daemon runs on a desktop. It watches the desktop clipboard and pushes changes
over WebSocket to its *clients* (phones that connect in) and its *peers* (other
daemons it connects out to); clips that clients send are written to the desktop
clipboard and relayed to the other clients and to the peers, clips that peers
push are only written.

| component | code | state | operations | modelled in |
|---|---|---|---|---|
| content and codec | `clip/clip.go`, `protocol/codec.go` | none | hash, to and from the wire | `Content` |
| Linux clipboard | `clip/clip_linux.go`, `clip/backend_linux.go` | the desktop's selection (external) | list, fetch, write through wl-paste/wl-copy, xclip or xsel | `Content` |
| Linux notifiers | `clip/notify_linux.go` | a process or an X connection, a channel of capacity one | start or fall back, forward change events, end | `App` (start), `Watcher` |
| Windows notifier | `clip/notify_windows.go` | window, listener, map of channels | make, report, pump messages, undo | `App` |
| watcher | `clip/watch.go` | `lastHash`, `skipHash`, mutex `w.mu` | poll or await events, settle, check, callback; `LocalWrite` | `Watcher`, wired in `Daemon` |
| WebSocket server | `websocket/{server,handlers,broadcast,client}.go` | client and peer registries, last clip with its time, each client's last clip with its time; mutexes `s.mu`, `c.mu` | admit, handshake, read, echo check, apply, relay, broadcast, leave | `Hub` |
| outbound links | `websocket/peer.go` | connection, backoff, registration | dial, redial with backoff, hello, read, keepalive, send, close | `PeerLink`; pushes in `Daemon`; several daemons in `Mesh` |
| daemon wiring | `cli/app/app.go` | the hook, the watcher | start everything, `writeRemote`, callback | `App`, `Daemon` |
| control API | `api/` | none | send, status | send in `Hub`, listening in `App` |
| one-shot `send`, `watch` | `cli/commands/send`, `cli/commands/watch` | one channel | temporary server for one clip | `Transient` |
| certificates | `certs/` | four kinds of files | init, issue, export, load | `Certs` |
| configuration | `config/`, `cli/commands/configcmd` | one file | load with defaults, save | `Config` |
| discovery | `discover/` | mDNS registration, beacon socket | start, end | `App` |
| TLS set-up | `websocket/tls.go` | none | load the pair and the pool | `Certs` (loaders) |
| Windows clipboard, command line, logging | `clip/clip_windows.go`, `cli/`, `log/` | none of interest | | not modelled |

How they interact: the watcher calls `BroadcastLocal` from its goroutine;
`handleSend` calls it from an API goroutine; each connection's goroutine calls
`LocalWrite` (which takes `w.mu`) and then `Broadcast`. `s.mu` guards the
registries and the echo record and is held for a whole broadcast, including
`PeerClient.Send` for every peer. A peer's `run` takes `s.mu` to register and
unregister itself, and its `readLoop` calls `LocalWrite` without relaying.

What is hard about it: loop protection across two goroutines and an OS that
reports the daemon's own writes as changes; a mesh of daemons in which only
hashes stop a clip; coalesced events, and reads made of several commands;
broadcasts against registration and removal; slow and vanished clients; echo windows;
reconnection while broadcasts use the link; notifiers that fail half-started; a
callback that closes a channel without a lock; commands that die between two
writes. `PROJECT.json` lists each hazard at its line, with the properties that
cover it or the reason none does.

## 2. Modules

| module | what it is |
|---|---|
| `Content` | contents, hash, wire format, what the Linux backends read and write |
| `Watcher` | the watcher, the notifier, the desktop and `LocalWrite` |
| `Hub` | the server with its connections, local sources and peers |
| `Fanout` | what the hub promises: one log, each target receives the newest entry or nothing |
| `Daemon` | watcher and hub as `App.Run` wires them |
| `Mesh` | several daemons that are each other's peers, one step per handler |
| `PeerLink` | one outbound link, the broadcasts that use it and the remote's handler |
| `Transient` | the commands `send` (one-shot) and `watch` with their temporary server |
| `Certs` | the certificate directory, the commands that write it and the daemon that reads it |
| `Config` | the configuration file and the command that writes it |
| `App` | the daemon's process: settings, order of the start, notifiers, services, end |
| `MC...` | payloads, messages, files, links and symmetry for TLC |
| `...Proofs` | theorems and proofs about `Watcher`, `Hub` with `Fanout`, `Daemon`, `Mesh`, `PeerLink`, `Transient`, `Certs`, and `Config` with `App` |

**Content.** A payload is a model value. FNV-1a is injective, base64 a tag. The
clipboard holds an *offer*: the MIME types in the owner's order and the payload.
A read lists the types (`Listed`: the default image type, else the first image
type) and fetches (`Fetch`: that image if it is still offered, else text). `Read` is both with
nothing in between and no tool failing. The Linux readers return no error. A tool that cannot list the
types or fetch the image, or fetches no bytes, leaves its place to the text tools, even for an image
the daemon wrote itself, and text tools that fail leave the empty text: `Misread` is what such a read may return.

**Watcher.** `pc` is the control state of `Run`, `mu` the holder of `w.mu`.
`check` is `CheckList`, `CheckRead`, `CheckDecide` (under the mutex) and `OnChange`
(outside it); `LocalWrite` is `WriteClip` and `WriteMark`, or `WriteFails`.
The user may copy between any two steps, so also between listing and fetching,
which tears the read, and with `ToolsFail` any read, the first snapshot included, may return what failing tools
leave (`Misreadable`). The notifier may end at any time (`NotifierDies`); the code
does not notice. `copies`, `owner`, `seen` and `reported` are bookkeeping
for the properties: which copy was read, who made it, whether it was read whole
(as it reads when nothing fails), and which copy was last reported without a failed or torn read since.
The error branch of `check` (`watch.go:136-140`) is not in the model, as neither `linuxClip.Read` nor
`winClip.Read` returns an error.

**Hub.** Each connection has a goroutine with a control state: `new`, `hello`,
`hook`, `reply`, `loop`, `dedup`, `apply`, `relay`, `send`, `leave`, `gone`; the watcher and the API
go from `idle` to `relay` to `send`. `mu` is held across steps only by a
broadcast; other critical sections are single steps guarded by `mu = None`. A
broadcast takes the targets of its registry snapshot one by one (`todo`), in any
order (Go's map order), clients before peers. Echo windows may be over whenever
they are consulted. A write to a stalled client closes its connection
after `WriteTimeout` (`WriteFails`). `log` and `got` record broadcasts and
deliveries.

**Daemon.** `INSTANCE`s of `Watcher` (polling) and `Hub` side by side. They meet in three places:
the watcher's `OnChange` is the hub's `Report`; a connection in `apply` goes through
`WriteClip` and `WriteMark` before the hub goes on (`Write`, `Mark`), and goes on as well when the
write fails; a peer's reader writes without relaying. `shows`, `inputs`, `unwritten`, `calm`
and `sound` (every read so far returned what it should) are history for the properties.

**Mesh.** A link `<<d, e>>` says that d dials e: d sees e as a peer, e sees d as a
client. Each handler of a daemon is one step (the interleavings inside are
`Daemon`'s). Both directions of a link are queues. `Break` and `Restart` lose what is on
the wires; a restarted daemon remembers nothing but its clipboard.

**PeerLink.** `run` step by step: `TlsConfig` may end it before the first dial, as a link whose certificates cannot be
loaded is given up for good; then the loop, with `Send` in two steps (copy the
connection, write to it) because `close` may come in between. A frame in flight is
in `wire`; the remote insists that the first is a hello.

**Transient.** `main` is the control state of the command, which waits for a
channel; `pc` that of each connection's goroutine. `Full` is `SetMaxClients(1)`,
`once` the `sync.Once` around send's hook, `signal` the channel. `CheckSignal` and
`CloseSignal` are the two halves of `closeOnce`. A goroutine stops wherever it is
when the command returns and the process ends. The server code is the hub's; what
main cannot see of it (relays, the order of targets) is left out here.

**Certs.** A certificate is the key it is for and the key that signed it. A file
is absent, torn (truncated, not yet written) or whole. `InitCA`, `Issue` and
`Export` start a command, `OpenCert` to `FillBundle` are its writes in order, and
`CutShort` ends it between any two. One command runs at a time; loaders of the
daemon read certificate, key and pool in separate steps meanwhile.

**Config.** A file maps each setting to the value written there, or is garbage. `Load`
puts defaults in place of what is missing or not accepted and makes the two mdns keys one.
The command loads (twice, as the code does), truncates and writes; `CmdWriteShort` leaves a
prefix of lines, perhaps with half a number. A string that needs an
escape TOML does not have makes the whole file garbage.

**App.** `run` is the control state of `App.Run` in the order of the code: notifier
(wl-paste with its 250 ms of probation, X11, or on Windows the goroutine `pump` with its handshake
`ready`; else polling), hook, watcher, server, peers, discovery, API. Each part has a small state
of its own, and each can fail. The watcher is there in outline: what signals it, and
whether a change is still `unseen`. It extends `Config`: a daemon loads whatever file commands
and the user left.

Operators introduced by a comment that says *Fault* are variants of the
definition that follows them, each with one plausible bug. They are not part
of the specification: substituting one for its definition shows that a property
notices it.

## 3. Runs

All models but `Certs` stop (bounds are used up, contexts are cancelled, commands
return), so only its run checks for deadlock; the liveness properties show that nobody waits for ever.

| run | instance | shows |
|---|---|---|
| `MCWatcher` | events or polling, Wayland, a text and an image with two image types and a text, 3 copies, 2 deliveries, tools that fail at any read | `NoSelfReport`, `NoLostChange`, `NoDoubleReport`; with fairness `ChangeReported` |
| `MCHub` | 2 connections, one stalled, 1 peer, the watcher, 2 clips, an oversize image | `TypeOK`, `RelayReachesAll`, `RegistryExact`, `FanoutSpec`; with fairness `ClipHandled`, `BrokenLeaves` |
| `MCDaemon` | 2 clients, 1 peer, the API, the user; 2 clips after the first; reads and writes that fail | `ClientsAgree`, `DesktopAgrees`, `NothingUnsent`, `WatcherSpec`, `HubSpec` |
| `MCMesh` | 4 daemons as star, chain, triangle, diamond; 2 clips, 2 broken links or restarts | `NoEcho`, `BroadcastOnce`, `Converges`; with fairness `Settles` |
| `MCApp` | Linux and Windows, with and without watching; 6 settings, 4 files, broken ones among them | `TypeOK`, `SettingsKnown`, `ResaveKeeps`, `NoGap`; with fairness `Starts`, `Heard` |
| `MCPeerLink_link` | default delays (1 s to 30 s), 3 frames in flight | `TypeOK`, `NoStaleSend`, `UnlinkedWhileWaiting`; with fairness `Reconnects`, `LinkEnds` |
| `MCTransient` | both commands, 3 connections, 2 pushes | `TypeOK`, `SentOnce`, `NeverPanics`, `ServedOrBroken`; with fairness `Ends` |
| `MCCerts` | 2 devices, 4 keys, 2 commands cut short, 1 deletion of `ca.pem`, 1 loader | `TypeOK`, `DaemonTrustsDevices`, `ReportedIsWhole`, `LeavesVerify` |

Four runs show where the code differs from what its documents, comments or tests say:

| run | shows |
|---|---|
| `MCWatcher_sticky` | after x was delivered and a copy of y was reported, a copy of x is not: `skipHash` never ends. TLC's trace has the delivery before the first snapshot, where it is shortest |
| `MCWatcher_phantom` | what a failed read returns is reported as a change: in the trace, a text whose tools fail is reported as a copy of the empty text |
| `MCMesh_echo` | two daemons that dial each other: the echo of a local broadcast is taken for a new clip and broadcast again |
| `MCPeerLink_hello` | a broadcast can overtake the hello, and the remote hangs up |

What `Daemon` adds to its parts: `WatcherSpec` and `HubSpec` say that the wiring keeps to the
protocol of each (so what is proved of each holds of the daemon); `NothingUnsent` that, however
clips race, what a settled desktop holds was broadcast, unless it came from a peer or was
too big, whatever reads fail; `DesktopAgrees` that clips that come one at a time get to the desktop, whatever reads
fail; `ClientsAgree` that they get to every client, as long as reads are sound (`sound`). With a failed read
the last does not hold on Linux: the tools fail on a clip that a peer pushed, the watcher reports the
empty text, and the clients show that. It is the bug of `MCWatcher_phantom`, carried to the clients.
For clips that race neither holds, and nothing promises them.

Also met while modelling, without a run of their own:

- A clip whose clipboard write failed is remembered as the last one, so the sender's retry within the echo window
  is dropped (`handlers.go:132`; `DesktopAgrees` excepts it).
- A local image above `max_image_bytes` is sent (`broadcast.go:39-55`, against `docs/configuration.md:31`), and
  a local broadcast does not open the echo window (`docs/configuration.md:69`).
- `docs/configuration.md:68` calls `timing.peer_backoff_max` the "Max reconnect delay", 30 s by default, but the code
  reaches 32 s: it compares the backoff before it doubles it (`peer.go:79-85`). What holds is `BackoffBounded`, less than twice the
  maximum, a theorem and no claim of the documents. After a hello that cannot be written the link is dialled again at once.
- A picture whose image tool fails while the text tool succeeds is reported as a text, also one that the daemon itself
  wrote, where `wl-paste` prints it (`backend_linux.go:70-73, 92-94`): its client gets it back as a text. `NoSelfReport` is about sound reads.
- An image delivered under a type that is not `image/*` reads back as text and is reported as a change
  (`backend_linux.go:88`, against `watch_test.go:199`).
- A copy between listing and fetching is broadcast as its text, or as the empty text if it has none, before it
  is broadcast whole (`backend_linux.go:83-98`).
- A copy is withheld from a client that sent the same content within the echo window, though it
  has shown another since (`broadcast.go:47`).
- Clips pushed by a peer go no further, so a chain of daemons does not converge (`peer.go:136`; `Converges` asks for
  daemons that are linked, or dial one server).
- Two daemons that dial each other, with a clip each on the way, may write and broadcast them for ever.
- wl-paste dying after its first 250 ms leaves the watcher deaf (`notify_linux.go:87`).
- A configuration string with an escape TOML does not have is written by `Save` and then not parsed
  (`config.go:281`); and since every command loads the file first (`registry.go:35`), not even `config --init` mends it.
- A number cut short by a crash of `Save` is loaded as a value.
- When mDNS cannot be registered the UDP beacon is not started; when the server cannot listen that is
  only logged, and discovery announces it all the same.
- `watch` writes a second push over the first if it is handled before the command returns
  (`watch.go:64-74`, against `README.md:158`). One-shot `send` counts a clip as
  delivered when the write to its only client failed (`send.go:89-91`).
- A half authority, left by an `init` that died, must be deleted by hand although replacing
  it would be harmless: `LeavesVerify` says no certificate depends on it.

**Bounds.** Two payloads suffice to distinguish "the same" and "another" hash;
three copies and two writes let a copy and a write each come before and after
the other, with one of them repeated; the hazards in the watcher need at most
two writes. Its image offers a text too, so that a read can be torn both ways. Two connections and a peer give every pair of roles in a
broadcast (origin, other client, peer). Two clips
are in the hub at once at most where races of broadcasts are the question, and
more add length, not interleavings. In `Daemon` two clients, a peer, the API and the user race pairwise, and a clip of one client is relayed to the other; its state constraint keeps
the rest small: the desktop starts with the text, connections are made while nothing else goes on (in `MCHub` they race), and at most one of them, or the link, ends.
Four daemons give the smallest meshes with each role twice (dialled by several,
dialling several, both, neither), and the smallest cycle of links that is not a triangle; two faults break a link and then the daemon
that would repair it. The six settings of `MCApp` are one of each kind: the two mdns keys, a number, a
free string, a choice, a switch; the files bring each branch of `Load` and of discovery. Three frames hold a hello, a clip and a ping. Three connections
let one be served, one be refused and one come after. Four keys make an authority, its
successor and two leaves, or an authority and a reissued leaf; a second fault can hit
the command that repairs the first. The
proofs below do not depend on any bound.

**Views.** `MCDaemon` compares states by what guards and its three invariants read. The view leaves out bookkeeping of the parts
(`entry`, `got`, `log`'s order, `copies`, `owner`, `reported`), which those invariants do not read, but which the refinements
`WatcherSpec` and `HubSpec` mention: TLC checks these on the transitions of one representative of each class of states,
not on all of them. That they hold everywhere is what the theorems `WatcherIsUsedWell` and `HubIsUsedWell` prove;
the run is the quick test that finds a wrong wiring, as its mutants show. The two clients are symmetric. `MCApp` forgets file, command and
settings once the daemon has started, except the three settings discovery looks at: the command's steps
are only possible before, and the remaining invariants about settings speak of values that no longer change.

**Fairness.** Goroutines that can run do (weak fairness). A mutex is handed over
in turn: Go's mutexes hand over to a waiter after 1 ms, so a step that waits
for one is strongly fair. A `select` with several ready cases picks at random,
so the case of a done context is strongly fair. A hello, a write and a dial have
timeouts, so their failing ends are fair too. A redial succeeds if the remote can be
reached again and again. The call of `send` to the daemon returns (the handler does,
see `ClipHandled`) and the timers of `send` and `watch` fire. Tools that read the clipboard do not fail for ever: where the watcher reads again and again, some read is sound
(`ChangeReported` needs it in polling mode; in event mode a change that was read badly is not read again, and the property excepts it). In `App`, wl-paste begins to watch, and each
goroutine goes on while the process lasts. In `Mesh`, watchers keep checking and connections are
read. Nothing is assumed of users, clients or the network, nor that a source of changes lives on.

## 4. Proofs

| theorem | statement |
|---|---|
| `WatcherProofs!TypeCorrect` | `Spec => []TypeOK` |
| `WatcherProofs!LoopProtection` | if delivered clips read back as written when no tool fails (`RemoteIsShown`), `Spec => []NoSelfReport`: sound reads of the daemon's own writes are not reported, whatever failed before |
| `WatcherProofs!ChangesAreSeen` | `Spec => []NoLostChange`, while the notifier lives and whatever reads fail |
| `WatcherProofs!AtMostOnce` | if an offer reads as one content when no tool fails (`ReadsAreStable`), `Spec => []NoDoubleReport`: again only after a failed or torn read |
| `HubProofs!TypeCorrect`, `RegistryIsExact`, `BroadcastIsLocked`, `ClientsAreCapped`, `RelaysAreComplete` | the hub's invariants, `TargetsRegistered` and `ClientCap` among them, which no run checks |
| `HubProofs!HubImplementsFanout` | `Spec => FanoutSpec`, from which `DeliveriesAreOrdered` |
| `DaemonProofs!WatcherIsUsedWell`, `HubIsUsedWell` | `Spec => WatcherSpec` and `Spec => HubSpec`: the wiring takes no step its parts do not describe |
| `DaemonProofs!HubKeepsItsPromises`, `DaemonIsNotItsOwnUser`, `DaemonReportsOnce` | so the daemon has the invariants of the hub, and those of the watcher under their hypotheses |
| `DaemonProofs!NothingGoesUnsent` | if delivered clips read back (`RemoteIsShown`), the API's clips are clips (`ApiIsSound`) and a failing read of one copy does not return another (`CopiesAreTold`), `Spec => []NothingUnsent`, whichever reads fail |
| `DaemonProofs!DesktopShowsTheNewest` | if `RemoteIsShown` and `ApiIsSound`, `Spec => []DesktopAgrees`, whichever reads fail or are torn |
| `DaemonProofs!ClientsGetTheNewest` | if `RemoteIsShown`, `ApiIsSound` and each copy reads as one content (`CopiesReadAsOne`), `Spec => []ClientsAgree`, which is about sound reads |
| `MeshProofs!TypeCorrect` | types in any mesh |
| `MeshProofs!NoEchoWithoutLoops`, `OnceWithoutLoops` | `Spec => []NoEcho`, `Spec => []BroadcastOnce`: for any number of daemons, clips and faults, and any links without loops |
| `MeshProofs!CoveredMeshConverges` | `Spec => []Converges`, for any number of daemons and clips |
| `PeerLinkProofs!TypeCorrect`, `BackoffIsBounded`, `SendsAreFresh`, `WaitsAreUnlinked` | the link's invariants |
| `TransientProofs!TypeCorrect`, `OneReceiver`, `ClosedOnce`, `LostWithConnection` | the invariants of `send` and `watch`, for any number of connections |
| `CertsProofs!TypeCorrect`, `RunningDaemonTrusts`, `SuccessIsWhole`, `TrustIsKept`, `BundlesAreSound` | the directory's invariants, for any number of faults |
| `AppProofs!TypeCorrect`, `SettingsStayKnown`, `ResavingKeeps` | the settings, for any files, settings and values |
| `AppProofs!NoChangeIsMissed`, `HookComesFirst`, `WindowsStayMapped`, `OnlyWantedIsAdvertised` | the start: `NoGap`, and `HookFirst`, `WindowMapped`, `Advertised`, which are only proved |

*Watcher.* `LockInv` ties `mu` to the critical sections. `MarkInv` is the
heart of loop protection: if the daemon owns the clipboard and no write is being
marked, the hash of what is there is `skipHash`; and what `check` has read while it
holds the mutex is either the user's, or that hash, or not sound. `skipHash` is needed for it: a failed read makes `lastHash` another's. `CoverInv` and `TornInv` say that if
the last comparison is out of date or a read is torn, an event, a signal or a settling check is
on its way. `LastInv` relates `lastHash` to the copy read last; a read that is not sound resets `reported`.

*Hub.* `RegInv` relates the registry to control states, `LockInv` the mutex to the
broadcast in progress, `DeliveryInv` what each target has received to what is
left in `todo`; `OrderInv` and `BehindInv` bound the latest entry
a target received, which is what a step of `Fanout` needs. The initial state and each
step map to `Fanout` with `log` and `got` as they are.

*Daemon.* That the daemon's steps are steps of its parts needs little: what a read
returns, also torn or failed, is a clip the hub knows (`ReadInv`), and what a connection handles was decoded
from a message (`HandledInv`). The theorems of `WatcherProofs` and `HubProofs` then hold with the
daemon's variables in place of theirs.

`NothingUnsent` rests on `KnownInv`: each of the two hashes the watcher compares with, `lastHash` and
`skipHash`, was broadcast, or is about to be (by
the callback, or by a connection before its relay), or need not be (`Sent`), or else is one that no copy of the user
reads as. So a copy cannot be taken for known
without having been sent. `CopiesAreTold` is needed because the code compares hashes: were a torn or
failed read of one copy the content of another, that other would be known before it was reported.

`ClientsAgree` and `DesktopAgrees` rest on `Calm`, which holds as long as clips come one at a time and none
repeats. All clips have different hashes (`DistinctInv`), so each hash that could pass a new clip for an
echo (`lastHash`, `skipHash`, the server's last clip, a client's last clip) is that of an older one
(`EchoInv`). The invariant has two parts. The desktop's needs nothing of the reads: the newest clip that was copied or
written is what the desktop holds (`DesktopInv`), unless a connection or a peer's reader is still about to write it
(`HandsInv`). The clients' part, `Told`, is kept while reads are sound (`Sure`): the newest is in exactly one place on its way
(`BusyInv`, `WatchInv`): not read yet, at the callback, at a connection before or after its write, or in a broadcast whose `todo` has every client
that it is meant for and that does not show it (`NewInv`, `ClientsInv`). An oversize image that a client sent is dropped by the server, so it is
meant for that client only (`MeantFor`).

*Mesh without loops.* `Loopless` counts daemons and links; the proof needs that each link is the
only way between its ends (`Bridges`): on one side of it there is a set of daemons that no other link leaves. `LooplessBridges` derives it: take a largest set of
daemons tied to one end by other links; if it held the other end, these links and this one would touch too few daemons;
and any link that left it would make it larger. `Away` says that a link leads from the side
where a clip was copied to the other. `TreeInv` is inductive: whatever is on a wire goes away from its
origin (`UpIsAway`, `DownIsAway`), so never back to it; a daemon that broadcast a clip of another got it from a client that had
broadcast it (`SentCame`); what is on its way up was not broadcast at its end yet. Since one way at most leads to a server
(`OneWay`), the clip comes up one link only, once. Faults only take clips off the wires.

*Covered meshes.* A clip nobody copied is nowhere (`FreshInv`). With clips copied one at a time either the newest has not been
read at its origin, nothing is on a wire and no echo check knows it (`Unsaid`), or its daemon has told it (`Told`): no other clip
is on a wire, the origin and every server that relayed it show it, and so do their clients unless something is still on
the way down to them (`Reached`), and each server the origin dials is such a server unless something is still on the way up.
When the wires are empty, those that are linked to the origin or dial one server with it show it. The invariant holds
with loops too.

*PeerLink.* `ConnInv` says where `run` holds a connection, `IdleInv` that
outside registration no broadcast is in progress on the link.

*Transient.* `OneClient` says that the registry holds exactly the connection being
served, from which `Stages` follows: whoever is about to close the channel is
alone and finds it open.

*Certs.* `WritesPair` ties the files to the pair being written and its signer,
`ReplacesNone` says that a new authority takes the place of no whole one,
`PairsMatch` that without faults only the pair being written is mixed. `ReadTrusted` carries what a loader has read of the pair to the moment it
reads the authority and beyond: a whole authority stays (`AuthorityStays`), and whatever is whole was signed by it.

*Config and App.* `LoadKeeps` (loading what was saved is the identity) and `KnownFile` (every file is
the user's, garbage, or made of known values) carry the settings; `CmdInv` is inductive under the
command and its cut-off writes. `StartInv` is the conjunction of what each control state of
the start and of the Windows goroutine has set up (`HookInv`, `PumpInv`, `FeedInv`, `AdvInv`); `FeedInv` says that a change the watcher
has not read is in the source, in the channel or will be announced.

The assumptions of the modules (`...Assumption`) are evaluated by the runs. The hypotheses of single
theorems hold in the instances in which the runs check the same property. Every invariant and every refinement
that a run finds to hold is proved. Only model-checked is
liveness: `ChangeReported`, `ClipHandled`, `BrokenLeaves`, `Settles`, `Starts`, `Heard`, `Reconnects`, `LinkEnds`,
`Ends` (the prover handles neither liveness under fairness nor `ENABLED`). The four disagreements
with documents are counterexamples, which need no proof.

## 5. Not modelled

Reading and writing the Windows clipboard (a library's), the packets of discovery and their period, the TLS handshake, argument parsing,
output, logging, the status handler, sizes
(a set of oversize images stands for them, so neither base64's growth nor the missing check of local images is judged), time (every timeout may come at any
moment; a clipboard that changes all the time within the settle delay is not read, which only a bound on time
could state), keepalives that outlive their connection, and memory-level data races (`Clients` reads names without the
handler's synchronisation).

## 6. What could follow

1. `Daemon` with the notifier instead of polling.
2. An abstract clip source refined by `Watcher`, and its proof.
