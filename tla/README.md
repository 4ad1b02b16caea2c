# Smugly / SlipstreamCLI: TLA+ verification project

This directory holds TLA+ models of the parts of the repository that carry its own
control logic, the TLC configurations that check them on small instances, and TLAPS
proofs of the results that matter most. Paths below are relative to the repository;
`TinyVpnService.kt` is `src/app/src/main/java/app/smugly/service/TinyVpnService.kt`,
and so on (`PROJECT.json` has the full paths and, under `map`, the lines each
definition translates).

To check: `tlc -config X.cfg M` for the module and configuration of a run in
`PROJECT.json`, `tlapm M.tla` for the eight `*Proofs` modules.

## 1. Inventory

The repository is a client for several tunnel engines (slipstream over DNS, Xray,
cdnfu, s3fu) with an Android application (`app/`), a Windows desktop application and
shared Kotlin code (`shared/`), a Go wrapper around Xray (`xray-mobile/`), and tun2socks:
JNI glue (`app/src/main/cpp/`) around hev-socks5-tunnel, kept as source with the program and
changed by it. Of the C lines most belong to libraries below tun2socks (lwIP with PPP,
SLIP and its socket API, libyaml, the task system's ports to other systems); the life
cycle, the sessions, the fake-IP DNS and the SOCKS client of tun2socks are the C code the
tunnel's correctness rests on, and they are modelled. The rest of the logic is Kotlin.

### Components

| Component | State it keeps | Operations | What is hard | What makes it correct |
|---|---|---|---|---|
| Android tunnel service (`TinyVpnService.kt`) | `starting`, `stopping`, `tunnelActive`, `lifecycleGeneration`, the teardown latch, the engines, the TUN descriptor, hev | START/STOP intents, `onDestroy`, a start thread per START, a cleanup thread per stop, a block posted to the main thread | main thread, start threads and cleanup threads share volatile fields without a lock; a start can be cancelled at every step; a restart overlaps the previous teardown | nothing is left running by a stop; a tunnel is up with all of its parts; the last command wins; `starting` is never stuck |
| Tunnel recovery (same file; `RecoveryReasonClass.kt`, `ResolverHealthGate.kt`) | `recovering`, the pending retry, the condemned resolvers, the current choice, cooldown | diagnostics tick, delayed retry, network recheck, resolver health thread, the recovery thread itself | recovery against stop; two detectors starting recoveries; retry against running recovery; stale network and resolver judgements | no client survives a stop; one retry at a time; a condemned resolver is the last resort; a dark tunnel comes up again when it can |
| Resolver selection (`ResolverSelector.kt`) | a ranked cache, the condemned set of its caller | `chooseFast`, `choose`, probes | preference order and fallbacks interact with the condemned set | a condemned resolver is the last resort |
| SOCKS bridge (`MiniSlipstreamSocksBridge.kt`, `SocksProtocol.kt`) | per connection: phase, three buffers, ends of stream, interest sets; active and total counters | accept, connect, handshakes on both sides, relay, evict, reap, stop, start | partial reads and writes in every split, pipelined messages, half-close behind backpressure, hand-computed interest sets | no byte lost or reordered; FIN after data; every connection can be woken and none spins |
| Connection reaper (`ConnReaper.kt`) | four timestamps per connection | `shouldReap` | limits that interact; off-by-one at a boundary | everything quiet, stuck, half closed or old is reclaimed |
| Windows system proxy (`WindowsSystemProxy.kt`, `SysProxy.cs`) | the registry values, the WinINET side, the backup file | `snapshot`, `apply`, `restore`, `recoverFromCrash` | a crash between any two of the writes; one write of several failing; start and stop threads together | the user's own settings can always be restored |
| Desktop tunnel (`DesktopTunnel.kt`, `DesktopPlatform.kt`) | engine, listener, status | connect, disconnect, select profile, each on a thread of its own | no lock between those threads | as above; no engine without an owner |
| Engine process (`EngineProcess.kt`) | the child process, a pid file per engine | start, stop, reap an orphan | crash between spawn and pid file | no orphan keeps the port |
| Android platform (`AndroidSmuglyPlatform.kt`) | an optimistic status | sends commands, receives status | status against late answers | the status converges to the service's |
| Watches (`BridgeFailureWatch.kt`, `StallRatioWatch.kt`, `DetachedThreadWatch.kt`, `SocketActivityTracker.kt`) | sliding windows of events | record, ask, reset | boundaries of windows, cooldowns | alarm exactly when the window's content says so |
| tun2socks life cycle (`hev_jni.c`, `HevSocks5Tunnel.kt`, `hev-main.c`, `hev-socks5-tunnel.c`) | the thread handle, `tunnel_running`, the reject flags, the configuration, the task system, the session list, the event descriptors | `nativeStart`, `nativeStop`, the thread's init, run and fini; accept, insert, update, remove a session | a mutex the native thread does not take; init may fail at each step; joins and wakeups between tasks | the flag says whether the thread lives; no wakeup of a task that is gone; stop returns |
| tun2socks TCP session (`hev-socks5-session-tcp.c`, `hev-ring-buffer.c`, `hev-socks5-client.c`) | the pcb, the queue, the ring, the socket, the timeout | lwIP's receive, sent and error callbacks, splice in both directions, connect, handshake, terminate | edge-triggered events, a ring lwIP sends from without copying, half-close, memory that refuses a write, connections freed under the session | each direction is a byte stream; no lost wakeup; window and ring accounts exact |
| tun2socks UDP session (`hev-socks5-session-udp.c`, `hev-socks5-udp.c`) | the frame list, the slots of names, the carrier | receive, forward up and down, learn and look up a name | a batch that waits inside a send while callbacks append; replies in any order | order kept, each reply from its peer |
| Fake-IP DNS (`hev-mapped-dns.c`, `hev-list.c`) | a tree, an LRU list, an array of names | find, handle, lookup | an address that changes its name while an app uses it | an answer holds while it is in use |
| hev-task-system, lwIP (vendored) | coroutines, epoll, timers; connections | wakeup, join, sleep; callbacks | see the rows above | as used by the rows above |
| Mixed proxy (`MixedProxyServer.kt`) | as the SOCKS bridge | as the SOCKS bridge, with HTTP CONNECT and plain HTTP | as the SOCKS bridge | as the SOCKS bridge |
| Subscriptions and profiles (`SubscriptionRepository.kt`, `SubscriptionManager.kt`, `FileProfileStore.kt`) | JSON files | load, modify, save; refresh over the network | a refresh saves over an edit made while it waited | no edit is lost |
| Engine bridges, `libxray.go` | one native handle each | start, stop, ready | double start, stop during start | one instance at a time |
| Share links, TOML/JSON configuration, latency probes, UI | none, or only the screen | conversions, one-shot I/O, drawing | formatting | - |

### Interactions

- The UI sends START and STOP intents to the service. The service's start thread starts
  an engine, waits for its local port, starts the SOCKS bridge (slipstream only),
  establishes the TUN and starts hev (tun2socks), which sends every flow of the device
  to the bridge, which logs in to the engine's SOCKS port.
- tun2socks reads packets from the TUN. lwIP turns them into connections and datagrams;
  each connection, and each UDP socket of an app, is a session with a coroutine of its
  own, which logs in to the SOCKS bridge (or the engine) and copies both ways. Names
  asked of the fake-IP DNS get synthetic addresses, and a session to one is opened by name.
  All of this runs on one native thread; JNI calls and that thread share a few statics.
- While the tunnel is up, a 5 s tick on the main thread looks at the native client, the
  bridge's counters and the watches, and starts a recovery thread when something is wrong;
  that thread picks a resolver, restarts the client and the bridge, or posts a retry.
- The cleanup thread of a stop, recovery threads and start threads all call `stop` and
  `start` of the same engine singletons. There is no lock: the order is kept by flags,
  a generation counter and re-checks after a start.
- On the desktop `connect`, `disconnect` and `selectProfile` start threads that run
  `DesktopTunnel.start` and `stop`; both touch the registry and the backup file.

The hazards these give rise to are listed in `PROJECT.json` at their lines, each with the
properties that would catch it going wrong or a note on why none does yet.

## 2. Plan

Most important behaviour first. Each module is written to be proved about: named
assumptions on constants, one action per step, no RECURSIVE operator.

1. `VpnLifecycle` - the service's start/stop life cycle; proofs. **Done.**
2. `RecoveryReason`, `ResolverChoice`, `Recovery` - recovery composed from two operator
   modules; proofs. **Done**, except the parts section 9 names.
3. `SocksBridge`, `ConnReaper` - the relay and its reaper; proofs for both. **Done.**
4. `SystemProxy` - the override and its undo; proofs. **Done.**
5. `DesktopEngine` - `EngineProcess` and `DesktopTunnel` composed with `SystemProxy`, shown
   and proved to implement it. **Done.**
6. `TunLifecycle` - JNI glue, native thread, tasks and session list; proofs. **Done.**
7. `TunSession` with the abstract `ByteStream` it implements in each direction; proofs of
   its accounts, its wakeups, both streams and the refinement. **Done.**
8. `MappedDns`, `UdpSession` - the fake-IP DNS composed with the association; proofs of
   every safety property of both. **Done.**
9. The watches and `SocksProtocol` as operators against reference definitions over
   bounded inputs, with lemmas on their windows.
10. `AndroidSmuglyPlatform` composed with `VpnLifecycle` through an abstract service
    specification (down, starting, up, stopping) that `VpnLifecycle` implements.
11. `MixedProxyServer`; the subscription store; the selector's cache; the engine bridges
    and `libxray.go`.

Every safety property of the modelled components is proved (section 7); theorems still worth
adding belong to the components of steps 9 to 11.

## 3. Modules and the code

### VpnLifecycle (TinyVpnService.kt)

One service instance; up to `MaxStarts` START and `MaxStops` STOP commands. Variables are
the service's fields (`starting`, `stopping`, `tunnelActive`, `lifecycleGeneration` as
`gen`, the descriptor, the set `running` of engines, bridge and hev), the program counter
of every start thread, of the `stopTunnel` call of each caller (the main thread or a start
thread's catch block), and the sequence of cleanup threads. Actions follow the code
statement by statement wherever another thread can come between:

- `StartCommand`, `StopCommand`, `Destroy` are `onStartCommand` and `onDestroy` on the
  main thread; a command is taken only when the main thread is idle.
- `StopRead`, `StopBump`, `StopCheck`, `StopCommit` are `stopTunnel`.
  `++lifecycleGeneration` is a read and a write, because the field is only volatile and
  two threads may increment it: an update can be lost.
- `TeardownCheck` .. `TeardownPost` are the cleanup thread and the block it posts.
- `StartAwait` .. `StartFinally` are a start thread, with its wait for the previous
  teardown, its cancellation checks, its catch block and its finally. An engine that
  fails to start, or never gets ready, is a choice (`StartFail`, `StartReady`,
  `StartFallback`).

`Init` chooses one of `Inputs` (the engine of each start, how many starts, and the
overlaps) and nothing changes it, so one run covers several. `overlap` says which commands
may meet which work: `"cancel"` lets a STOP meet a start that has taken its generation,
`"early"` lets it meet a start at every moment, the wait for the previous teardown
included, `"switch"` lets a START meet a running teardown, `"any"` lifts every restriction.
With none, a command arrives only when everything is at rest. In every overlap but `"any"` a
STOP or an `onDestroy` does not meet a running teardown: the UI's `stopAll` returns while
its `stopping` is set. `TeardownSlow` lets the restart's wait time out.

A STOP that meets a start before its `++lifecycleGeneration` is remembered in the history
variable `earlyStop`, and `NothingLeaks`, `TunnelWhole`, `LastStopWins` and
`StartsOnCleanGround` except what follows it by name: the code keeps none of them then
(section 8). `StartingHasOwner` and `StartTerminates` hold with it too. `TunnelWhole` speaks
of one kind of overlap at a time, because with a cancellation and a switch together the code
does not have it; the other properties are checked with both.

### RecoveryReason, ResolverChoice, Recovery (TinyVpnService.kt, RecoveryReasonClass.kt, ResolverSelector.kt)

`RecoveryReason` holds the classification of recovery reasons: which reuse the current
resolver, which condemn it. Reasons are model strings, one for each that the code can
pass; the code's classification by prefix becomes set membership. `ResolverChoice` holds
`chooseFast`'s order of preference, with the soft fallback to the first resolver that
answers, and `quickAutoChoice`. Candidates are collected in order, without repetition
(`Then`) and up to the code's limit (`Take`). `SeqFilter` holds the operator that drops
elements from a sequence (`Strip`), written as a recursive function so that it can be
reasoned about; `SocksBridge` and `TunSession` use it too.

`Recovery` is the state machine over them. Two recovery threads may exist (`Recs`): the
unsynchronised `recovering` flag is meant to prevent the second. `RecBegin` ..
`RecFinally` are the steps of `restartSlipstreamPath` and its thread, `RecSched`/`RecPost`
the two halves of `scheduleRecoveryRetry`, `TickDown`/`TickTrouble` the diagnostics tick,
`RetryFires` the delayed retry, `Recheck` the network recheck, `HealthProbe`/
`HealthResult`/`HealthCommit` the resolver health thread, `Stop`, `CleanupNative`,
`CleanupBridge`, `Start` the tunnel's life. The environment is `NativeReady`,
`NativeLosesReady`, `NativeDies`, `HostChanges`, `NetworkChanges`: a resolver is dead,
answers TCP without carrying the tunnel, or is good.

### SocksBridge (MiniSlipstreamSocksBridge.kt)

One selector thread; a connection is a record with the code's fields. A SOCKS message or
one unit of data is one token, so that buffers, partial reads, partial writes and
coalesced messages are sequences of tokens; capacities (`Cap`, `HsCap`) count tokens.
`Service(c)` is one turn of the loop for a ready key (`serviceClient`/`serviceRemote`
whole, with `relay`, flushes, `propagateFin` and `updateInterest`); it is written as
set-valued operators that return every outcome the sockets' partial reads and writes
allow. `Accept` includes the overload check and the eviction (any open connection may be the
least recently active one: timestamps live in `ConnReaper`),
`Connectable` the completion of the upstream connect, `Lose` an I/O error or the reaper,
`Stop` and `Start` the bridge's own. Clients and servers follow scripts, so the property
"what arrived is what was sent" has something to compare with; clients may send ahead,
log in wrongly or end early, servers may refuse. `Cases` is the set of instances (scripts,
local login, whether peers stall, whether things fail); `Init` takes one into `mode`.
`BridgeAssumption` says what a script is: tokens, of which an end of stream is the last.

### ConnReaper (ConnReaper.kt, MiniSlipstreamSocksBridge.kt)

One connection and time in units. `Turn` is a turn of the selector loop: what happened to
the connection (bytes moved, an end of stream, buffers empty or not), how the bridge
updates the four timestamps, and then `shouldReap`. The turn may come up to `Period`
after the last. The limits are constants of any value; the instance keeps the code's order
among them (half-closed idle < stuck < half-closed maximum < idle < age).

### SystemProxy (WindowsSystemProxy.kt, SysProxy.cs, DesktopTunnel.kt, DesktopPlatform.kt)

The registry is a record of the values that `apply` and `restore` write, each write a step
(`ApplyWrite(at, ..)`, `RestoreWrite(at, ..)`), so that the process may die or a command
may fail between any two. `backup` is absent, a snapshot, or torn. `Launch` runs
`recoverFromCrash`; `Connect` and `Disconnect` are the threads of `DesktopPlatform`;
`EngineReady`, `EngineFails`, `StartFailed` the rest of `DesktopTunnel.start`. `Crash`
ends every thread and keeps the registry and the file. `Tears` lets a death fall inside
the write of the backup. `faulty`, chosen from `Fails` at the start, says whether commands
may fail in this behaviour.

### DesktopEngine (DesktopTunnel.kt, EngineProcess.kt, DesktopPlatform.kt)

`DesktopEngine` extends `SystemProxy` with the other half of `start` and `stop`: a thread
that `SystemProxy` sees at "engine", or as done with its restore, is here at one of the
statements that deal with the child process, its pid file, the engine port and the
listener (`call[t].at`). Engines are processes of their own: `Die` ends the application with
or without its shutdown hooks and leaves them, the holder of the port and the pid files.
`Start`, `Stop`, `Fail`, `Publish`, `ProxyStep` and `Open` are `SystemProxy`'s actions with
what this half adds; the others leave `SystemProxy`'s variables alone. That composition is
the refinement `ImplementsSystemProxy`: `SystemProxy`'s `Spec` holds of the composed system.
`Bind`, `Exit`, `Release` are the engine and the operating system. `lost` is a history
variable: processes whose pid never reached its file.

### TunLifecycle (hev_jni.c, HevSocks5Tunnel.kt, hev-main.c, hev-socks5-tunnel.c)

Callers of `nativeStart` and `nativeStop` (`Starters`, `Stoppers`) and the native thread
interleave at every shared variable; under the mutex only the native thread comes
between. The thread goes through the configuration, init with a failure possible at each
stage, `run` (the tasks), fini and exit. A step of a task is everything it does until it
waits or ends, since the tasks are coroutines. A session here has a phase and the timeout
that terminating it sets to zero; what it carries is the subject of the next two modules.
`core` holds what one init creates: the tasks, the session list in the order of use, the
counts. `Conns` is the order in which the connections arrive, each a session of its own.

### TunSession and ByteStream (hev-socks5-session-tcp.c, hev-ring-buffer.c, hev-socks5-client.c, lwIP)

One session: `task` is its coroutine (state, place, sleep and timeout), `pcb` its view of the
app's connection and lwIP's, `ring` the buffer with its indices, `fd` the socket with
epoll's edge, `app` and `srv` the peers. Payload bytes are numbered; handshake messages are
tokens below zero on the same streams. lwIP keeps references to ring slots (`pcb.segs`) and
reads them when the app acknowledges, so a slot overwritten too early delivers the wrong
byte. While the task is on the processor no callback runs, but the kernel and the server
do. Faults are drawn from the case: termination, timeouts, reset, a server that fails or
closes, refused memory, a full TUN device, a TIME_WAIT that runs out.

`ByteStream` is what a relay promises of one direction: what arrives is a prefix of what was
sent, a clean end comes after all of it, and nothing follows an end. `TunSession`
instantiates it twice (`Up`, `Down`, each `INSTANCE ByteStream WITH` a refinement mapping);
`ByteStreams` says both are implemented. The ends are what the peer sees. A `close` with
nothing unread sends a FIN (`SrvEof`), one with bytes unread, or written to afterwards, is
answered with a reset (`SrvCut`); the app gets a FIN from `tcp_shutdown` and a reset from
`tcp_abort`. Where the code ends a stream cleanly that is not whole, the step is `Truncate`,
which is no step of a `ByteStream`, and the property names the two places that take it: a
socket closed without `shutdown`, and a FIN sent because the server reset the connection.

### MappedDns and UdpSession (hev-mapped-dns.c, hev-list.c, hev-socks5-session-udp.c, hev-socks5-udp.c)

`MappedDns` is the table: `node` the tree as a function from names to indices, `list` the LRU
order, `records` the array, `use`. `FindHit`, `FindFree`, `FindEvict` are the three ways of
`hev_mapped_dns_find`; `Lookup` is the reverse. `UdpSession` extends it with one association:
`fwd_f` takes a batch of the frame list and may wait inside the send (`send`), `fwd_b` reads
replies and finds their source by the name slots, and lwIP's callback appends to the list
whenever the task does not run. The carrier is UDP-in-TCP or UDP (`mode.carrier`), the proxy
answers in any order, with names or with addresses (`mode.echo`).

## 4. Runs

Every run is in `PROJECT.json` with its properties. State counts are distinct states.

| Run | Instance | States | Shows |
|---|---|---|---|
| `vpn` | 3 starts on one engine or switching, one overlap at a time; 2 starts with both; 2 starts with early STOPs; fair | 380 k | `NothingLeaks`, `TunnelWhole`, `LastStopWins`, `StartsOnCleanGround`: a profile switch, or a cancellation at any step from the start's generation on, ends with a whole tunnel or with nothing, as the last command says; `StartingHasOwner`, `StartTerminates`: no START is refused for ever and every accepted START ends |
| `recovery_safety` | 1 resolver, health thread on, 1 fault, 2 lives, slow readiness | 2.6 M | `NativeDownAfterStop`, also when two recoveries run at once |
| `retry_race` | the same with 1 life | violation | `OneRetryPending` fails (finding 2) |
| `recovery_live` | 2 resolvers (one local, one ranked), dead or good, no health thread, fair | 84 k | `DarkRecovers`: with a network and a working resolver a dark tunnel comes up again; `ChoiceSkipsCondemned` on the way |
| `recovery_dark` | as above, a resolver that answers TCP and carries nothing | violation | `DarkRecovers` fails (finding 1) |
| `bridge` | 13 cases: every server script against one client of four data tokens, wrong clients, three connections for two places, orderly peers; fair | 93 k | `StreamsConserved`, `FinAfterData`, `InterestExact`, `CountersExact`, `RelayCompletes` |
| `reaper_limits` | limits 6/2/4/3/12, 14 units of time | 1.5 k | `QuietIsReclaimed`, `TrickleIsBounded` |
| `proxy` | the composed desktop tunnel: 1 thread, 2 engines, 2 starts, 2 kinds of user, failures or none, 2 deaths, fair | 1.3 M | `UndoAvailable`, `EnginesAccounted`, `CrashIsUndone`, `ImplementsSystemProxy` |
| `proxy_overlap` | 2 threads | violation | `UndoAvailable` fails (finding 3) |
| `tun_session` | 10 cases of streams, handshakes and faults, fair | 305 k | `ByteStreams` (the refinement), `NeverAsleepWithWork`, `WindowCredit`, `RingAccounts`, `Delivered`, `TerminateEnds` |
| `udp` | 14 cases: more names than slots, two ports, both carriers, every fault, the table alone; fair | 210 k | `AnswersHold`, `PeersHold`, `DirectionsHold`, `Forwarded` |
| `tun_life` | 9 cases: two lives, sessions at and above the limit, every failure of the init; fair | 55 k | `RunningMeansAlive`, `FlagsHold`, `NoAbort`, `SessionSetExact`, `TimerServes`, `StopReturns` |

Some properties are conjunctions of named parts that stand or fall together:
`StreamsConserved` of the bridge includes `HandshakeFirst`; `InterestExact` is `NeverDeaf`
(a connection with work is woken for it) and `NoSpin` (one without is not); `RingAccounts`
is `RingLedger` (the ring's counts against lwIP's), the types and the conservation of both
streams; `AnswersHold` includes the agreement of the
table's three structures (`Consistent`); `PeersHold` is `RightPeer` and `NamesKept`;
`DirectionsHold` is `UpInOrder` and `NeverAsleepWithWork`; `EnginesAccounted` is `NoStray` and
`OwnSurvivorGone`. The type invariants of `SocksBridge`, `TunSession`,
`UdpSession`, `TunLifecycle` and `DesktopEngine` are parts of such conjunctions; those of
`VpnLifecycle`, `Recovery` (without the health thread), `ConnReaper` and `SystemProxy` are proved, as are the typing facts that the
inductive invariants of section 7 begin with.

Some properties have an exception or a condition in their text, because the code does not
have them without it: `NothingLeaks`, `TunnelWhole`, `LastStopWins` and
`StartsOnCleanGround` (no STOP before a start's generation), `TunnelWhole` (one kind of
overlap at a time), `CrashIsUndone` (no
failing command), `RelayCompletes` (orderly peers), `UpIsStream`
(a session given up before its shutdown), `DownIsStream` (the hole of section 8, and a
server's reset), `StopReturns` (an init that works, a
TUN that can be read, no forgotten termination), `EnginesAccounted` (a pid that reached its
file, a survivor of the same engine). Section 8 says what happens outside of each.

Deadlock is not checked: every one of these systems may come to rest (no further command,
every connection closed, every fault used up).

Five more configurations are not runs but counterexamples to keep: each violates its
property, and section 8 refers to them. `EngineSwitch.cfg` and `EngineOverlap.cfg`
(`MCDesktopEngine`), `TunTimeWait.cfg` (`MCTunSession`), `UdpPorts.cfg` (`MCUdpSession`),
`TunNoFds.cfg` (`MCTunLifecycle`).

## 5. Bounds and why they are enough

Most modules take a set of cases (`Cases`, `Inputs`, `UserSettings` with `Fails`) from which
`Init` picks one, recorded in a variable that never changes. A case combines what must meet,
and cases that need not meet do not multiply.

- `MaxStarts`, `MaxStops`: a hazard of the life cycle involves a tunnel, the teardown of
  the one before it and the command after it. Three starts and two stops, with the stops
  that catch blocks make themselves, give every such neighbourhood. The safety properties
  are proved for any number.
- `Recs = {1, 2}`: `Launch` needs a free thread. A third concurrent recovery would need a
  second loss of the same race; the two that exist already break what a race can break
  (section 8). `MaxPosted` retries can be posted at once; a second is what
  `OneRetryPending` forbids. `MaxFaults` bounds changes of resolvers, network and
  client: with the health thread one makes the probes fail and starts the race, without it
  two let a resolver fail, be condemned and recover while the other one changes.
  `MaxLives = 2` lets what one tunnel left behind meet the next. The two safety
  properties that hold are proved for every pool and all bounds.
- `Cap = 3`, `HsCap = 3` with a client of four data tokens: buffers smaller than the stream,
  so that full, part full and empty buffers, and more than one handshake message in one
  read, all happen. Two competing connections suffice for eviction; they are short
  because a connection touches the others only through the counters and the places. The
  safety properties are proved for all of these numbers.
- Reaper: the code's limits in units of the selector's timeout are 18/3/9/6/720. The
  instance keeps their order with small numbers, and `MaxTime` is past the largest. The
  theorems hold for any values.
- Desktop: `MaxCrashes = 2` is a death during the recovery from a death; `MaxStarts = 2` with
  two engines is a switch. Two kinds of users stand for PAC, another tool's proxy,
  detection and IPv6 entries; the theorems hold for all settings, engines and deaths.
- `TunSession`: `NDown = 4` bytes through a ring of three (`BufferSize = 4` clamped to
  `SndBuf = 3`) wrap it around; `NUp = 3` overrun the window `TcpWnd = 2`; `FdSnd = 1` and
  `FdRcv = 2` fill the socket; `Iov = 2` is less than the queue can hold over time. Faults come
  one by one or in the pairs that meet in one handler. What section 7 proves of the session
  holds for all sizes, streams and faults.
- `UdpSession`: 4 names for a table of `Max = 3`, 3 names for `Slots = 2`, batches of
  `Num = 2`, `Pool = 1` and one place in the carrier, so every limit is reached by
  `MaxSend = 3` datagrams. The safety properties are proved for all of these.
- `TunLifecycle`: one starter and one stopper with two calls each meet the thread at every
  point; three sessions with a limit of two. The safety properties are proved for any number
  of stoppers, calls and sessions, and all but `FlagsHold` for any number of starters too.

## 6. Fairness and why the code justifies it

- `VpnLifecycle`: weak fairness of start threads, `stopTunnel` calls and cleanup threads.
  They are Java threads whose blocking calls have timeouts. None of user commands.
- `Recovery`: weak fairness of recovery threads, timers, cleanup and of the native
  client's becoming ready on a good resolver; strong fairness of the diagnostics
  tick. The tick runs every 5 s and a retry's delay grows to 60 s, so retries cannot
  hide a condition from the tick for ever; weak fairness would allow it because a retry
  may disable the tick's condition again and again. The environment's faults are
  bounded and carry no fairness. `recovery_live` also assumes that the native
  "no progress" error does not recur (`NoProgress = {FALSE}`), since that reason
  keeps the resolver by design.
- `SocksBridge`: weak fairness of the next-state relation: a level-triggered selector
  reports a ready channel until it is served. `RelayCompletes` speaks only of the cases
  whose peers go on sending, accept bytes, and do not fail.
- `DesktopEngine`: weak fairness of a thread's steps and of starting the application
  again. No fairness of connects, of the engines or of deaths; deaths are bounded.
  `CrashIsUndone` speaks of behaviours without failing commands: a registry that refuses
  every write keeps the override.
- `TunSession`: weak fairness of the coroutine's steps and of epoll (one thread that serves
  every ready task), and of the app and the server doing something while they can. None of
  faults, and none of timeouts, so no result depends on one.
- `UdpSession`: the coroutine, epoll, and the proxy's reading. None of answers.
- `TunLifecycle`: callers, the thread, runnable tasks, the event descriptor and the timers of
  sleeping tasks, all of which the kernel or the cooperative scheduler serve. None of
  packets, sessions' progress, proxies' answers, or further calls. A session that has moved
  bytes yields without a look at its timeout (`SessionYield`, no fairness); that it has to
  wait again some time (`SessionRun`, fair) is assumed of the peers, not given by the code.

## 7. What is proved

All proofs are checked by TLAPS to the last leaf and rest on the modules' named
assumptions on their constants only; a hypothesis beyond those is written in the theorem.

**The Android service** (`VpnLifecycleProofs`)

- `TypeCorrect`, `StartingOwned` - for every number of commands,
  every overlap (`"any"` included), slow teardowns and lost generation updates:
  `starting` is never TRUE with nobody left to clear it, so the service cannot get into
  a state that refuses every START. `StartingHasOwner` is not inductive: a start thread
  whose generation is old does not clear the flag in its finally block. The invariant
  `IInv` strengthens "alive" to "will clear it" (`WillClear`: before its finally, or
  there with the current generation) and adds three facts: thread numbers are
  handed out in order, a start thread calls `stopTunnel` only from its catch block, and
  `starting` together with `stopping` means a restart that still waits. The last is the
  key: `stopTunnel` returns early when `stopping` is set, and it is why that early
  return, after the bump that has made the thread's generation old, loses nothing.
- `StopHasTheLastWord` - `LastStopWins` for `PoliteUsers` (no case has the overlap
  `"any"`; with it the property is false, section 8), slow teardowns included. Early STOPs
  are allowed: every invariant of this part is preserved by the steps that leave `earlyStop`
  FALSE, `earlyStop` stays TRUE once it is (`EarlyStays`), and the theorems rest on
  "`earlyStop` or the invariant", which is what the exception in the properties says. `OrderInv`
  says that one start thread lives at a time and that every `stopTunnel` call which meets
  it past its wait has, or is about to take, a later generation, although an increment may
  be lost (`Later`). `StopInv` adds the responsibility: a tunnel that is active after a
  STOP has the STOP still at work, or a start behind its `activate` whose generation is old
  and which will therefore undo what it did (`Doomed`).
- `RestIsClean`, `GroundIsClean` - `NothingLeaks` and `StartsOnCleanGround` for polite users
  when no teardown outlasts a restart's wait (`~TeardownSlow`; otherwise both are false).
  `CleanInv` adds what may be up at each place of a start thread (`CleanGround`,
  `OwnGround`), and that whatever is up while nobody works has the last cleanup thread in
  front of it, with a generation that will let it through (`Swept`, `Current`).
- `TunnelIsWhole` - `TunnelWhole` under the same hypotheses. `WholeInv` adds to `CleanInv`,
  for users who cancel or switch but do not do both, that no teardown past its check meets
  a start at work, and what a start has built at each of its places (`Built`).

**Recovery** (`RecoveryProofs`)

- `StopLeavesNoClient` - whatever recoveries, one or two at once, do
  around a stop, no native client runs when they and the cleanup are done. The invariant
  `StartedIsWatched` says who is responsible: a client that is up after the cleanup's
  stop has a recovery thread that has just started it and is about to read
  `tunnelActive`.
- `CondemnedIsLastResort` - a recovery's first host is condemned only when no other one of
  the pool answers. This is a statement about `chooseFast`: candidates from the local
  list, the cache and the pool, filtered, joined and cut off at eight. It rests on
  `SeqFilterProofs`, which says what `Strip` keeps, and on a part of `RetryInv`: a thread
  that goes on with its resolver has forgiven all of them (`ChoiceOK`). That part needs one
  recovery at a time, hence the hypothesis `~HealthChecks`; with the health thread the
  statement is false (section 8).
- `NeverRotateAndReuse` - no reason both condemns and keeps a resolver.

**The SOCKS bridge and its reaper** (`SocksBridgeProofs`)

- `NoByteIsLost`, `FinIsLast`, `InterestIsExact`, `CountersAreExact` - the four safety
  properties of the bridge, for any connections, scripts, buffer sizes and places, every
  way to split reads and writes, and every failure. The invariant `BridgeInv` says of each
  connection's record that it is `Sound` (phase, upstream channel and flags fit together;
  in each direction what was delivered, what is in the buffers in their order, and what is
  still to come, make up what is sent; an end was seen only when nothing is left before
  it), which every channel operation and every handshake step preserves, in the middle of
  a turn too, and `Settled` (what `updateInterest` and the closing rules leave behind),
  which only holds between turns. The counters are cardinalities.
- `QuietIsNotKept`, `TrickleIsNotKept` - for all limits, a connection that survives a turn
  is within each of them. The invariant ties the code's timestamps to what really
  happened (history variables `moved` and `ended`) and says the connection has just
  passed `shouldReap`.

**The desktop** (`DesktopEngineProofs`)

- `OverrideIsUndoable` - with one calling thread (`OneCaller`) and
  backups that are written whole (`~Tears`), for any user settings, failures and deaths:
  the user's route is in effect or the backup says what it was. The invariant `UndoInv`
  records what each thread knows: `apply` holds a snapshot of the user's own route as long
  as no backup exists and writes only once one does; `restore` has written back as much
  as its program counter says. Both hypotheses are needed (section 8).
- `TunnelImplementsProxy` - for any number of threads, engines,
  starts and deaths, the composed desktop tunnel implements `SystemProxy`: each of its
  steps is one of `SystemProxy`'s or changes none of its variables. Hence
  `DesktopIsUndoable`: `OverrideIsUndoable` carries over to the tunnel with its engine.
- `EnginesAreAccounted` - with one calling thread, for any number of
  engines, starts and deaths: a running engine is held by the tunnel, worked on by a thread,
  named by its pid file, or lost before its pid was written; a listener is the tunnel's; and
  a start that looks at the port has no survivor of its own engine. The invariant
  `EngineInv` says of every running process that its file names it, it is lost, or a thread
  is about to record it (`Known`), that a file names only processes of its engine, and,
  for each place of a call, what the thread may rely on (`CallKnows`): between reaping and
  recording the file is empty and no engine is held; a thread that is about to delete a file
  knows that no process but the one it has killed is named by it.

**tun2socks** (`TunLifecycleProofs`, `TunSessionProofs`, `UdpSessionProofs`)

- `RunningIsTruth` - for any callers, calls, sessions and failures,
  `tunnel_running` is exactly whether a native thread lives, and the configuration is there
  while it does, although the thread clears the flag without the mutex. `Shape` bounds what
  each caller can be doing while the mutex is held.
- `FlagsAreTheStarters` - with one starting thread (`OneStarter`), the
  engine filters by the flags of the start that launched it. The invariant adds that a
  caller between setting the flags and creating the thread finds no thread alive
  (`StarterInv`): this is why the late reset in the old thread's fini cannot hit.
- `NothingAborts`, `SessionsAreListed`, `TimerAlwaysServes` - the engine's tasks. `CoreInv`
  says that a session is in the list, once, exactly while its task lives (`Tracked`), that
  the io and timer tasks stay until the event task has told them to go (`Staffed`), that
  the timer task runs or is about to be woken while there are sessions (`Timed`), and that
  outside of `run` there is no task at all. Each of the helpers by which an action changes
  `core` (a wakeup, an end, an insertion) is shown to preserve this on its own.
- `WindowIsGivenBack`, `RingIsAccounted`, `NoWakeupIsLost` - one TCP session,
  for any sizes, streams, handshakes and faults. The first is inductive with the
  types. `RingIsAccounted` is the part `RingLedger` of `RingAccounts`: the ring holds what
  lwIP has not seen acknowledged and what it was not given yet (`Ledger`), more only after
  memory has refused a write, and then the direction is over. `NoWakeupIsLost` is the one
  that epoll's edges make delicate. `Alert` carries it: while no edge is pending, what
  `splice` found of the first direction still holds when it looks at the second one and when
  it sleeps, because whatever could change it (a callback, the kernel, the server) wakes the
  task or raises the edge.
- `StreamsAreConserved` (`RingAccounts`) and `SessionIsByteStreams` (`ByteStreams`) - the two
  streams of that session. `StreamsConserved` is not inductive: it says what the buffers hold
  together, and while the session dies or memory fails not even that. `StreamInv` says of
  each buffer alone that it holds consecutive bytes (`Run`) and where they start, and ties
  the lengths together, with "at most" always and "exactly" while nothing was cut (`Upward`,
  `Downward`). Four more parts make it inductive. `Stages`: the socket and the server hold
  as many messages, in front of all bytes, as the handshake has still to read (`Pending`),
  so that the splice reads bytes only and the handshake takes none. `Slotted`: while the
  ring is written, what lwIP sends are the slots just before the write pointer, going round
  (`Slot`); `readv` fills the slots from it on, and since both together fit the ring no slot
  that lwIP still needs is touched (`WriteHolds`, `RingHands`). `UpEnds` and `DownEnds`: a
  socket that is shut down, or a FIN that is out, has the last byte in front of it, unless
  the server was lost. The refinement then needs no further invariant: `AppSend` and
  `SrvSend` are `Send`, `SrvRead` and `AppAck` are `Deliver`, `SrvEof` and `AppAckFin` are
  `Finish` or one of the two excepted `Truncate`s, a reset or the end of the session is
  `Cut`, and every other step,
  a handshake message among them, is a stutter (`UpStep`, `DownStep`).
- `AnswersAreKept` - `AnswersHold` of the fake-IP DNS, for any table size and set of names,
  under everything the association and the other apps do. `AnswersHold` alone is not
  inductive: it does not say why the evicted name is one that has had its time. `MapInv`
  does (`Held`): the names behind a name in the list have all been used since it was
  (`Behind`). An eviction takes the head of a full list, behind which the other
  `Max - 1` names of the table stand, and is itself the use of one more, so the count of
  the evicted name reaches `Max`.
- `DirectionsAreKept` - `DirectionsHold` of the association, for any sizes. `InOrder` says
  that what the proxy has got, what is on the carrier and the unsent part of the list
  are each in the order of the ids and one below the other, and that each datagram is the
  one the app sent under its id. The delicate step is a send that ends a wait: the list
  must lose at least what was written, whether the rest is given up (`SendGives`). `Alert`
  is the wakeup argument of the TCP session, without callbacks between `fwd_f` and `fwd_b`.
- `PeersAreKept` - `PeersHold`, for any number of slots. `Heard` says that every
  remembered peer is one the app has sent to and that an echoing proxy's reply carries the
  peer of its own datagram; `Ring` says which place of the learning order each slot
  holds (`Spot`), so that a learned name overwrites the oldest one and moves no other.

Sequences are where the prover needs help. Its library states induction with operator
parameters, which none of the installed provers can instantiate; `SeqFilterProofs` states it
with sets instead (`NatSetInduction`, `SeqSetInduction`, from the least counterexample), and
proves what the recursive function `Strip` computes. `SelectSeq` of the standard modules
cannot be unfolded by the prover at all, and so no module that is proved about uses it
(`hev_list_del` is `ListDel`, two parts of the list around the node).

Only model-checked: the liveness properties (`StartTerminates`, `DarkRecovers`,
`RelayCompletes`, `CrashIsUndone`, `Delivered`, `TerminateEnds`, `Forwarded`, `StopReturns`):
fairness and ENABLED are outside the prover's reach. Every safety property of a passing
run is proved, the refinements included.

## 8. Findings and deviations

Findings, each with a run that shows it:

1. **`recovery_dark`.** When every resolver of the pool is condemned, `chooseFast` falls
   back to the first one that answers TCP. `failedAutoResolvers` is cleared only on an
   exception that then never comes (`TinyVpnService.kt:1442`), so a useless resolver
   that answers is taken for ever and a working one behind it is never tried, although
   the comment at line 1433 says the set is cleared "instead of staying dark forever".
2. **`retry_race`.** The resolver health thread calls `restartSlipstreamPath` off the main
   thread, and its check of `recovering` (`TinyVpnService.kt:1310`) and its claim (1314)
   are separate: a trigger on the main thread and the health thread can both start a
   recovery. When both fail, both remove the pending runnable (1225) before either assigns
   and posts its own (1240): two retries are queued and only one can be cancelled, although
   the comment at 1221 says "Only one retry is ever pending".
3. **`proxy_overlap`.** `selectProfile` (`DesktopPlatform.kt:150`) starts a stop thread and
   a start thread; `DesktopTunnel` has no lock. The stop restores and deletes the backup
   that the start's `apply` has just written while `apply` goes on writing: the override
   is in place and nothing on disk can undo it (comment `WindowsSystemProxy.kt:20`).

Deviations met while modelling that have no run of their own. Each was reached with the
named setting of the modules here:

- Life cycle. With `overlap = {"any"}` in `Inputs`: the posted block asks the service to stop while
  a restart has been released but has not taken its generation (`TinyVpnService.kt:791`,
  comment at 786); a second STOP bumps the generation, the first one's cleanup skips
  itself and still signals the latch with the tunnel up (723, comment at 55). With
  `"early"`, which the UI allows (`toggleConnect` stops while `connecting`), a STOP meets a
  start thread that waits or is taking its generation (140-152): the start then has the
  later generation and goes on. The stop's cleanup skips itself, and the tunnel comes up and
  stays up after the STOP; or it is past its check and takes the engine, the TUN or hev from
  under the start; or the start clears `stopping` before the stop sets it, `stopping` stays
  TRUE, and `stopTunnel` returns at 738 for every later STOP. With "cancel" and
  "switch" together, or with `TeardownSlow`, `TunnelWhole` fails: a cleanup past its
  check takes resources from under the next tunnel.
- Recovery. With the health thread (`HealthChecks = TRUE`) two recoveries can stop each
  other's client again and again, so that `DarkRecovers` fails, and one can condemn the
  resolver the other has decided to keep, so that `ChoiceSkipsCondemned` fails. A resolver can be condemned
  while the device is offline (1473, comment `ResolverSelector.kt:551`), because the
  network is looked at long before. A stop between the two halves of
  `scheduleRecoveryRetry` leaves a retry for the next tunnel.
- Bridge. A rejected client whose error reply is flushed inside `readClientHandshake`
  (`MiniSlipstreamSocksBridge.kt:340`) is not closed: its interest set is empty and it
  waits for the 90 s idle reaper (comment at 74 "flush toClient (e.g. an error reply) then
  close"). `NeverDeaf`, a part of `InterestExact`, excepts such connections. `bufferStuckSince` is reset only when both
  buffers are empty at the end of a relay step (469-473), so a transfer that is
  always busy is cut after `STUCK_MS` though bytes move (comments at 27 and 43).
- System proxy. A death inside the write of the backup (`WindowsSystemProxy.kt:136`)
  leaves a file that `apply` keeps and `restore` cannot read (`Tears = TRUE`). A restore
  is not exact (comment at 23): automatic detection, the server value of a disabled
  proxy, the WinHTTP proxy, a PAC script next to an enabled proxy and a sanitised bypass
  list may differ afterwards, which is why the properties speak of `Route`. `mergeBypass`
  drops IPv6 entries (comment at 203 "only ever adds").
- Desktop engine. The comment at `EngineProcess.kt:49` says "any survivor is reaped on the
  next start", but the pid file is per engine: after a death a start of another engine
  finds the port held by the survivor and fails (`EngineSwitch.cfg`). With two threads in
  `DesktopTunnel` the engine or the listener of one is lost (`EngineOverlap.cfg`). The
  engines of the latency probes are named after their port ("xray-probe-PORT"), which no
  command contains, so `reapStale` (line 73) never kills an orphaned one.
- TCP session. When memory refuses the first of the two writes of a wrapped ring and not the
  second, the second is sent and the app gets a stream with a hole before the reset
  (`hev-socks5-session-tcp.c:113`). A TUN device that is full for a moment ends the
  downstream direction. A server's reset reaches the app as a FIN
  (`hev-socks5-session-tcp.c:123`), so a download cut short looks complete. A session that is
  given up (a timeout, a termination, the app's reset) closes its socket without more
  (`hev-socks5.c:85`), and the server reads a clean end of an upload that is not whole.
  `ByteStreams` excepts both. In LAST_ACK the
  acknowledgement of our FIN ends the session while bytes are queued for a slow server
  (`tcp_in.c:617`). A connection whose TIME_WAIT is over is freed without a callback, and a
  session still draining uses it afterwards (`tcp.c:1467`; `TunTimeWait.cfg` violates
  `PcbAlive`, which says that the session holds no freed connection). A termination
  that arrives before connect or handshake set their timeouts is forgotten
  (`hev-socks5-client.c:276`, 402).
- UDP and DNS. A session keeps one address and port per name, so with two ports of one name
  a reply from the first bears the second (`hev-socks5-session-udp.c:158`, `UdpPorts.cfg`).
  The reverse lookup ignores the network bits: a real address whose host bits match is
  taken for a synthetic one (`hev-mapped-dns.c:259`). The fallback to the last named peer
  (`hev-socks5-session-udp.c:243`) never matches. On the UDP-in-TCP carrier a send that
  times out inside a frame leaves half a frame on the stream (`hev-socks5-udp.c:99`). One
  malformed reply, or a full TUN device, ends the downstream direction for good (280). A
  closed carrier leaves the session asleep until its timeout.
- tun2socks life cycle. `stop` waits for a descriptor ("Wait for async initialization",
  `hev-socks5-tunnel.c:840`); when the init failed nobody opens it and the loop has no end,
  with the mutex held (`TunNoFds.cfg`). The byte may be written to a descriptor that the
  thread's own fini has closed (844). A thread that ended by itself is never joined.
  `gateway_fini` looks at statics of the previous life when a second init fails early (616).
  A TUN that cannot be read makes the io task spin without giving up the processor (428). A
  limit of one session aborts the process (the new session is the one terminated, before
  its task exists); `TunConstants` excludes it. The limit is soft: the terminated session
  is counted until it has ended. Two starters at once can mix their reject flags. The error
  returns of `hev_socks5_tunnel_main_inner` skip a part of fini. The statistics are read
  without a lock. The yield of a session that has moved bytes does not look at its timeout
  (`hev-socks5-misc.c:40-43`): one that always has more to move does not notice that it was
  terminated, and the stop waits for it.

## 9. What is not modelled

- Steps that are one here and several in the code, where no property tells them apart: the
  engine stops and the bridge's stop of a teardown (`TeardownBackend`), the flushes between
  the rounds of `readClientHandshake`, and the registry writes by which `SysProxy.exe`
  and the blob set the proxy (`SystemProxy`, the seventh step of `Apply`).
- Life cycle: Android's start ids for `stopSelf`; foreground notification; several
  service instances; the resolver choice inside a start is one step that may fail.
- Recovery: the process restart after detached native threads and a taken port; the speed
  optimizer (off by a constant); transport and query-type validation; the lengths of
  backoffs; the byte counters behind the diagnostics' thresholds.
- Bridge: an old selector loop that outlives `stop`'s `join(500)`; byte-level parsing of
  SOCKS messages (planned as operators); wall-clock jumps in the reaper.
- Desktop: what other tools write to the same keys; the WinINET side effects of
  `SysProxy.exe off`; failing reads during the snapshot; a pid reused by another program.
- tun2socks: partial frames on the UDP-in-TCP carrier; DNS messages byte by byte; the
  filter's packet parsing; the SOCKS library's server half; crash-signal handlers and the
  diagnostic log; descriptors reused by other files.
- The C libraries below it. lwIP is modelled where the sessions touch it: callbacks,
  windows, `tcp_write`, the states of a connection from ESTABLISHED on. Segments,
  retransmission, congestion control, IP, fragments and neighbour discovery are a protocol
  stack with a specification of its own, and PPP, SLIP, the socket and netconn API, the
  applications and the other systems' ports are not reached by this program at all; libyaml
  parses one text at start. These are by far the most of the repository's C lines (144 k),
  so the share of C lines that the models cover is small, and it would take modelling code
  the tunnel never runs to raise it much. The Kotlin code is not in that count.
- Planned components (section 2, items 9 to 11) and those that will stay out: latency
  probes, share links and configuration text, the WinINET blob's encoding, drawing.
  `PROJECT.json` lists each with its reason.
