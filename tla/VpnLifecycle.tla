---------------------------- MODULE VpnLifecycle ----------------------------
(***************************************************************************)
(* The start/stop life cycle of the Android tunnel service                 *)
(* (app/service/TinyVpnService.kt).                                        *)
(*                                                                         *)
(* Three kinds of threads share the service's volatile fields without a    *)
(* lock: the main thread (intents, onDestroy, posted blocks), one          *)
(* "vpn-start" thread per accepted START, and one "vpn-stop-cleanup"       *)
(* thread per committed stop.  They coordinate through `starting',         *)
(* `stopping', `tunnelActive', a generation counter that is incremented    *)
(* without atomicity, and the latch of the most recent teardown.           *)
(***************************************************************************)
EXTENDS Naturals, Sequences, FiniteSets

CONSTANTS
    MaxStarts,      \* bound: STARTs the service accepts in one behaviour
    MaxStops,       \* bound: ACTION_STOP intents in one behaviour
    Engines,        \* the tunnel engines a profile can name
    Inputs,         \* what a user may do, one in each behaviour: the engine of each
                    \* start, the number of starts, and which commands may arrive
                    \* before the service is at rest:
                    \*   "cancel": a STOP while a vpn-start thread is at work, once the
                    \*             thread has taken its generation
                    \*   "early":  a STOP at any moment of a vpn-start thread, its wait and
                    \*             the taking of its generation included
                    \*   "switch": a START while a teardown is under way
                    \*   "any":    every command, at every moment
    TeardownSlow    \* may a teardown outlast TEARDOWN_WAIT_MS?

ASSUME BoundsAssumption == MaxStarts \in Nat /\ MaxStops \in Nat
ASSUME EnginesAssumption == {"bridge", "hev"} \cap Engines = {}

Starts  == 1..MaxStarts
Callers == 0..MaxStarts
OverlapKinds == {"cancel", "early", "switch", "any"}
Input   == [engine : [Starts -> Engines], starts : Callers, overlap : SUBSET OverlapKinds]

ASSUME InputsAssumption == Inputs \subseteq Input /\ TeardownSlow \in BOOLEAN

VARIABLES
    starting, stopping, tunnelActive,   \* the flags of the service
    gen,            \* lifecycleGeneration
    started,        \* how many START threads were created; the last one is `started'
    stops,          \* ACTION_STOP intents handled
    startPc,        \* where each vpn-start thread is
    startGen,       \* the `generation' local of each vpn-start thread
    latch,          \* pendingTeardown captured by each vpn-start thread (0: null)
    input,          \* the user: the engine of each start, how many, and the overlap
    stopPc,         \* where each caller of stopTunnel is
    stopGen,        \* the `generation' local of each stopTunnel call
    teardowns,      \* the cleanup threads, oldest first
    running,        \* which engines, and whether the SOCKS bridge and hev run
    tunFd,          \* 0, or the start that established the TUN
    service,        \* "up", "stopSelf" (asked to stop) or "destroyed"
    lastCommand,    \* the last command the user gave (history)
    earlyStop       \* a stop has met a start that had not yet taken its generation (history)

flags    == <<starting, stopping, tunnelActive>>
startVars == <<started, startPc, startGen, latch, input>>
stopVars  == <<stops, stopPc, stopGen>>
resources == <<running, tunFd>>
history   == <<lastCommand, earlyStop>>
vars == <<flags, gen, startVars, stopVars, teardowns, resources, service, history>>

(***************************************************************************)
(* Threads.  Caller 0 is the main thread, caller s > 0 is the s-th         *)
(* vpn-start thread, whose catch block calls stopTunnel itself.            *)
(***************************************************************************)
Main    == 0

\* The cancellation checks of the workers, each with the step it guards.
AfterCheck == [cEngine |-> "engine", cReady |-> "ready", cEngine2 |-> "engine2",
               cReady2 |-> "ready2", cBridge |-> "bridge", cTun |-> "tun",
               cDone |-> "finally"]

Waiting  == {"await", "bumpRead", "bumpWrite"}
Working  == {"clear", "activate", "engine", "ready", "engine2", "ready2",
             "bridge", "tun", "hev"} \cup DOMAIN AfterCheck
Catching == {"catchBackend", "catchTun", "catchStop"}
StartPcs == {"new", "finally", "done"} \cup Waiting \cup Working \cup Catching

StopPcs     == {"no", "read", "bump", "check", "commit"}
TeardownPcs == {"check", "backend", "tun", "hev", "signal", "post", "done"}
Teardown    == [gen : Nat, pc : TeardownPcs]

Live(s) == startPc[s] \notin {"new", "done"}
MainIdle == stopPc[Main] = "no"
Signalled(t) == teardowns[t].pc \in {"post", "done"}

Init ==
    /\ starting = FALSE /\ stopping = FALSE /\ tunnelActive = FALSE
    /\ gen = 0
    /\ started = 0
    /\ stops = 0
    /\ startPc = [s \in Starts |-> "new"]
    /\ startGen = [s \in Starts |-> 0]
    /\ latch = [s \in Starts |-> 0]
    /\ input \in Inputs
    /\ stopPc = [p \in Callers |-> "no"]
    /\ stopGen = [p \in Callers |-> 0]
    /\ teardowns = << >>
    /\ running = {}
    /\ tunFd = 0
    /\ service = "up"
    /\ lastCommand = "none" /\ earlyStop = FALSE

-----------------------------------------------------------------------------
(***************************************************************************)
(* The main thread: intents and onDestroy.                                 *)
(***************************************************************************)

\* Nothing is in flight: no start thread, no stopTunnel call, no cleanup.
NoStart    == \A s \in Starts : ~Live(s)
NoTeardown == \A t \in DOMAIN teardowns : teardowns[t].pc = "done"
Quiet      == NoStart /\ NoTeardown /\ \A p \in Callers : stopPc[p] = "no"

\* When the user (or Android, for onDestroy) lets a command reach the service.
MayStart ==
    \/ Quiet
    \/ "switch" \in input.overlap /\ NoStart
    \/ "any" \in input.overlap
SomeWaits == \E s \in Starts : startPc[s] \in Waiting
MayStop ==
    \/ Quiet
    \/ "cancel" \in input.overlap /\ NoTeardown /\ ~SomeWaits
    \/ "early" \in input.overlap /\ NoTeardown
    \/ "any" \in input.overlap

\* onStartCommand + startTunnel: refused while starting or active, otherwise a
\* vpn-start thread is created that remembers the latch of the last teardown.
StartCommand ==
    /\ MainIdle /\ service # "destroyed"
    /\ started < input.starts
    /\ MayStart
    /\ ~starting /\ ~tunnelActive
    /\ starting' = TRUE
    /\ started' = started + 1
    /\ startPc' = [startPc EXCEPT ![started + 1] = "await"]
    /\ latch' = [latch EXCEPT ![started + 1] = Len(teardowns)]
    /\ service' = "up"
    /\ lastCommand' = "start"
    /\ UNCHANGED <<stopping, tunnelActive, gen, startGen, input, stopVars,
                   teardowns, resources, earlyStop>>

\* onStartCommand with ACTION_STOP: enters stopTunnel on the main thread.
StopCommand ==
    /\ MainIdle /\ service # "destroyed"
    /\ stops < MaxStops
    /\ MayStop
    /\ stops' = stops + 1
    /\ stopPc' = [stopPc EXCEPT ![Main] = "read"]
    /\ lastCommand' = "stop"
    /\ earlyStop' = (earlyStop \/ SomeWaits)
    /\ UNCHANGED <<flags, gen, startVars, stopGen, teardowns, resources, service>>

\* onDestroy, after stopSelf: stopTunnel once more.
Destroy ==
    /\ MainIdle /\ service = "stopSelf"
    /\ MayStop
    /\ service' = "destroyed"
    /\ earlyStop' = (earlyStop \/ SomeWaits)
    /\ stopPc' = [stopPc EXCEPT ![Main] = "read"]
    /\ UNCHANGED <<flags, gen, startVars, stops, stopGen, teardowns, resources,
                   lastCommand>>

-----------------------------------------------------------------------------
(***************************************************************************)
(* stopTunnel, by caller p.                                                *)
(***************************************************************************)

\* stopTunnel returns: a vpn-start thread goes on to its finally block.
Return(p) ==
    /\ stopPc' = [stopPc EXCEPT ![p] = "no"]
    /\ startPc' = IF p \in Starts THEN [startPc EXCEPT ![p] = "finally"] ELSE startPc

\* val generation = ++lifecycleGeneration on a volatile field: a read, then a
\* write of the read value plus one.
StopRead(p) ==
    /\ stopPc[p] = "read"
    /\ stopGen' = [stopGen EXCEPT ![p] = gen + 1]
    /\ stopPc' = [stopPc EXCEPT ![p] = "bump"]
    /\ UNCHANGED <<flags, gen, startVars, stops, teardowns, resources, service,
                   history>>

StopBump(p) ==
    /\ stopPc[p] = "bump"
    /\ gen' = stopGen[p]
    /\ stopPc' = [stopPc EXCEPT ![p] = "check"]
    /\ UNCHANGED <<flags, startVars, stops, stopGen, teardowns, resources, service,
                   history>>

AlreadyStopped == ~starting /\ ~tunnelActive /\ tunFd = 0 /\ running = {}

\* The two early returns, "VPN already stopped" and "VPN stop already running".
StopCheck(p) ==
    /\ stopPc[p] = "check"
    /\ \/ /\ AlreadyStopped \/ stopping
          /\ Return(p)
       \/ /\ ~AlreadyStopped /\ ~stopping
          /\ stopPc' = [stopPc EXCEPT ![p] = "commit"]
          /\ UNCHANGED startPc
    /\ UNCHANGED <<flags, gen, started, startGen, latch, input, stops, stopGen,
                   teardowns, resources, service, history>>

\* Mutant of StopCommit: `starting' is left to the start thread.
StopCommitKeepsStarting(p) ==
    /\ stopPc[p] = "commit"
    /\ stopping' = TRUE
    /\ tunnelActive' = FALSE
    /\ teardowns' = Append(teardowns, [gen |-> stopGen[p], pc |-> "check"])
    /\ Return(p)
    /\ UNCHANGED <<starting, gen, started, startGen, latch, input, stops, stopGen,
                   resources, service, history>>

\* Mutant of StopCommit: `tunnelActive' is left to the cleanup.
StopCommitKeepsActive(p) ==
    /\ stopPc[p] = "commit"
    /\ stopping' = TRUE
    /\ starting' = FALSE
    /\ teardowns' = Append(teardowns, [gen |-> stopGen[p], pc |-> "check"])
    /\ Return(p)
    /\ UNCHANGED <<tunnelActive, gen, started, startGen, latch, input, stops, stopGen,
                   resources, service, history>>

\* Flags down, a new latch published, the cleanup thread created.
StopCommit(p) ==
    /\ stopPc[p] = "commit"
    /\ stopping' = TRUE
    /\ starting' = FALSE
    /\ tunnelActive' = FALSE
    /\ teardowns' = Append(teardowns, [gen |-> stopGen[p], pc |-> "check"])
    /\ Return(p)
    /\ UNCHANGED <<gen, started, startGen, latch, input, stops, stopGen, resources,
                   service, history>>

-----------------------------------------------------------------------------
(***************************************************************************)
(* The cleanup thread t.                                                   *)
(***************************************************************************)
Goto(t, pc) == teardowns' = [teardowns EXCEPT ![t].pc = pc]

\* Skipped when a newer generation exists.
TeardownCheck(t) ==
    /\ teardowns[t].pc = "check"
    /\ Goto(t, IF gen = teardowns[t].gen THEN "backend" ELSE "signal")
    /\ UNCHANGED <<flags, gen, startVars, stopVars, resources, service, history>>

\* Mutant of TeardownBackend: the SOCKS bridge is forgotten.
TeardownBackendKeepsBridge(t) ==
    /\ teardowns[t].pc = "backend"
    /\ running' = running \cap {"hev", "bridge"}
    /\ Goto(t, "tun")
    /\ UNCHANGED <<flags, gen, startVars, stopVars, tunFd, service, history>>

\* All four engines, then the SOCKS bridge.
TeardownBackend(t) ==
    /\ teardowns[t].pc = "backend"
    /\ running' = running \cap {"hev"}
    /\ Goto(t, "tun")
    /\ UNCHANGED <<flags, gen, startVars, stopVars, tunFd, service, history>>

TeardownTun(t) ==
    /\ teardowns[t].pc = "tun"
    /\ tunFd' = 0
    /\ Goto(t, "hev")
    /\ UNCHANGED <<flags, gen, startVars, stopVars, running, service, history>>

TeardownHev(t) ==
    /\ teardowns[t].pc = "hev"
    /\ running' = running \ {"hev"}
    /\ Goto(t, "signal")
    /\ UNCHANGED <<flags, gen, startVars, stopVars, tunFd, service, history>>

\* Mutant of TeardownSignal: the latch is released only by a cleanup that ran.
TeardownSignalIfCurrent(t) ==
    /\ teardowns[t].pc = "signal"
    /\ gen = teardowns[t].gen
    /\ Goto(t, "post")
    /\ UNCHANGED <<flags, gen, startVars, stopVars, resources, service, history>>

\* The finally block: done.countDown(), then handler.post { ... }.
TeardownSignal(t) ==
    /\ teardowns[t].pc = "signal"
    /\ Goto(t, "post")
    /\ UNCHANGED <<flags, gen, startVars, stopVars, resources, service, history>>

\* The posted block, on the main thread: stopSelf unless the generation moved.
TeardownPost(t) ==
    /\ teardowns[t].pc = "post" /\ MainIdle
    /\ Goto(t, "done")
    /\ IF gen = teardowns[t].gen
         THEN /\ stopping' = FALSE
              /\ service' = IF service = "up" THEN "stopSelf" ELSE service
         ELSE UNCHANGED <<stopping, service>>
    /\ UNCHANGED <<starting, tunnelActive, gen, startVars, stopVars, resources,
                   history>>

-----------------------------------------------------------------------------
(***************************************************************************)
(* The vpn-start thread s.                                                 *)
(***************************************************************************)
StartStep(s, from, to) ==
    /\ startPc[s] = from
    /\ startPc' = [startPc EXCEPT ![s] = to]

\* Mutant of StartAwait: the restart does not wait for the teardown.
StartAwaitNot(s) ==
    /\ StartStep(s, "await", "bumpRead")
    /\ UNCHANGED <<flags, gen, started, startGen, latch, input, stopVars, teardowns,
                   resources, service, history>>

\* Wait for the latch captured at START; TEARDOWN_WAIT_MS may run out first.
StartAwait(s) ==
    /\ StartStep(s, "await", "bumpRead")
    /\ latch[s] # 0 => Signalled(latch[s]) \/ TeardownSlow
    /\ UNCHANGED <<flags, gen, started, startGen, latch, input, stopVars, teardowns,
                   resources, service, history>>

StartBumpRead(s) ==
    /\ StartStep(s, "bumpRead", "bumpWrite")
    /\ startGen' = [startGen EXCEPT ![s] = gen + 1]
    /\ UNCHANGED <<flags, gen, started, latch, input, stopVars, teardowns, resources,
                   service, history>>

StartBumpWrite(s) ==
    /\ StartStep(s, "bumpWrite", "clear")
    /\ gen' = startGen[s]
    /\ UNCHANGED <<flags, started, startGen, latch, input, stopVars, teardowns,
                   resources, service, history>>

StartClearStopping(s) ==
    /\ StartStep(s, "clear", "activate")
    /\ stopping' = FALSE
    /\ UNCHANGED <<starting, tunnelActive, gen, started, startGen, latch, input,
                   stopVars, teardowns, resources, service, history>>

\* startTunnelWorker publishes tunnelActive before any check.  The DNS engine
\* then chooses a resolver and checks; the other engines start at once.
StartActivate(s) ==
    /\ StartStep(s, "activate", IF input.engine[s] = "slipstream" THEN "cEngine" ELSE "engine")
    /\ tunnelActive' = TRUE
    /\ UNCHANGED <<starting, stopping, gen, started, startGen, latch, input, stopVars,
                   teardowns, resources, service, history>>

\* Mutant of StartCheck: a cancelled start goes on.
StartCheckNever(s) ==
    /\ startPc[s] \in DOMAIN AfterCheck
    /\ startPc' = [startPc EXCEPT ![s] = AfterCheck[startPc[s]]]
    /\ UNCHANGED <<flags, gen, started, startGen, latch, input, stopVars, teardowns,
                   resources, service, history>>

\* if (!tunnelActive || lifecycleGeneration != generation) error("VPN start cancelled")
StartCheck(s) ==
    /\ startPc[s] \in DOMAIN AfterCheck
    /\ startPc' = [startPc EXCEPT ![s] =
                      IF tunnelActive /\ gen = startGen[s]
                        THEN AfterCheck[startPc[s]] ELSE "catchBackend"]
    /\ UNCHANGED <<flags, gen, started, startGen, latch, input, stopVars, teardowns,
                   resources, service, history>>

\* Any step of a worker may throw instead: a blank setting, a dead resolver, a
\* port in use, establish() returning null.
StartFail(s) ==
    /\ startPc[s] \in {"cEngine", "engine", "ready", "engine2", "ready2", "bridge",
                       "tun", "hev"}
    /\ startPc' = [startPc EXCEPT ![s] = "catchBackend"]
    /\ UNCHANGED <<flags, gen, started, startGen, latch, input, stopVars, teardowns,
                   resources, service, history>>

StartEngine(s) ==
    /\ \/ StartStep(s, "engine", "cReady")
       \/ StartStep(s, "engine2", "cReady2")
    /\ running' = running \cup {input.engine[s]}
    /\ UNCHANGED <<flags, gen, started, startGen, latch, input, stopVars, teardowns,
                   tunFd, service, history>>

\* The engine accepts connections.  Only the DNS engine needs the SOCKS bridge.
StartReady(s) ==
    /\ \E from \in {"ready", "ready2"} :
          StartStep(s, from, IF input.engine[s] = "slipstream" THEN "cBridge" ELSE "cTun")
    /\ UNCHANGED <<flags, gen, started, startGen, latch, input, stopVars, teardowns,
                   resources, service, history>>

\* startSlipstreamWithTransportFallback: not ready, so stop the client and try
\* the other transport, once.
StartFallback(s) ==
    /\ input.engine[s] = "slipstream"
    /\ StartStep(s, "ready", "cEngine2")
    /\ running' = running \ {"slipstream"}
    /\ UNCHANGED <<flags, gen, started, startGen, latch, input, stopVars, teardowns,
                   tunFd, service, history>>

StartBridge(s) ==
    /\ StartStep(s, "bridge", "cTun")
    /\ running' = running \cup {"bridge"}
    /\ UNCHANGED <<flags, gen, started, startGen, latch, input, stopVars, teardowns,
                   tunFd, service, history>>

StartTun(s) ==
    /\ StartStep(s, "tun", "hev")
    /\ tunFd' = s
    /\ UNCHANGED <<flags, gen, started, startGen, latch, input, stopVars, teardowns,
                   running, service, history>>

\* tunFd is read again here: a teardown may have closed it meanwhile.
StartHev(s) ==
    /\ tunFd # 0
    /\ StartStep(s, "hev", "cDone")
    /\ running' = running \cup {"hev"}
    /\ UNCHANGED <<flags, gen, started, startGen, latch, input, stopVars, teardowns,
                   tunFd, service, history>>

\* The catch block, whatever the generation: hev, then this worker's engine
\* (and bridge), then the TUN and tunnelActive, then stopTunnel.
CatchBackend(s) ==
    /\ StartStep(s, "catchBackend", "catchTun")
    /\ running' = running \ ({"hev", input.engine[s]} \cup
                                IF input.engine[s] = "slipstream" THEN {"bridge"} ELSE {})
    /\ UNCHANGED <<flags, gen, started, startGen, latch, input, stopVars, teardowns,
                   tunFd, service, history>>

CatchTun(s) ==
    /\ StartStep(s, "catchTun", "catchStop")
    /\ tunFd' = 0
    /\ tunnelActive' = FALSE
    /\ stopPc' = [stopPc EXCEPT ![s] = "read"]
    /\ UNCHANGED <<starting, stopping, gen, started, startGen, latch, input, stops,
                   stopGen, teardowns, running, service, history>>

\* finally: `starting' is cleared only by the thread that owns the generation.
StartFinally(s) ==
    /\ StartStep(s, "finally", "done")
    /\ starting' = IF gen = startGen[s] THEN FALSE ELSE starting
    /\ UNCHANGED <<stopping, tunnelActive, gen, started, startGen, latch, input,
                   stopVars, teardowns, resources, service, history>>

-----------------------------------------------------------------------------
StartThread(s) ==
    \/ StartAwait(s) \/ StartBumpRead(s) \/ StartBumpWrite(s)
    \/ StartClearStopping(s) \/ StartActivate(s) \/ StartCheck(s)
    \/ StartEngine(s) \/ StartReady(s) \/ StartFallback(s) \/ StartBridge(s)
    \/ StartTun(s) \/ StartHev(s) \/ StartFail(s)
    \/ CatchBackend(s) \/ CatchTun(s) \/ StartFinally(s)

StopTunnel(p) == StopRead(p) \/ StopBump(p) \/ StopCheck(p) \/ StopCommit(p)

TeardownThread(t) ==
    \/ TeardownCheck(t) \/ TeardownBackend(t) \/ TeardownTun(t) \/ TeardownHev(t)
    \/ TeardownSignal(t) \/ TeardownPost(t)

Next ==
    \/ StartCommand \/ StopCommand \/ Destroy
    \/ \E s \in Starts : StartThread(s)
    \/ \E p \in Callers : StopTunnel(p)
    \/ \E t \in DOMAIN teardowns : TeardownThread(t)

Spec == Init /\ [][Next]_vars

\* Threads run; nobody promises that the user gives another command.
MaxTeardowns == MaxStarts + MaxStops + 1
Fairness ==
    /\ \A s \in Starts : WF_vars(StartThread(s))
    /\ \A p \in Callers : WF_vars(StopTunnel(p))
    /\ \A t \in 1..MaxTeardowns : WF_vars(t \in DOMAIN teardowns /\ TeardownThread(t))

FairSpec == Spec /\ Fairness

-----------------------------------------------------------------------------
\* The fields of the service, its threads and its resources keep their types.
TypeOK ==
    /\ starting \in BOOLEAN /\ stopping \in BOOLEAN /\ tunnelActive \in BOOLEAN
    /\ gen \in Nat
    /\ started \in 0..MaxStarts
    /\ stops \in 0..MaxStops
    /\ startPc \in [Starts -> StartPcs]
    /\ startGen \in [Starts -> Nat]
    /\ latch \in [Starts -> Nat]
    /\ input \in Input
    /\ stopPc \in [Callers -> StopPcs]
    /\ stopGen \in [Callers -> Nat]
    /\ teardowns \in Seq(Teardown)
    /\ running \subseteq Engines \cup {"bridge", "hev"}
    /\ tunFd \in 0..MaxStarts
    /\ service \in {"up", "stopSelf", "destroyed"}
    /\ lastCommand \in {"none", "start", "stop"} /\ earlyStop \in BOOLEAN

\* `starting' is never left behind: as long as it is TRUE (and so refuses every
\* START, startTunnel's first guard) some vpn-start thread is alive or some
\* stopTunnel call is past its bump and about to clear it.
StartingHasOwner ==
    starting => \/ \E s \in Starts : Live(s)
                \/ \E p \in Callers : stopPc[p] \in {"check", "commit"}

\* A stop that meets a start before its ++lifecycleGeneration (`earlyStop') is the
\* exception to the four properties below: that start goes on as if it were newer
\* than the stop, the stop's cleanup is skipped or runs into it, and `stopping' may
\* stay TRUE, which refuses every later STOP.

\* When everything has come to rest and the tunnel is not active, nothing it
\* started is left behind: no engine, no bridge, no TUN, no hev.
NothingLeaks == Quiet /\ ~tunnelActive /\ ~earlyStop => running = {} /\ tunFd = 0

\* When everything has come to rest and the tunnel is active, it is whole: TUN
\* and hev are up on exactly one engine, with the bridge when that is the DNS one.
\* A user who both cancels a start and switches during a teardown can defeat it.
TunnelWhole ==
    Quiet /\ tunnelActive /\ ~earlyStop /\ Cardinality(input.overlap) <= 1 =>
        /\ tunFd # 0
        /\ "hev" \in running
        /\ Cardinality(running \cap Engines) = 1
        /\ ("slipstream" \in running) = ("bridge" \in running)

\* The last command wins: after a STOP, everything at rest, no tunnel is active,
\* unless some stop came before the generation of a start (earlyStop).
LastStopWins == Quiet /\ lastCommand = "stop" /\ ~earlyStop => ~tunnelActive

\* A start that waited for the teardown finds nothing of the previous tunnel
\* when it begins its work ("wait first, bump after" in startTunnel).
StartsOnCleanGround ==
    [][\A s \in Starts : startPc[s] = "activate" /\ startPc'[s] # "activate" /\ ~earlyStop
          => running = {} /\ tunFd = 0]_vars

\* Every accepted START comes to an end, connected or cleaned up: the latch it
\* waits for is always released, skipped cleanups included.
StartTerminates == \A s \in Starts : (startPc[s] = "await") ~> (startPc[s] = "done")
=============================================================================
