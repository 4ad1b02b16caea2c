------------------------------ MODULE Recovery ------------------------------
(***************************************************************************)
(* How the DNS tunnel of TinyVpnService.kt is kept alive: the diagnostics  *)
(* tick, the resolver health check, the network watch and the backoff      *)
(* retry all call restartSlipstreamPath, which condemns or reuses the      *)
(* current resolver, chooses one and restarts the native client and the    *)
(* SOCKS bridge in a "slipstream-recovery" thread.                         *)
(*                                                                         *)
(* Delays are not modelled: a posted retry may run at any later moment,    *)
(* `cooling' is the recovery cooldown and ends at any later moment.        *)
(***************************************************************************)
EXTENDS Naturals, FiniteSets, RecoveryReason, ResolverChoice

CONSTANTS
    HostStates,     \* which of "dead", "tcp", "good" a resolver can be in
    NoProgress,     \* the outcomes of lastError() starting with "native no-progress"
    HealthChecks,   \* is the resolver health thread part of the model?
    SlowReady,      \* may a usable resolver miss the readiness timeout?
    MaxFaults,      \* bound: changes of the environment
    MaxLives,       \* bound: tunnel starts
    MaxPosted       \* bound: retry runnables in the handler's queue

ASSUME SettingsAssumption ==
    /\ HostStates \subseteq {"dead", "tcp", "good"} /\ "good" \in HostStates
    /\ NoProgress \subseteq BOOLEAN /\ NoProgress # {}
    /\ HealthChecks \in BOOLEAN /\ SlowReady \in BOOLEAN
    /\ MaxFaults \in Nat /\ MaxLives \in Nat \ {0} /\ MaxPosted \in Nat \ {0}

VARIABLES
    tunnelActive, recovering, cooling,
    current,        \* currentResolver, NoChoice for null
    failed,         \* failedAutoResolvers
    native,         \* the native client: "down", "starting" (not ready) or "ready"
    serving,        \* the hosts the native client was started with
    bridge,         \* is the SOCKS bridge up?
    pc,             \* where each recovery thread is
    job,            \* its reason, classification and choice
    posted,         \* the reason of each retry runnable in the queue, "" for none
    pending,        \* recoveryRetryPending: a queue slot, or 0 for null
    recheck,        \* is a network recheck posted?
    health,         \* the resolver health thread and its failure count
    cleanup,        \* the next step of the vpn-stop-cleanup thread
    host,           \* environment: what each resolver can do
    network,        \* environment: is there a usable network?
    changed,        \* does its signature differ from lastNetworkSignature?
    faults, lives   \* environment changes and tunnel starts so far

pathVars  == <<native, serving, bridge>>
recVars   == <<pc, job>>
retryVars == <<posted, pending>>
envVars   == <<host, network, changed, recheck, faults>>
vars == <<tunnelActive, recovering, cooling, current, failed, pathVars, recVars,
          retryVars, health, cleanup, envVars, lives>>

\* Two recovery threads exist at once only through a race.
Recs == {1, 2}
Slots == 1..MaxPosted
NoJob == [reason |-> "", auto |-> FALSE, reuse |-> FALSE, choice |-> NoChoice]

Alive == {h \in Hosts : network /\ host[h] # "dead"}
Good  == {h \in Hosts : network /\ host[h] = "good"}
Usable == ToSet(serving) \cap Good # {}
Up == native = "ready" /\ bridge /\ Usable

Init ==
    /\ tunnelActive = TRUE /\ recovering = FALSE /\ cooling = FALSE
    /\ host \in [Hosts -> HostStates] /\ network = TRUE /\ changed = FALSE
    /\ failed = {}
    /\ current = ChooseFast(Alive, {}) /\ host[Head(current)] = "good"
    /\ native = "ready" /\ serving = current /\ bridge = TRUE
    /\ pc = [r \in Recs |-> "idle"] /\ job = [r \in Recs |-> NoJob]
    /\ posted = [i \in Slots |-> ""] /\ pending = 0
    /\ recheck = FALSE
    /\ health = [pc |-> "idle", host |-> Pool[1], failures |-> 0]
    /\ cleanup = "none"
    /\ faults = 0 /\ lives = 1

-----------------------------------------------------------------------------
(***************************************************************************)
(* restartSlipstreamPath on the calling thread.                            *)
(***************************************************************************)
Unpost(slot) == [i \in Slots |-> IF i = slot THEN "" ELSE posted[i]]

\* The guards.
MayRestart == tunnelActive /\ ~recovering

\* The part after the guards: claim `recovering', cancel the scheduled retry,
\* create the thread.
Launch(reason) ==
    \E r \in Recs :
        /\ pc[r] = "idle" /\ \A q \in Recs : q < r => pc[q] # "idle"
        /\ recovering' = TRUE /\ cooling' = TRUE
        /\ pc' = [pc EXCEPT ![r] = "begin"]
        /\ job' = [job EXCEPT ![r] = [NoJob EXCEPT !.reason = reason]]

CancelRetry == posted' = Unpost(pending) /\ pending' = 0

-----------------------------------------------------------------------------
(***************************************************************************)
(* The recovery thread r.                                                  *)
(***************************************************************************)
Goto(r, to) == pc' = [pc EXCEPT ![r] = to] /\ UNCHANGED job
At(r, at) == pc[r] = at

\* Offline: keep the path and try again later.
RecDefer(r) ==
    /\ At(r, "begin") /\ ~network
    /\ Goto(r, "sched")
    /\ UNCHANGED <<tunnelActive, recovering, cooling, current, failed, pathVars, retryVars,
                   health, cleanup, envVars, lives>>

\* Classify the reason, stop bridge and client, condemn or forgive.
RecBegin(r) ==
    /\ At(r, "begin") /\ network
    /\ native' = "down" /\ bridge' = FALSE
    /\ \E noProgress \in NoProgress :
         LET reason == job[r].reason
             has    == current # NoChoice
             bad    == has /\ Head(current) \in failed
             rotate == Rotate(reason, noProgress, has, bad)
         IN  /\ failed' = IF ~rotate THEN {}
                          ELSE IF has THEN failed \cup {Head(current)} ELSE failed
             /\ pc' = [pc EXCEPT ![r] = "choose"]
             /\ job' = [job EXCEPT ![r].auto = AutoFast(reason, has),
                                   ![r].reuse = ReuseCurrent(reason, noProgress, has, bad)]
    /\ UNCHANGED <<tunnelActive, recovering, cooling, current, serving, retryVars,
                   health, cleanup, envVars, lives>>

\* What RecChoose takes: at once, for a new network, the same, or the next best.
Quick(r) == IF job[r].auto /\ current # NoChoice THEN QuickChoice(current, failed) ELSE NoChoice
Fresh(r) == Quick(r) = NoChoice /\ job[r].reason = "network_changed"
Chosen(r) ==
    CASE Quick(r) # NoChoice -> Quick(r)
      [] Fresh(r) -> ChooseFast(Alive, {})
      [] Quick(r) = NoChoice /\ ~Fresh(r) /\ job[r].reuse /\ current # NoChoice -> current
      [] OTHER -> ChooseFast(Alive, failed)

RecChoose(r) ==
    /\ At(r, "choose")
    /\ current' = Chosen(r)
    /\ failed' = IF Fresh(r) THEN {} ELSE failed
    /\ pc' = [pc EXCEPT ![r] = "check"]
    /\ job' = [job EXCEPT ![r].choice = Chosen(r)]
    /\ UNCHANGED <<tunnelActive, recovering, cooling, pathVars, retryVars, health, cleanup,
                   envVars, lives>>

\* A stop cancelled the probes, and the rescan chose nothing.
RecExhausted(r) ==
    /\ At(r, "choose") /\ ~tunnelActive
    /\ failed' = {}
    /\ Goto(r, "failed")
    /\ UNCHANGED <<tunnelActive, recovering, cooling, current, pathVars, retryVars, health,
                   cleanup, envVars, lives>>

\* After a pause, the only check before the client is started again.
RecCheck(r) ==
    /\ At(r, "check")
    /\ Goto(r, IF tunnelActive THEN "start" ELSE "finally")
    /\ UNCHANGED <<tunnelActive, recovering, cooling, current, failed, pathVars, retryVars,
                   health, cleanup, envVars, lives>>

\* startClient replaces a running client.
RecStart(r) ==
    /\ At(r, "start")
    /\ native' = "starting" /\ serving' = job[r].choice
    /\ Goto(r, "wait")
    /\ UNCHANGED <<tunnelActive, recovering, cooling, current, failed, bridge, retryVars,
                   health, cleanup, envVars, lives>>

\* startClient returns an error code (one of the faults).
RecStartFails(r) ==
    /\ At(r, "start") /\ faults < MaxFaults
    /\ faults' = faults + 1
    /\ native' = "down"
    /\ Goto(r, "failed")
    /\ UNCHANGED <<tunnelActive, recovering, cooling, current, failed, serving, bridge,
                   retryVars, health, cleanup, host, network, changed, recheck, lives>>

\* waitForSlipstreamReady, first half of a round: is there a reason to give up?
RecPoll(r) ==
    /\ At(r, "wait") /\ tunnelActive /\ native # "down"
    /\ Goto(r, "isReady")
    /\ UNCHANGED <<tunnelActive, recovering, cooling, current, failed, pathVars, retryVars,
                   health, cleanup, envVars, lives>>

\* Second half: ready, or one more round.
RecIsReady(r) ==
    /\ At(r, "isReady")
    /\ \/ native = "ready" /\ Goto(r, "bridge")
       \/ native # "ready" /\ (~tunnelActive \/ native = "down") /\ Goto(r, "wait")
    /\ UNCHANGED <<tunnelActive, recovering, cooling, current, failed, pathVars, retryVars,
                   health, cleanup, envVars, lives>>

\* Mutant of RecNotReady: the client is left running.
RecNotReadyKeepsClient(r) ==
    /\ \/ At(r, "wait") /\ (~tunnelActive \/ native = "down")
       \/ At(r, "isReady") /\ native = "starting" /\ (SlowReady \/ ~Usable)
    /\ failed' = failed \cup {Head(job[r].choice)}
    /\ Goto(r, "failed")
    /\ UNCHANGED <<tunnelActive, recovering, cooling, current, native, serving, bridge,
                   retryVars, health, cleanup, envVars, lives>>

\* Given up, or the deadline has passed: stop the client, condemn the resolver.
RecNotReady(r) ==
    /\ \/ At(r, "wait") /\ (~tunnelActive \/ native = "down")
       \/ At(r, "isReady") /\ native = "starting" /\ (SlowReady \/ ~Usable)
    /\ native' = "down"
    /\ failed' = failed \cup {Head(job[r].choice)}
    /\ Goto(r, "failed")
    /\ UNCHANGED <<tunnelActive, recovering, cooling, current, serving, bridge, retryVars,
                   health, cleanup, envVars, lives>>

RecBridge(r) ==
    /\ At(r, "bridge")
    /\ bridge' = TRUE
    /\ Goto(r, "done")
    /\ UNCHANGED <<tunnelActive, recovering, cooling, current, failed, native, serving,
                   retryVars, health, cleanup, envVars, lives>>

\* The bridge cannot bind its port (one of the faults).
RecBridgeFails(r) ==
    /\ At(r, "bridge") /\ faults < MaxFaults
    /\ faults' = faults + 1
    /\ bridge' = FALSE
    /\ Goto(r, "failed")
    /\ UNCHANGED <<tunnelActive, recovering, cooling, current, failed, native, serving,
                   retryVars, health, cleanup, host, network, changed, recheck, lives>>

\* Recovered: no retry is needed, the health count starts again.
RecDone(r) ==
    /\ At(r, "done")
    /\ CancelRetry
    /\ health' = [health EXCEPT !.failures = 0]
    /\ Goto(r, "finally")
    /\ UNCHANGED <<tunnelActive, recovering, cooling, current, failed, pathVars, cleanup,
                   envVars, lives>>

\* The catch block.
RecFailed(r) ==
    /\ At(r, "failed")
    /\ Goto(r, IF tunnelActive THEN "sched" ELSE "finally")
    /\ UNCHANGED <<tunnelActive, recovering, cooling, current, failed, pathVars, retryVars,
                   health, cleanup, envVars, lives>>

\* scheduleRecoveryRetry: drop the earlier one ...
RecSched(r) ==
    /\ At(r, "sched")
    /\ posted' = IF tunnelActive THEN Unpost(pending) ELSE posted
    /\ Goto(r, IF tunnelActive THEN "post" ELSE "finally")
    /\ UNCHANGED <<tunnelActive, recovering, cooling, current, failed, pathVars, pending,
                   health, cleanup, envVars, lives>>

\* ... and post a new one.
RecPost(r) ==
    /\ At(r, "post")
    /\ \E slot \in Slots :
         /\ posted[slot] = "" /\ \A i \in Slots : i < slot => posted[i] # ""
         /\ posted' = [posted EXCEPT ![slot] = job[r].reason]
         /\ pending' = slot
    /\ Goto(r, "finally")
    /\ UNCHANGED <<tunnelActive, recovering, cooling, current, failed, pathVars, health,
                   cleanup, envVars, lives>>

\* Mutant of RecFinally: `recovering' survives the thread.
RecFinallyKeeps(r) ==
    /\ At(r, "finally")
    /\ pc' = [pc EXCEPT ![r] = "idle"] /\ job' = [job EXCEPT ![r] = NoJob]
    /\ UNCHANGED <<tunnelActive, recovering, cooling, current, failed, pathVars, retryVars, health,
                   cleanup, envVars, lives>>

RecFinally(r) ==
    /\ At(r, "finally")
    /\ recovering' = FALSE
    /\ pc' = [pc EXCEPT ![r] = "idle"] /\ job' = [job EXCEPT ![r] = NoJob]
    /\ UNCHANGED <<tunnelActive, cooling, current, failed, pathVars, retryVars, health,
                   cleanup, envVars, lives>>

RecStep(r) ==
    \/ RecDefer(r) \/ RecBegin(r) \/ RecChoose(r) \/ RecExhausted(r) \/ RecCheck(r)
    \/ RecStart(r) \/ RecPoll(r) \/ RecIsReady(r) \/ RecNotReady(r)
    \/ RecBridge(r) \/ RecDone(r) \/ RecFailed(r) \/ RecSched(r) \/ RecPost(r)
    \/ RecFinally(r)

-----------------------------------------------------------------------------
(***************************************************************************)
(* The main thread: diagnostics, retries, the network watch.               *)
(***************************************************************************)

\* writeDiagnostics finds the client down: the bridge is stopped at once.
TickDown ==
    /\ tunnelActive /\ native = "down"
    /\ bridge' = FALSE
    /\ IF MayRestart /\ ~cooling
         THEN Launch("native_not_running") /\ CancelRetry
         ELSE bridge /\ UNCHANGED <<recovering, cooling, recVars, retryVars>>
    /\ UNCHANGED <<tunnelActive, current, failed, native, serving, health, cleanup, envVars,
                   lives>>

\* writeDiagnostics, the troubles of a running client that deserve a restart.
\* The cooldowns of a storm and of startup failures are shorter.
Troubles ==
    CASE native = "starting" -> {"native_not_ready"}
      [] native = "ready" /\ ~bridge -> {"traffic_no_response"}
      [] native = "ready" /\ bridge /\ ~Usable -> (FastPath \cup FastRetry)
      [] OTHER -> {}

TickTrouble ==
    /\ MayRestart
    /\ \E reason \in Troubles :
         /\ ~cooling \/ reason \in {"bridge_failure_storm", "bridge_failures_startup"}
         /\ Launch(reason)
    /\ CancelRetry
    /\ UNCHANGED <<tunnelActive, current, failed, pathVars, health, cleanup, envVars, lives>>

\* The retry runnable: dropped, posted again while offline, or a restart.
RetryFires(slot) ==
    /\ posted[slot] # ""
    /\ \/ /\ ~MayRestart
          /\ posted' = Unpost(slot) /\ pending' = 0
          /\ UNCHANGED <<recovering, cooling, recVars>>
       \/ /\ MayRestart /\ ~network
          /\ pending' = slot
          /\ UNCHANGED <<posted, recovering, cooling, recVars>>
       \/ /\ MayRestart /\ network
          /\ posted' = Unpost(slot) /\ pending' = 0
          /\ Launch(posted[slot])
    /\ UNCHANGED <<tunnelActive, current, failed, pathVars, health, cleanup, envVars, lives>>

\* The debounced network recheck.
Recheck ==
    /\ recheck
    /\ recheck' = FALSE
    /\ IF MayRestart /\ network /\ changed
         THEN /\ changed' = FALSE
              /\ IF cooling THEN UNCHANGED <<recovering, cooling, recVars, retryVars>>
                 ELSE Launch("network_changed") /\ CancelRetry
         ELSE UNCHANGED <<changed, recovering, cooling, recVars, retryVars>>
    /\ UNCHANGED <<tunnelActive, current, failed, pathVars, health, cleanup, host, network,
                   faults, lives>>

CooldownOver ==
    /\ cooling
    /\ cooling' = FALSE
    /\ UNCHANGED <<tunnelActive, recovering, current, failed, pathVars, recVars, retryVars, health,
                   cleanup, envVars, lives>>

\* stopTunnel: retry, recheck and diagnostics are cancelled, the state is reset.
Stop ==
    /\ tunnelActive
    /\ tunnelActive' = FALSE
    /\ current' = NoChoice /\ failed' = {}
    /\ CancelRetry /\ recheck' = FALSE
    /\ cleanup' = "native"
    /\ UNCHANGED <<recovering, cooling, pathVars, recVars, health, host, network, changed, faults,
                   lives>>

\* The cleanup thread stops the client, then the bridge.  A cleanup that skips
\* itself for a newer START is VpnLifecycle's: here a start waits for its end.
CleanupNative ==
    /\ cleanup = "native" /\ cleanup' = "bridge"
    /\ native' = "down"
    /\ UNCHANGED <<tunnelActive, recovering, cooling, current, failed, serving, bridge, recVars,
                   retryVars, health, envVars, lives>>
CleanupBridge ==
    /\ cleanup = "bridge" /\ cleanup' = "none"
    /\ bridge' = FALSE
    /\ UNCHANGED <<tunnelActive, recovering, cooling, current, failed, native, serving, recVars,
                   retryVars, health, envVars, lives>>

\* A later start that succeeds (VpnLifecycle has its steps).
Start ==
    /\ ~tunnelActive /\ cleanup = "none" /\ lives < MaxLives
    /\ ChooseFast(Alive, {})[1] \in Good
    /\ lives' = lives + 1
    /\ tunnelActive' = TRUE
    /\ failed' = {} /\ current' = ChooseFast(Alive, {}) /\ serving' = current'
    /\ native' = "ready" /\ bridge' = TRUE
    /\ health' = [health EXCEPT !.failures = 0]
    /\ changed' = FALSE
    /\ UNCHANGED <<recovering, cooling, recVars, retryVars, cleanup, host, network, recheck, faults>>

-----------------------------------------------------------------------------
(***************************************************************************)
(* The resolver health thread.                                             *)
(***************************************************************************)
HealthRestart == 2   \* RESOLVER_HEALTH_FAILURES_BEFORE_ROTATE

\* maybeCheckResolverHealth starts it on a tunnel that looks healthy.
HealthProbe ==
    /\ HealthChecks /\ health.pc = "idle"
    /\ MayRestart /\ native = "ready" /\ current # NoChoice /\ network
    /\ health' = [health EXCEPT !.pc = "probing", !.host = Head(current)]
    /\ UNCHANGED <<tunnelActive, recovering, cooling, current, failed, pathVars, recVars, retryVars,
                   cleanup, envVars, lives>>

\* The decision to restart reads `recovering' here and acts in HealthCommit.
HealthResult ==
    /\ health.pc = "probing"
    /\ LET fails == IF health.host \in Alive THEN 0
                    ELSE Min({health.failures + 1, HealthRestart})
       IN  health' = [health EXCEPT
                        !.failures = fails,
                        !.pc = IF fails >= HealthRestart /\ MayRestart /\ ~cooling
                                 THEN "commit" ELSE "idle"]
    /\ UNCHANGED <<tunnelActive, recovering, cooling, current, failed, pathVars, recVars, retryVars,
                   cleanup, envVars, lives>>

HealthCommit ==
    /\ health.pc = "commit"
    /\ health' = [health EXCEPT !.pc = "idle"]
    /\ Launch("resolver_unreachable") /\ CancelRetry
    /\ UNCHANGED <<tunnelActive, current, failed, pathVars, cleanup, envVars, lives>>

-----------------------------------------------------------------------------
(***************************************************************************)
(* The environment: the native client's own life, resolvers, networks.     *)
(***************************************************************************)
NativeReady ==
    /\ native = "starting" /\ Usable
    /\ native' = "ready"
    /\ UNCHANGED <<tunnelActive, recovering, cooling, current, failed, serving, bridge, recVars,
                   retryVars, health, cleanup, envVars, lives>>

NativeLosesReady ==
    /\ native = "ready" /\ ~Usable
    /\ native' = "starting"
    /\ UNCHANGED <<tunnelActive, recovering, cooling, current, failed, serving, bridge, recVars,
                   retryVars, health, cleanup, envVars, lives>>

NativeDies ==
    /\ native # "down" /\ faults < MaxFaults
    /\ native' = "down" /\ faults' = faults + 1
    /\ UNCHANGED <<tunnelActive, recovering, cooling, current, failed, serving, bridge, recVars,
                   retryVars, health, cleanup, host, network, changed, recheck, lives>>

HostChanges ==
    /\ faults < MaxFaults /\ faults' = faults + 1
    /\ \E h \in Hosts, state \in HostStates : host' = [host EXCEPT ![h] = state]
    /\ host' # host
    /\ UNCHANGED <<tunnelActive, recovering, cooling, current, failed, pathVars, recVars, retryVars,
                   health, cleanup, network, changed, recheck, lives>>

\* The network callback of a running tunnel posts (or re-posts) the recheck.
NetworkChanges ==
    /\ faults < MaxFaults /\ faults' = faults + 1
    /\ network' \in BOOLEAN /\ changed' \in {changed, TRUE}
    /\ recheck' = (recheck \/ tunnelActive)
    /\ UNCHANGED <<tunnelActive, recovering, cooling, current, failed, pathVars, recVars, retryVars,
                   health, cleanup, host, lives>>

-----------------------------------------------------------------------------
Next ==
    \/ \E r \in Recs : RecStep(r) \/ RecStartFails(r) \/ RecBridgeFails(r)
    \/ TickDown \/ TickTrouble \/ \E slot \in Slots : RetryFires(slot)
    \/ Recheck \/ CooldownOver
    \/ Stop \/ CleanupNative \/ CleanupBridge \/ Start
    \/ HealthProbe \/ HealthResult \/ HealthCommit
    \/ NativeReady \/ NativeLosesReady \/ NativeDies \/ HostChanges \/ NetworkChanges

Spec == Init /\ [][Next]_vars

\* Threads and timers go on.  The diagnostics tick runs every 5 s while the
\* retry delay grows to 60 s, so the tick is not starved by retries for ever.
Fairness ==
    /\ \A r \in Recs : WF_vars(RecStep(r))
    /\ \A slot \in Slots : WF_vars(RetryFires(slot))
    /\ SF_vars(TickDown) /\ SF_vars(TickTrouble)
    /\ WF_vars(Recheck) /\ WF_vars(CooldownOver)
    /\ WF_vars(CleanupNative) /\ WF_vars(CleanupBridge)
    /\ WF_vars(NativeReady)

FairSpec == Spec /\ Fairness

-----------------------------------------------------------------------------
RecPcs == {"idle", "begin", "choose", "check", "start", "wait", "isReady", "bridge", "done",
           "failed", "sched", "post", "finally"}

\* Every variable has its type.
TypeOK ==
    /\ {tunnelActive, recovering, cooling, bridge, network, changed, recheck} \subseteq BOOLEAN
    /\ current = NoChoice \/ ToSet(current) \subseteq Hosts
    /\ failed \subseteq Hosts
    /\ native \in {"down", "starting", "ready"} /\ ToSet(serving) \subseteq Hosts
    /\ \A r \in Recs : pc[r] \in RecPcs /\ ToSet(job[r].choice) \subseteq Hosts
    /\ posted \in [Slots -> Reasons \cup {""}] /\ pending \in {0} \cup Slots
    /\ health.pc \in {"idle", "probing", "commit"} /\ health.failures \in 0..HealthRestart
    /\ cleanup \in {"none", "native", "bridge"}
    /\ host \in [Hosts -> HostStates] /\ faults \in 0..MaxFaults /\ lives \in 1..MaxLives

\* No thread is at work on the tunnel.
Quiet == cleanup = "none" /\ \A r \in Recs : At(r, "idle")

\* Once a stop has come to rest no native client is left running, whatever a
\* recovery thread was doing when the user pressed stop.
NativeDownAfterStop == Quiet /\ ~tunnelActive => native = "down"

\* At most one retry is in the handler's queue (TinyVpnService.kt:1221, the
\* comment of scheduleRecoveryRetry).  With the health thread two recoveries may
\* run at once, and both may drop the earlier retry before either posts its own.
OneRetryPending == \A i, j \in Slots : posted[i] # "" /\ posted[j] # "" => i = j

\* A recovery selects a condemned resolver only when every resolver that
\* answers is condemned.  This is of one recovery at a time: a second one, begun
\* by the health thread, may condemn what the first is about to reuse.
ChoiceSkipsCondemned ==
    [][\A r \in Recs :
          At(r, "choose") /\ pc'[r] = "check" /\ Head(job'[r].choice) \in failed'
              => Alive \cap ToSet(Pool) \subseteq failed']_vars

\* While there is a network and a resolver that works, a dark tunnel comes up.
DarkRecovers ==
    (tunnelActive /\ network /\ Good # {}) ~> (Up \/ ~tunnelActive \/ ~network \/ Good = {})
=============================================================================
