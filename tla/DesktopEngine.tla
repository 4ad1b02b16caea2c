---------------------------- MODULE DesktopEngine ----------------------------
(***************************************************************************)
(* The desktop tunnel whole: the engine's child process and the local      *)
(* listener (shared/desktop/DesktopTunnel.kt, EngineProcess.kt) composed   *)
(* with the override of the proxy settings (SystemProxy).                  *)
(*                                                                         *)
(* A thread that SystemProxy sees at "engine", or as done with a restore,  *)
(* is here at one of the statements of start and stop that deal with the   *)
(* process, its pid file, the engine port and the listener.  The engine    *)
(* outlives the application when that is killed: what is left then is the  *)
(* pid file.                                                               *)
(***************************************************************************)
EXTENDS SystemProxy, FiniteSets, Sequences

CONSTANTS
    Names,          \* the engines, each with a pid file of its own
    MaxStarts       \* bound on the calls of start

ASSUME EngineAssumption == "" \notin Names /\ MaxStarts \in Nat

VARIABLES
    spawned,    \* the engine of every process there has been; the index is its pid
    alive,      \* the processes that run
    hooked,     \* those a shutdown hook of this JVM will kill
    holder,     \* the process whose socket holds the engine port, 0 if none
    pidFile,    \* the pid in each engine's file, 0 if there is no file
    engine,     \* DesktopTunnel.engine's process, 0 if none
    proxy,      \* is DesktopTunnel.proxy set?
    listening,  \* does some MixedProxyServer hold the listen port?
    call,       \* where each thread is in the engine's half of start and stop
    starts,
    lost        \* history: processes whose pid never reached the file

engineVars == <<spawned, alive, hooked, holder, pidFile, engine, proxy, listening, starts, lost>>
tunnelVars == <<vars, engineVars, call>>

\* Where the call is, the engine it starts, the process it works with, and
\* what follows the stop or the reaping of one.
NoCall == [at |-> "none", name |-> "", proc |-> 0, then |-> "none"]
Points == {"none", "reap", "ports", "spawn", "record", "assign", "await", "serve", "publish", "fail",
           "stopProxy", "stopEngine", "kill", "forget"}

TunnelInit ==
    /\ Init
    /\ spawned = << >> /\ alive = {} /\ hooked = {} /\ holder = 0
    /\ pidFile = [n \in Names |-> 0]
    /\ engine = 0 /\ proxy = FALSE /\ listening = FALSE
    /\ call = [t \in Threads |-> NoCall]
    /\ starts = 0 /\ lost = {}

Here(t, at) == call[t].at = at
Goto(t, at) == call' = [call EXCEPT ![t].at = at]

-----------------------------------------------------------------------------
(***************************************************************************)
(* stop: after the restore, the listener and then the engine.              *)
(***************************************************************************)
Start(t, n) ==
    /\ Here(t, "none") /\ starts < MaxStarts
    /\ Connect(t)
    /\ starts' = starts + 1
    /\ call' = [call EXCEPT ![t] = [NoCall EXCEPT !.at = "stopProxy", !.name = n, !.then = "reap"]]
    /\ UNCHANGED <<spawned, alive, hooked, holder, pidFile, engine, proxy, listening, lost>>

Stop(t) ==
    /\ Here(t, "none")
    /\ Disconnect(t)
    /\ Goto(t, "stopProxy")
    /\ UNCHANGED engineVars

StopProxy(t) ==
    /\ Here(t, "stopProxy") /\ task[t].op # "restore"
    /\ listening' = (listening /\ ~proxy) /\ proxy' = FALSE
    /\ Goto(t, "stopEngine")
    /\ UNCHANGED <<vars, spawned, alive, hooked, holder, pidFile, engine, starts, lost>>

\* EngineProcess.stop takes the process and removes its hook.
StopEngine(t) ==
    /\ Here(t, "stopEngine")
    /\ hooked' = hooked \ {engine} /\ engine' = 0
    /\ call' = [call EXCEPT ![t].proc = engine,
                            ![t].at = IF engine = 0 THEN call[t].then ELSE "kill"]
    /\ UNCHANGED <<vars, spawned, alive, holder, pidFile, proxy, listening, starts, lost>>

\* killTree, or reapStale's destroy.
Kill(t) ==
    /\ Here(t, "kill")
    /\ alive' = alive \ {call[t].proc}
    /\ Goto(t, "forget")
    /\ UNCHANGED <<vars, spawned, hooked, holder, pidFile, engine, proxy, listening, starts, lost>>

\* The pid file is deleted last; stop then clears DesktopTunnel.engine.
Forget(t) ==
    /\ Here(t, "forget")
    /\ LET c == call[t]
           file == IF c.proc = 0 THEN c.name ELSE spawned[c.proc]
       IN  /\ pidFile' = [pidFile EXCEPT ![file] = 0]
           /\ engine' = IF c.then = "ports" THEN engine ELSE 0
           /\ call' = [call EXCEPT ![t].at = c.then, ![t].proc = 0]
    /\ UNCHANGED <<vars, spawned, alive, hooked, holder, proxy, listening, starts, lost>>

-----------------------------------------------------------------------------
(***************************************************************************)
(* start.                                                                  *)
(***************************************************************************)
\* Mutant of Survivor: the file is read and nobody is killed.
SurvivorSpared(n) == 0

\* The process reapStale kills: the one in the file, if it still runs.
Survivor(n) == IF pidFile[n] \in alive THEN pidFile[n] ELSE 0

Reap(t) ==
    /\ Here(t, "reap")
    /\ call' = [call EXCEPT ![t].proc = Survivor(call[t].name), ![t].at = "kill", ![t].then = "ports"]
    /\ UNCHANGED <<vars, engineVars>>

\* waitForPortFree for both ports: a killed engine's socket goes in time.
Ports(t) ==
    /\ Here(t, "ports")
    /\ \/ holder = 0 /\ ~listening /\ Goto(t, "spawn")
       \/ (holder # 0 \/ listening) /\ Goto(t, "fail")
    /\ UNCHANGED <<vars, engineVars>>

\* EngineProcess.start: reapStale again, then the child.
Spawn(t) ==
    /\ Here(t, "spawn")
    /\ LET n == call[t].name
           pid == Len(spawned) + 1
       IN  /\ spawned' = Append(spawned, n)
           /\ alive' = (alive \ {Survivor(n)}) \cup {pid}
           /\ pidFile' = [pidFile EXCEPT ![n] = 0]
           /\ call' = [call EXCEPT ![t].proc = pid, ![t].at = "record"]
    /\ UNCHANGED <<vars, hooked, holder, engine, proxy, listening, starts, lost>>

\* The pid file; a write that fails is ignored.
Record(t) ==
    /\ Here(t, "record")
    /\ LET p == call[t].proc
       IN  \/ pidFile' = [pidFile EXCEPT ![call[t].name] = p] /\ UNCHANGED lost
           \/ faulty /\ lost' = lost \cup {p} /\ UNCHANGED pidFile
    /\ Goto(t, "assign")
    /\ UNCHANGED <<vars, spawned, alive, hooked, holder, engine, proxy, listening, starts>>

\* The shutdown hook, and DesktopTunnel.engine = proc.
Assign(t) ==
    /\ Here(t, "assign")
    /\ hooked' = hooked \cup {call[t].proc} /\ engine' = call[t].proc
    /\ Goto(t, "await")
    /\ UNCHANGED <<vars, spawned, alive, holder, pidFile, proxy, listening, starts, lost>>

\* waitForPort: somebody answers on the engine port.
Ready(t) ==
    /\ Here(t, "await") /\ holder # 0
    /\ Goto(t, "serve")
    /\ UNCHANGED <<vars, engineVars>>

\* Nobody did: proc.stop, unless another stop has taken the process.
Timeout(t) ==
    /\ Here(t, "await") /\ holder = 0
    /\ LET p == call[t].proc
       IN  /\ call' = [call EXCEPT ![t].at = IF p \in hooked THEN "kill" ELSE "fail", ![t].then = "fail"]
           /\ hooked' = hooked \ {p}
           /\ engine' = IF p \in hooked THEN engine ELSE 0
    /\ UNCHANGED <<vars, spawned, alive, holder, pidFile, proxy, listening, starts, lost>>

\* MixedProxyServer.start binds the listen port.
Serve(t) ==
    /\ Here(t, "serve")
    /\ \/ ~listening /\ listening' = TRUE /\ Goto(t, "publish")
       \/ (listening \/ faulty) /\ Goto(t, "fail") /\ UNCHANGED listening
    /\ UNCHANGED <<vars, spawned, alive, hooked, holder, pidFile, engine, proxy, starts, lost>>

\* proxy = server; apply comes next.
Publish(t) ==
    /\ Here(t, "publish")
    /\ EngineReady(t)
    /\ proxy' = TRUE
    /\ call' = [call EXCEPT ![t] = NoCall]
    /\ UNCHANGED <<spawned, alive, hooked, holder, pidFile, engine, listening, starts, lost>>

\* engineSpec or the spawn throws: no binary, a configuration that is not JSON.
Broken(t) ==
    /\ faulty /\ (Here(t, "reap") \/ Here(t, "spawn"))
    /\ Goto(t, "fail")
    /\ UNCHANGED <<vars, engineVars>>

\* Mutant of Fail: onFailure only reports.
FailReports(t) ==
    /\ Here(t, "fail")
    /\ task' = [task EXCEPT ![t] = Idle(reg)] /\ connecting' = FALSE
    /\ call' = [call EXCEPT ![t] = NoCall]
    /\ UNCHANGED <<reg, backup, content, systemProxyApplied, process, crashes, user, faulty, engineVars>>

\* onFailure calls stop.
Fail(t) ==
    /\ Here(t, "fail")
    /\ EngineFails(t)
    /\ call' = [call EXCEPT ![t] = [NoCall EXCEPT !.at = "stopProxy"]]
    /\ UNCHANGED engineVars

\* The steps of apply and restore, and the return of a start that failed.
ProxyStep(t) ==
    /\ \/ SaveBackup(t) \/ ApplyStep(t) \/ ApplyFails(t)
       \/ RestoreStep(t) \/ DeleteBackup(t) \/ RestoreFails(t)
       \/ Here(t, "none") /\ StartFailed(t)
    /\ UNCHANGED <<engineVars, call>>

-----------------------------------------------------------------------------
(***************************************************************************)
(* The application dies; the engines are processes of their own.           *)
(***************************************************************************)
Open(t) == Launch(t) /\ UNCHANGED <<engineVars, call>>

\* Killed, or exiting with the shutdown hooks.  A pid not yet written is lost.
Die ==
    /\ Crash
    /\ \E killed \in {{}, hooked} : alive' = alive \ killed
    /\ lost' = lost \cup {call[t].proc : t \in {u \in Threads : Here(u, "record")}}
    /\ hooked' = {} /\ engine' = 0 /\ proxy' = FALSE /\ listening' = FALSE
    /\ call' = [t \in Threads |-> NoCall]
    /\ UNCHANGED <<spawned, holder, pidFile, starts>>

\* An engine binds its port, gives up when it cannot or when something is
\* wrong, and the system takes a dead one's socket down.
Bind(p) ==
    /\ p \in alive /\ holder = 0
    /\ holder' = p
    /\ UNCHANGED <<vars, spawned, alive, hooked, pidFile, engine, proxy, listening, call, starts, lost>>

Exit(p) ==
    /\ p \in alive /\ (faulty \/ holder \notin {0, p})
    /\ alive' = alive \ {p}
    /\ UNCHANGED <<vars, spawned, hooked, holder, pidFile, engine, proxy, listening, call, starts, lost>>

Release ==
    /\ holder \notin alive \cup {0}
    /\ holder' = 0
    /\ UNCHANGED <<vars, spawned, alive, hooked, pidFile, engine, proxy, listening, call, starts, lost>>

ThreadStep(t) ==
    \/ StopProxy(t) \/ StopEngine(t) \/ Kill(t) \/ Forget(t) \/ Reap(t) \/ Ports(t) \/ Spawn(t)
    \/ Record(t) \/ Assign(t) \/ Ready(t) \/ Timeout(t) \/ Serve(t) \/ Publish(t) \/ Broken(t) \/ Fail(t)
    \/ ProxyStep(t)

TunnelNext ==
    \/ Die \/ Release
    \/ \E p \in alive : Bind(p) \/ Exit(p)
    \/ \E t \in Threads : Open(t) \/ Stop(t) \/ ThreadStep(t) \/ \E n \in Names : Start(t, n)

TunnelSpec == TunnelInit /\ [][TunnelNext]_tunnelVars

\* A thread that has begun goes on, and the application is started again.
TunnelFairSpec ==
    /\ TunnelSpec
    /\ \A t \in Threads : WF_tunnelVars(ThreadStep(t)) /\ WF_tunnelVars(Open(t))

-----------------------------------------------------------------------------
(***************************************************************************)
(* Properties.                                                             *)
(***************************************************************************)
Pids == DOMAIN spawned

\* The values of the variables of this half.
EngineTypeOK ==
    /\ spawned \in Seq(Names)
    /\ alive \subseteq Pids /\ hooked \subseteq Pids /\ lost \subseteq Pids
    /\ {holder, engine} \subseteq Pids \cup {0}
    /\ pidFile \in [Names -> Pids \cup {0}]
    /\ proxy \in BOOLEAN /\ listening \in BOOLEAN /\ starts \in 0..MaxStarts
    /\ call \in [Threads -> [at : Points, name : Names \cup {""}, proc : Pids \cup {0}, then : Points]]

\* No engine and no listener is left to itself: a running engine is the one the
\* tunnel holds, one a thread is at work on, or one whose pid file says so ("the
\* PID is persisted and any survivor is reaped"), through deaths between any two
\* statements; but for a pid that never reached its file.
NoStray ==
    /\ \A p \in alive : p = engine \/ pidFile[spawned[p]] = p \/ p \in lost
                        \/ \E t \in Threads : call[t].proc = p
    /\ listening => proxy \/ \E t \in Threads : Here(t, "publish")

\* When a start looks at the port no survivor of its own engine holds it, which
\* is why it reaps before it looks.
OwnSurvivorGone ==
    \A t \in Threads :
      Here(t, "ports") /\ holder \in alive => spawned[holder] # call[t].name \/ holder \in lost

\* Every engine is accounted for.
EnginesAccounted == EngineTypeOK /\ NoStray /\ OwnSurvivorGone

\* No survivor of any engine holds the port then.
AnySurvivorGone ==
    \A t \in Threads : Here(t, "ports") => holder \notin alive \ lost

\* The tunnel implements the override's specification: what DesktopTunnel does
\* about the engine comes between the steps of apply and restore as that module
\* has them, or changes nothing of the settings and the backup.
ImplementsSystemProxy == Spec
=============================================================================
