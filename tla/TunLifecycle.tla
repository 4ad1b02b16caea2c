---------------------------- MODULE TunLifecycle ----------------------------
(***************************************************************************)
(* The life of the tun2socks engine: the JNI calls that start and stop it  *)
(* (hev_jni.c, HevSocks5Tunnel.kt), the native thread they start           *)
(* (hev-main.c), and the tasks of that thread (hev-socks5-tunnel.c), which *)
(* share one processor and give it up only where they wait.                *)
(*                                                                         *)
(* JNI callers and the native thread are real threads: their steps         *)
(* interleave at every shared variable.  A step of a task is everything it *)
(* does until it waits or exits.  What a session carries is TunSession's   *)
(* and UdpSession's subject; here a session has a phase, and the timeout   *)
(* that terminating it sets to zero.                                       *)
(***************************************************************************)
EXTENDS Integers, FiniteSets, SequencesExt

CONSTANTS
  Starters,    \* threads that call HevSocks5Tunnel.start
  Stoppers,    \* threads that call HevSocks5Tunnel.stop
  Conns,       \* the sessions of one life in the order they are accepted
  Cases,       \* faults, misc.max-session-count, what the callers ask for
  NoCaller

TunFaults ==
  {"main",     \* the config, a logger or the task system does not come up
   "early",    \* tunnel_init or the socketpair of event_task_init fails
   "late",     \* an allocation after the socketpair fails
   "create",   \* pthread_create fails
   "tun"}      \* reading the TUN fails, and goes on failing

Callers == Starters \cup Stoppers
Sessions == Range(Conns)

(* A limit of one session is excluded: it would make insert_session wake   *)
(* the session it has just added, whose task has not been run.             *)
ASSUME TunConstants ==
  /\ Starters \cap Stoppers = {}
  /\ NoCaller \notin Callers
  /\ Conns \in Seq(Sessions) /\ IsInjective(Conns)
  /\ {"event", "io", "timer", "read", "done"} \cap Sessions = {}
  /\ Cases \subseteq [faults : SUBSET TunFaults, limit : Nat \ {1}, wants : Seq(BOOLEAN),
                      stops : Nat, conns : 0 .. Len(Conns), udp : BOOLEAN]

VARIABLES
  mode,     \* the case
  calls,    \* calls made, of each kind
  pc,       \* where each caller is
  mutex,    \* tunnel_mutex: who holds it
  jni,      \* tunnel_running, config_content; who asked for what flag
  thread,   \* the native thread
  fds,      \* event_fds: -1, or open; and a byte written and not yet read
  reject,   \* reject_non_dns_udp
  core      \* the tasks, run, session_set and session_count

jniVars == <<calls, pc, mutex, jni>>
vars == <<mode, jniVars, thread, fds, reject, core>>

-----------------------------------------------------------------------------
(* The task system: a task is stopped, running (able to run) or waiting.   *)

Engine == {"event", "io", "timer"}
Tasks == Engine \cup Sessions

Idle == [task |-> [t \in Tasks |-> "stopped"], run |-> FALSE, set |-> <<>>, count |-> 0,
         ses |-> [s \in Sessions |-> [phase |-> "none", zero |-> FALSE]], at |-> "read", sleeping |-> FALSE,
         aborted |-> FALSE, spin |-> FALSE]

(* hev_task_wakeup: a stopped task must not be woken. *)
Wake(c, t) ==
  IF c.task[t] = "stopped" THEN [c EXCEPT !.aborted = TRUE]
                           ELSE [c EXCEPT !.task[t] = "running"]

(* Mutant: hev_task_join without the wakeup: the task may be asleep. *)
JoinQuiet(c, t) == [c EXCEPT !.task["event"] = "waiting", !.at = t]

(* One turn of hev_task_join's loop; the task exists and has not stopped. *)
Join(c, t) == [Wake(c, t) EXCEPT !.task["event"] = "waiting", !.at = t]

(* The end of hev_task_executer: wake the joiner, then leave the system.   *)
Exit(c, t) ==
  [(IF c.at = t THEN Wake(c, "event") ELSE c) EXCEPT !.task[t] = "stopped"]

Running(t) == thread = "run" /\ ~core.spin /\ ~core.aborted /\ core.task[t] = "running"
Waiting(t) == thread = "run" /\ ~core.spin /\ ~core.aborted /\ core.task[t] = "waiting"

-----------------------------------------------------------------------------
(* Sessions. *)

(* TAILQ_REMOVE: the session is in the list. *)
Without(set, s) == RemoveAt(set, CHOOSE i \in DOMAIN set : set[i] = s)

(* hev_socks5_session_terminate *)
Terminate(c, s) == Wake([c EXCEPT !.ses[s].zero = TRUE], s)

(* The event task does it to every session of the list. *)
TerminateEach(c) ==
  LET listed == Range(c.set)
  IN  [c EXCEPT
         !.ses = [s \in Sessions |-> [c.ses[s] EXCEPT !.zero = @ \/ s \in listed]],
         !.task = [t \in Tasks |-> IF t \in listed /\ c.task[t] # "stopped" THEN "running"
                                   ELSE c.task[t]],
         !.aborted = @ \/ \E s \in listed : c.task[s] = "stopped"]

(* Mutant: the session at the wrong end of the list. *)
insert_sessionLast(c, s) ==
  LET added == [c EXCEPT !.set = Append(@, s), !.count = @ + 1]
  IN  IF mode.limit = 0 \/ added.count < mode.limit THEN added
      ELSE Terminate(added, Last(added.set))

(* hev_socks5_tunnel_insert_session: at the limit the session that has     *)
(* been quiet for longest is terminated, and the new one stays.            *)
insert_session(c, s) ==
  LET added == [c EXCEPT !.set = Append(@, s), !.count = @ + 1]
  IN  IF mode.limit = 0 \/ added.count < mode.limit THEN added
      ELSE Terminate(added, Head(added.set))

(* hev_socks5_tunnel_update_session *)
update_session(c, s) ==
  IF mode.limit = 0 THEN c ELSE [c EXCEPT !.set = Append(Without(@, s), s)]

(* The end of hev_socks5_session_task_entry. *)
SessionEnd(c, s) ==
  Exit([c EXCEPT !.set = Without(@, s), !.count = @ - 1, !.ses[s].phase = "gone"], s)

(* The yielder: a timeout of zero does not wait. *)
WaitOrEnd(c, s) ==
  IF c.ses[s].zero THEN SessionEnd(c, s) ELSE [c EXCEPT !.task[s] = "waiting"]

(* A session's task runs.  connect and handshake set the timeout when they *)
(* begin, and a UDP session's handshake when it ends: a termination that   *)
(* came before is forgotten there.                                         *)
Connect(s) ==
  /\ core.ses[s].phase = "new"
  /\ LET c == [core EXCEPT !.ses[s].phase = "connect", !.ses[s].zero = FALSE]
     IN  core' \in {WaitOrEnd(c, s), SessionEnd(c, s)}

Handshake(s) ==
  /\ core.ses[s].phase = "connect"
  /\ LET c == [core EXCEPT !.ses[s].phase = "handshake", !.ses[s].zero = FALSE]
     IN  core' \in {WaitOrEnd(core, s), WaitOrEnd(c, s), SessionEnd(core, s)}

Splice(s) ==
  /\ core.ses[s].phase = "handshake"
  /\ LET c == [core EXCEPT !.ses[s].phase = "splice",
                           !.ses[s].zero = @ /\ ~mode.udp]
     IN  core' \in {WaitOrEnd(core, s), WaitOrEnd(c, s), SessionEnd(core, s)}

Relay(s) ==
  /\ core.ses[s].phase = "splice"
  /\ LET c == update_session(core, s)
     IN  core' \in {WaitOrEnd(c, s), SessionEnd(c, s)}

coreOnly == UNCHANGED <<mode, jniVars, thread, fds, reject>>

SessionRun(s) ==
  /\ Running(s)
  /\ Connect(s) \/ Handshake(s) \/ Splice(s) \/ Relay(s)
  /\ coreOnly

(* A direction has moved bytes: HEV_TASK_YIELD lets the other tasks run    *)
(* and comes back without a look at the timeout.                           *)
SessionYield(s) ==
  /\ Running(s) /\ core.ses[s].phase = "splice"
  /\ core' = update_session(core, s)
  /\ coreOnly

(* The SOCKS proxy answers, or closes. *)
SessionReady(s) ==
  /\ Waiting(s)
  /\ core' = Wake(core, s)
  /\ coreOnly

(* The timeout passes with no event: every wait of a session has one. *)
SessionExpire(s) ==
  /\ Waiting(s)
  /\ core' = SessionEnd(core, s)
  /\ coreOnly

-----------------------------------------------------------------------------
(* The tasks of the engine. *)

(* event_task_entry, from the byte to the first join. *)
Shutdown(c) == Join(TerminateEach([c EXCEPT !.run = FALSE]), "io")

EventRun ==
  /\ Running("event")
  /\ \/ core.at = "read" /\ ~fds.byte
        /\ core' = [core EXCEPT !.task["event"] = "waiting"]
     \/ core.at = "read" /\ fds.byte
        /\ core' = Shutdown(core)
     \/ core.at = "io"
        /\ core' = IF core.task["io"] # "stopped" THEN Join(core, "io")
                   ELSE IF core.task["timer"] # "stopped" THEN Join(core, "timer")
                   ELSE Exit([core EXCEPT !.at = "done"], "event")
     \/ core.at = "timer"
        /\ core' = IF core.task["timer"] # "stopped" THEN Join(core, "timer")
                   ELSE Exit([core EXCEPT !.at = "done"], "event")
  /\ fds' = IF core.at = "read" THEN [fds EXCEPT !.byte = FALSE] ELSE fds
  /\ UNCHANGED <<mode, jniVars, thread, reject>>

EventReady ==
  /\ Waiting("event") /\ core.at = "read" /\ fds.byte
  /\ core' = Wake(core, "event")
  /\ coreOnly

(* Mutant: the timer is not told of the session. *)
AcceptQuiet(c, s) ==
  LET new == [c EXCEPT !.ses[s].phase = "new"]
  IN  [insert_session(new, s) EXCEPT !.task[s] = "running"]

(* tcp_accept_handler and udp_recv_handler: the session joins the list     *)
(* before its task is run.                                                 *)
Accept(c, s) ==
  LET new == [c EXCEPT !.ses[s].phase = "new"]
  IN  Wake([insert_session(new, s) EXCEPT !.task[s] = "running"], "timer")

(* lwip_io_task_entry: a packet that opens a connection, a packet of a     *)
(* session, no packet, or a read that fails: the loop then retries without *)
(* giving up the processor.                                                *)
IoRun ==
  /\ Running("io")
  /\ \/ ~core.run /\ core' = Exit(core, "io")
     \/ /\ core.run
        /\ \/ \E n \in 1 .. mode.conns :
                /\ \A i \in DOMAIN Conns : core.ses[Conns[i]].phase = "none" <=> i >= n
                /\ core' = Accept(core, Conns[n])
           \/ \E s \in Sessions : /\ core.ses[s].phase = "splice"
                                  /\ core' = Wake(core, s)
           \/ core' = [core EXCEPT !.task["io"] = "waiting"]
           \/ "tun" \in mode.faults /\ core' = [core EXCEPT !.spin = TRUE]
  /\ coreOnly

TunReady ==
  /\ Waiting("io")
  /\ core' = Wake(core, "io")
  /\ coreOnly

(* lwip_timer_task_entry: without sessions it waits to be woken. *)
TimerRun ==
  /\ Running("timer")
  /\ core' = IF ~core.run THEN Exit(core, "timer")
             ELSE [core EXCEPT !.task["timer"] = "waiting", !.sleeping = (core.set # <<>>)]
  /\ coreOnly

TimerExpire ==
  /\ Waiting("timer") /\ core.sleeping
  /\ core' = Wake(core, "timer")
  /\ coreOnly

-----------------------------------------------------------------------------
(* The native thread: hev_socks5_tunnel_main_from_str, its init in the     *)
(* steps another thread can tell apart, the task system, fini, and the end *)
(* of tunnel_thread_func.                                                  *)

threadOnly == UNCHANGED <<mode, jniVars>>

(* Up to hev_task_system_init; a failure returns without fini. *)
MainInit ==
  /\ thread = "main"
  /\ thread' \in {"init"} \cup (IF "main" \in mode.faults THEN {"exit"} ELSE {})
  /\ UNCHANGED <<fds, reject, core>> /\ threadOnly

(* tunnel_init, gateway_init, event_task_init *)
TunnelInit ==
  /\ thread = "init"
  /\ \/ /\ thread' = "late"
        /\ fds' = [open |-> TRUE, byte |-> FALSE]
     \/ /\ "early" \in mode.faults
        /\ thread' = "fini"
        /\ UNCHANGED fds
  /\ UNCHANGED <<reject, core>> /\ threadOnly

(* The rest of the init, and hev_socks5_tunnel_run. *)
Run ==
  /\ thread = "late"
  /\ \/ /\ thread' = "run"
        /\ core' = [Idle EXCEPT !.run = TRUE, !.count = core.count,
                      !.task = [t \in Tasks |-> IF t \in Engine THEN "running" ELSE "stopped"]]
     \/ /\ "late" \in mode.faults
        /\ thread' = "fini"
        /\ UNCHANGED core
  /\ UNCHANGED <<fds, reject>> /\ threadOnly

(* Mutant: the scheduler goes when the engine's own tasks have gone. *)
AllGoneEarly == \A t \in Engine : core.task[t] = "stopped"

(* hev_task_system_run returns when total_task_count is zero. *)
AllGone == \A t \in Tasks : core.task[t] = "stopped"

(* Mutant: the thread says that it has stopped before it has. *)
RunReturnsEarly ==
  /\ thread = "run" /\ AllGone /\ ~core.aborted
  /\ thread' = "fini"
  /\ jni' = [jni EXCEPT !.running = FALSE]
  /\ UNCHANGED <<mode, calls, pc, mutex, fds, reject, core>>

RunReturns ==
  /\ thread = "run" /\ AllGone /\ ~core.aborted
  /\ thread' = "fini"
  /\ UNCHANGED <<fds, reject, core>> /\ threadOnly

(* hev_socks5_tunnel_fini, up to event_task_fini ... *)
Fini ==
  /\ thread = "fini"
  /\ thread' = "fini2"
  /\ fds' = [open |-> FALSE, byte |-> FALSE]
  /\ UNCHANGED <<reject, core>> /\ threadOnly

(* ... and from there to the defaults of the reject flags. *)
Fini2 ==
  /\ thread = "fini2"
  /\ thread' = "exit"
  /\ reject' = FALSE
  /\ UNCHANGED <<fds, core>> /\ threadOnly

(* The last statement of tunnel_thread_func, without the mutex. *)
ThreadExit ==
  /\ thread = "exit"
  /\ thread' = "dead"
  /\ jni' = [jni EXCEPT !.running = FALSE]
  /\ UNCHANGED <<mode, calls, pc, mutex, fds, reject, core>>

ThreadStep ==
  MainInit \/ TunnelInit \/ Run \/ RunReturns \/ Fini \/ Fini2 \/ ThreadExit

-----------------------------------------------------------------------------
(* HevSocks5Tunnel.start and stop. *)

nativeOnly == UNCHANGED <<mode, thread, fds, core>>
Goto(c, at) == pc' = [pc EXCEPT ![c] = [@ EXCEPT !.at = at]]

(* start: a tunnel that runs is stopped first. *)
StartCall(c) ==
  /\ c \in Starters /\ pc[c].at = "idle"
  /\ calls.starts < Len(mode.wants)
  /\ calls' = [calls EXCEPT !.starts = @ + 1]
  /\ pc' = [pc EXCEPT ![c] = [at |-> IF jni.running THEN "lock" ELSE "flags",
                              then |-> "flags", want |-> mode.wants[calls'.starts]]]
  /\ UNCHANGED <<mutex, jni, reject>> /\ nativeOnly

StopCall(c) ==
  /\ c \in Callers /\ pc[c].at = "idle"
  /\ calls.stops < mode.stops
  /\ calls' = [calls EXCEPT !.stops = @ + 1]
  /\ pc' = [pc EXCEPT ![c] = [@ EXCEPT !.at = "lock", !.then = "idle"]]
  /\ UNCHANGED <<mutex, jni, reject>> /\ nativeOnly

(* nativeSetRejectNonDnsUdp *)
SetFlags(c) ==
  /\ pc[c].at = "flags"
  /\ reject' = pc[c].want
  /\ Goto(c, "native")
  /\ UNCHANGED <<calls, mutex, jni>> /\ nativeOnly

(* nativeStart, under tunnel_mutex from its first to its last line. *)
nativeStart(c) ==
  /\ pc[c].at = "native" /\ mutex = NoCaller
  /\ Goto(c, "idle")
  /\ \/ jni.running /\ UNCHANGED <<jni, thread>>
     \/ /\ ~jni.running
        /\ jni' = [running |-> TRUE, config |-> TRUE, want |-> pc[c].want]
        /\ thread' = "main"
     \/ /\ ~jni.running /\ "create" \in mode.faults
        /\ jni' = [jni EXCEPT !.running = FALSE, !.config = FALSE]
        /\ UNCHANGED thread
  /\ UNCHANGED <<mode, calls, mutex, fds, reject, core>>

(* nativeStop: the mutex and the check. *)
nativeStop(c) ==
  /\ pc[c].at = "lock" /\ mutex = NoCaller
  /\ IF jni.running THEN mutex' = c /\ Goto(c, "spin")
                    ELSE mutex' = mutex /\ Goto(c, pc[c].then)
  /\ UNCHANGED <<calls, jni, reject>> /\ nativeOnly

(* hev_socks5_tunnel_stop: the loop ends when the descriptor is there. *)
AwaitFd(c) ==
  /\ pc[c].at = "spin" /\ fds.open
  /\ Goto(c, "write")
  /\ UNCHANGED <<calls, mutex, jni, reject>> /\ nativeOnly

(* The write; the descriptor may be closed by now. *)
WriteByte(c) ==
  /\ pc[c].at = "write"
  /\ fds' = [fds EXCEPT !.byte = fds.open]
  /\ Goto(c, "join")
  /\ UNCHANGED <<mode, calls, mutex, jni, thread, reject, core>>

(* Mutant: the thread is not joined. *)
JoinedNot == TRUE

(* pthread_join returns. *)
Joined == thread = "dead"

StopReturn(c) ==
  /\ pc[c].at = "join" /\ Joined
  /\ jni' = [jni EXCEPT !.running = FALSE, !.config = FALSE]
  /\ mutex' = NoCaller
  /\ Goto(c, pc[c].then)
  /\ UNCHANGED <<calls, reject>> /\ nativeOnly

CallerStep(c) ==
  SetFlags(c) \/ nativeStart(c) \/ nativeStop(c) \/ AwaitFd(c) \/ WriteByte(c) \/ StopReturn(c)

-----------------------------------------------------------------------------
Init ==
  /\ mode \in Cases
  /\ calls = [starts |-> 0, stops |-> 0]
  /\ pc = [c \in Callers |-> [at |-> "idle", then |-> "idle", want |-> FALSE]]
  /\ mutex = NoCaller
  /\ jni = [running |-> FALSE, config |-> FALSE, want |-> FALSE]
  /\ thread = "none"
  /\ fds = [open |-> FALSE, byte |-> FALSE]
  /\ reject = FALSE
  /\ core = Idle

TaskStep ==
  \/ EventRun \/ EventReady \/ IoRun \/ TunReady \/ TimerRun \/ TimerExpire
  \/ \E s \in Sessions : SessionRun(s) \/ SessionYield(s) \/ SessionReady(s) \/ SessionExpire(s)

Next ==
  \/ \E c \in Callers : StartCall(c) \/ StopCall(c) \/ CallerStep(c)
  \/ ThreadStep
  \/ TaskStep

Spec == Init /\ [][Next]_vars

(* Every thread goes on; the scheduler runs every task that can run, and   *)
(* its reactor and its timers wake every task they have an event for.      *)
(* Packets, answers and calls come when they like, but no session moves    *)
(* bytes for ever without ever having to wait (SessionYield has no         *)
(* fairness, SessionRun has).                                              *)
Fairness ==
  /\ \A c \in Callers : WF_vars(CallerStep(c))
  /\ WF_vars(ThreadStep)
  /\ WF_vars(EventRun) /\ WF_vars(EventReady)
  /\ WF_vars(IoRun) /\ WF_vars(TimerRun) /\ WF_vars(TimerExpire)
  /\ \A s \in Sessions : WF_vars(SessionRun(s)) /\ WF_vars(SessionExpire(s))

FairSpec == Spec /\ Fairness

-----------------------------------------------------------------------------
Alive == {"main", "init", "late", "run", "fini", "fini2", "exit"}
InStop == {"lock", "spin", "write", "join"}

(* The values of every variable.  session_count never exceeds the sessions *)
(* of a life and never wraps below zero.                                   *)
TypeOK ==
  /\ mode \in Cases
  /\ calls \in [starts : 0 .. Len(mode.wants), stops : 0 .. mode.stops]
  /\ pc \in [Callers -> [at : {"idle", "flags", "native"} \cup InStop,
                         then : {"idle", "flags"}, want : BOOLEAN]]
  /\ mutex \in Callers \cup {NoCaller}
  /\ jni \in [running : BOOLEAN, config : BOOLEAN, want : BOOLEAN]
  /\ thread \in Alive \cup {"none", "dead"}
  /\ fds \in [open : BOOLEAN, byte : BOOLEAN]
  /\ reject \in BOOLEAN
  /\ core.task \in [Tasks -> {"stopped", "running", "waiting"}]
  /\ core.ses \in [Sessions -> [phase : {"none", "new", "connect", "handshake", "splice", "gone"},
                                zero : BOOLEAN]]
  /\ core.at \in {"read", "io", "timer", "done"}
  /\ {core.run, core.aborted, core.sleeping, core.spin} \subseteq BOOLEAN
  /\ core.set \in Seq(Sessions) /\ core.count \in 0 .. Len(Conns)

(* tunnel_running is written with the mutex and, at the end of the thread, *)
(* without it; still it says exactly whether a thread uses the engine's    *)
(* statics, and while one does the configuration it parses is there.       *)
RunningMeansAlive ==
  /\ jni.running = (thread \in Alive)
  /\ thread \in Alive => jni.config

(* The thread that runs filters by the flag of the start that launched it, *)
(* although fini puts the flag back to its default in another thread.      *)
FlagsHold == thread \in {"main", "init", "late", "run"} => reject = jni.want

(* No task is woken that is not in the task system: hev_task_wakeup would  *)
(* abort the process.                                                      *)
NoAbort == ~core.aborted

(* session_set holds each session whose task lives once, and no other, and *)
(* session_count is their number: the event task terminates all of them,   *)
(* the limit is compared with what is there, and fini finds none.          *)
SessionSetExact ==
  /\ TypeOK
  /\ \A s \in Sessions : (core.task[s] # "stopped") = (\E i \in DOMAIN core.set : core.set[i] = s)
  /\ \A i, j \in DOMAIN core.set : core.set[i] = core.set[j] => i = j
  /\ core.count = Len(core.set)
  /\ thread \in {"fini", "fini2", "exit", "dead"} => core.set = <<>>

(* While there are sessions lwIP's timers run: the timer task is never     *)
(* left waiting for a wakeup that has already been given.                  *)
TimerServes ==
  core.set # <<>> /\ core.run => core.task["timer"] = "running" \/ core.sleeping

InitWorks == mode.faults \cap {"main", "early", "late"} = {}

(* A session has forgotten that the event task terminated it. *)
Forgotten == ~core.run /\ \E i \in DOMAIN core.set : ~core.ses[core.set[i]].zero

(* A stop comes back however the init, the byte, the wakeups and the waits *)
(* interleave, if the init does not fail and the TUN can be read; unless a *)
(* session forgets its termination in its connect or its handshake, and    *)
(* then stays for as long as the proxy keeps sending to it.                *)
StopReturns ==
  \A c \in Callers :
    (InitWorks /\ "tun" \notin mode.faults /\ pc[c].at \in InStop)
      ~> (pc[c].at \notin InStop \/ Forgotten)

(* Every stop comes back: what waiting for the initialization promises. *)
StopAlwaysReturns == \A c \in Callers : (pc[c].at \in InStop) ~> (pc[c].at \notin InStop)
=============================================================================
