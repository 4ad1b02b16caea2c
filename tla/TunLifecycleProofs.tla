------------------------- MODULE TunLifecycleProofs -------------------------
(***************************************************************************)
(* What the tun2socks engine guarantees for any number of callers, calls,  *)
(* sessions and failures: tunnel_running tells whether a native thread     *)
(* lives; when the starts come from one thread, the native thread filters  *)
(* by the flags of the start that launched it; no task is woken that has   *)
(* left the task system; the session list is exact; and the timer task     *)
(* serves while there are sessions.                                        *)
(***************************************************************************)
EXTENDS TunLifecycle, FiniteSetTheorems, SequenceTheorems, TLAPS

\* HevSocks5Tunnel.start is called by one thread at a time.
OneStarter == \A c, d \in Starters : c = d

PCs == [at : {"idle", "flags", "native"} \cup InStop,
        then : {"idle", "flags"}, want : BOOLEAN]

JniShape == jni \in [running : BOOLEAN, config : BOOLEAN, want : BOOLEAN]

\* The shape of the variables the two results are about.
Shape ==
  /\ mode \in Cases
  /\ calls.starts \in Nat
  /\ pc \in [Callers -> PCs]
  /\ JniShape

\* A caller between the check and nativeStart is a starter, ...
Launching(c) == pc[c].at \in {"flags", "native"}

\* ... only starters go on from a stop to set flags, no thread lives meanwhile
\* (it would reset the flags), and from SetFlags on the flags are the starter's.
StarterInv ==
  \A c \in Callers :
    /\ pc[c].then = "flags" => c \in Starters
    /\ Launching(c) => c \in Starters /\ thread \notin Alive
    /\ pc[c].at = "native" => reject = pc[c].want

AliveInv == Shape /\ RunningMeansAlive
FlagInv == AliveInv /\ StarterInv /\ FlagsHold

-----------------------------------------------------------------------------
\* A flag that is off and no thread, or a flag that is on and a thread.
LEMMA AgreeDown ==
  ASSUME NEW j, NEW t, j.running = FALSE, t \notin Alive
  PROVE  j.running = (t \in Alive) /\ (t \in Alive => j.config)
<1>1. (t \in Alive) = FALSE
  OBVIOUS
<1>2. j.running = (t \in Alive)
  BY <1>1
<1> QED
  BY <1>2

\* A flag that is on, with its configuration, and a thread that lives.
LEMMA AgreeUp ==
  ASSUME NEW j, NEW t, j.running = TRUE, j.config = TRUE, t \in Alive
  PROVE  j.running = (t \in Alive) /\ (t \in Alive => j.config)
BY Zenon

\* The three ways in which a caller's step treats the JNI statics.
LEMMA JniKeeps ==
  ASSUME JniShape, NEW w \in BOOLEAN,
         \/ jni' = jni
         \/ jni' = [running |-> TRUE, config |-> TRUE, want |-> w]
         \/ jni' = [jni EXCEPT !.running = FALSE, !.config = FALSE]
  PROVE  JniShape'
<1>1. CASE jni' = jni
  BY <1>1 DEF JniShape
<1>2. CASE jni' = [running |-> TRUE, config |-> TRUE, want |-> w]
  BY <1>2 DEF JniShape
<1>3. CASE jni' = [jni EXCEPT !.running = FALSE, !.config = FALSE]
  BY <1>3 DEF JniShape
<1> QED
  BY <1>1, <1>2, <1>3

\* The tasks of the engine leave the callers, the JNI statics, the thread's own
\* control and the flags alone.
LEMMA TasksStayInside ==
  ASSUME TaskStep
  PROVE  UNCHANGED <<mode, calls, pc, mutex, jni, thread, reject>>
BY DEF TaskStep, EventRun, EventReady, IoRun, TunReady, TimerRun, TimerExpire, SessionRun,
       SessionYield, SessionReady, SessionExpire, coreOnly, jniVars

\* What a start asks for is one of the wants of the case.
LEMMA WantIsBoolean ==
  ASSUME mode \in Cases, calls.starts \in Nat, calls.starts < Len(mode.wants)
  PROVE  calls.starts + 1 \in Nat /\ mode.wants[calls.starts + 1] \in BOOLEAN
<1>1. mode.wants \in Seq(BOOLEAN)
  BY TunConstants
<1>2. calls.starts + 1 \in 1 .. Len(mode.wants)
  BY <1>1
<1> QED
  BY <1>1, <1>2

\* A caller's step keeps the callers' program counters well formed.
LEMMA CallerShape ==
  ASSUME Shape, NEW c \in Callers, StartCall(c) \/ StopCall(c) \/ CallerStep(c)
  PROVE  Shape'
<1>1. mode' = mode /\ mode' \in Cases
  BY DEF Shape, StartCall, StopCall, CallerStep, SetFlags, nativeStart, nativeStop, AwaitFd,
         WriteByte, StopReturn, nativeOnly
<1>2. pc[c] \in PCs
  BY DEF Shape
<1>3. CASE StartCall(c)
  <2> DEFINE w == mode.wants[calls.starts + 1]
  <2>1. calls.starts + 1 \in Nat /\ w \in BOOLEAN
    BY <1>3, WantIsBoolean DEF Shape, StartCall
  <2>2. calls'.starts = calls.starts + 1
    BY <1>3 DEF StartCall
  <2> HIDE DEF w
  <2>3. pc' = [pc EXCEPT ![c] = [at |-> IF jni.running THEN "lock" ELSE "flags",
                                 then |-> "flags", want |-> w]]
    BY <1>3, <2>2 DEF StartCall, w
  <2>4. pc' \in [Callers -> PCs]
    BY <2>1, <2>3 DEF Shape, PCs, InStop
  <2>5. jni' = jni /\ JniShape
    BY <1>3 DEF StartCall, Shape
  <2>6. JniShape'
    BY <2>5 DEF JniShape
  <2> QED
    BY <1>1, <2>1, <2>2, <2>4, <2>6 DEF Shape
<1>4. CASE StopCall(c)
  <2>1. calls'.starts = calls.starts
    BY <1>4 DEF StopCall
  <2>2. pc' \in [Callers -> PCs]
    BY <1>2, <1>4 DEF StopCall, Shape, PCs, InStop
  <2>3. jni' = jni /\ JniShape
    BY <1>4 DEF StopCall, Shape
  <2>4. JniShape'
    BY <2>3 DEF JniShape
  <2> QED
    BY <1>1, <2>1, <2>2, <2>4 DEF Shape
<1>5. CASE CallerStep(c)
  <2>1. calls' = calls
    BY <1>5 DEF CallerStep, SetFlags, nativeStart, nativeStop, AwaitFd, WriteByte, StopReturn
  <2>2. PICK at \in {"idle", "flags", "native"} \cup InStop : Goto(c, at)
    BY <1>2, <1>5 DEF CallerStep, SetFlags, nativeStart, nativeStop, AwaitFd, WriteByte,
                      StopReturn, PCs, InStop
  <2>3. pc' \in [Callers -> PCs]
    BY <1>2, <2>2 DEF Shape, Goto, PCs
  <2>4. JniShape'
    <3>1. pc[c].want \in BOOLEAN /\ JniShape
      BY <1>2 DEF PCs, Shape
    <3>2. \/ jni' = jni
          \/ jni' = [running |-> TRUE, config |-> TRUE, want |-> pc[c].want]
          \/ jni' = [jni EXCEPT !.running = FALSE, !.config = FALSE]
      BY <1>5 DEF CallerStep, SetFlags, nativeStart, nativeStop, AwaitFd, WriteByte, StopReturn
    <3> QED
      BY <3>1, <3>2, JniKeeps
  <2> QED
    BY <1>1, <2>1, <2>3, <2>4 DEF Shape
<1> QED
  BY <1>3, <1>4, <1>5

\* A step of the thread or of a task does not move a caller.
LEMMA ThreadShape ==
  ASSUME Shape, ThreadStep
  PROVE  Shape' /\ pc' = pc
<1>1. UNCHANGED <<mode, calls, pc>>
  BY DEF ThreadStep, MainInit, TunnelInit, Run, RunReturns, Fini, Fini2, ThreadExit, threadOnly,
         jniVars
<1>2. JniShape'
  BY DEF Shape, JniShape, ThreadStep, MainInit, TunnelInit, Run, RunReturns, Fini, Fini2, ThreadExit,
         threadOnly, jniVars
<1> QED
  BY <1>1, <1>2 DEF Shape

-----------------------------------------------------------------------------
\* Before the first start there is no thread and the flag is off.
LEMMA AliveInit == Init => AliveInv
<1> SUFFICES ASSUME Init PROVE AliveInv
  OBVIOUS
<1>1. JniShape
  BY DEF Init, JniShape
<1>2. Shape
  BY <1>1 DEF Init, Shape, PCs, InStop
<1>3. RunningMeansAlive
  <2>1. jni.running = FALSE /\ thread \notin Alive
    BY DEF Init, Alive
  <2> QED
    BY <2>1, AgreeDown DEF RunningMeansAlive
<1> QED
  BY <1>2, <1>3 DEF AliveInv

\* Every step keeps the flag and the thread together.
LEMMA AliveNext == AliveInv /\ [Next]_vars => AliveInv'
<1> SUFFICES ASSUME AliveInv, [Next]_vars PROVE AliveInv'
  OBVIOUS
<1>1. ASSUME NEW c \in Callers, StartCall(c) \/ StopCall(c) \/ CallerStep(c) PROVE AliveInv'
  <2>1. Shape'
    BY <1>1, CallerShape DEF AliveInv
  <2>2. CASE StartCall(c) \/ StopCall(c) \/ SetFlags(c) \/ nativeStop(c) \/ AwaitFd(c) \/ WriteByte(c)
    <3>1. UNCHANGED <<jni, thread>>
      BY <2>2 DEF StartCall, StopCall, SetFlags, nativeStop, AwaitFd, WriteByte, nativeOnly
    <3> QED
      BY <2>1, <3>1 DEF AliveInv, RunningMeansAlive
  <2>3. CASE nativeStart(c)
    <3>1. JniShape
      BY DEF AliveInv, Shape
    <3>2. CASE UNCHANGED <<jni, thread>>
      BY <2>1, <3>2 DEF AliveInv, RunningMeansAlive
    <3>3. CASE jni' = [running |-> TRUE, config |-> TRUE, want |-> pc[c].want] /\ thread' = "main"
      <4>1. jni'.running = TRUE /\ jni'.config = TRUE /\ thread' \in Alive
        BY <3>3 DEF Alive
      <4> QED
        BY <2>1, <4>1, AgreeUp DEF AliveInv, RunningMeansAlive
    <3>4. CASE /\ ~jni.running /\ thread' = thread
               /\ jni' = [jni EXCEPT !.running = FALSE, !.config = FALSE]
      <4>1. jni'.running = FALSE
        BY <3>1, <3>4 DEF JniShape
      <4>2. thread' \notin Alive
        BY <3>4 DEF AliveInv, RunningMeansAlive
      <4> QED
        BY <2>1, <4>1, <4>2, AgreeDown DEF AliveInv, RunningMeansAlive
    <3> QED
      BY <2>3, <3>2, <3>3, <3>4 DEF nativeStart
  <2>4. CASE StopReturn(c)
    <3>1. jni'.running = FALSE
      BY <2>4 DEF AliveInv, Shape, JniShape, StopReturn
    <3>2. thread' \notin Alive
      BY <2>4 DEF StopReturn, Joined, Alive, nativeOnly
    <3> QED
      BY <2>1, <3>1, <3>2, AgreeDown DEF AliveInv, RunningMeansAlive
  <2> QED
    BY <1>1, <2>2, <2>3, <2>4 DEF CallerStep
<1>2. CASE ThreadStep
  <2>1. Shape'
    BY <1>2, ThreadShape DEF AliveInv
  <2>2. RunningMeansAlive'
    <3>1. CASE ThreadExit
      <4>1. jni'.running = FALSE /\ thread' \notin Alive
        BY <3>1 DEF AliveInv, Shape, JniShape, Alive, ThreadExit
      <4> QED
        BY <4>1, AgreeDown DEF RunningMeansAlive
    <3>2. CASE MainInit \/ TunnelInit \/ Run \/ RunReturns \/ Fini \/ Fini2
      <4>1. jni' = jni /\ thread \in Alive /\ thread' \in Alive
        BY <3>2 DEF MainInit, TunnelInit, Run, RunReturns, Fini, Fini2, threadOnly, jniVars, Alive
      <4> QED
        BY <4>1 DEF AliveInv, RunningMeansAlive
    <3> QED
      BY <1>2, <3>1, <3>2 DEF ThreadStep
  <2> QED
    BY <2>1, <2>2 DEF AliveInv
<1>3. CASE TaskStep
  BY <1>3, TasksStayInside DEF AliveInv, Shape, JniShape, RunningMeansAlive
<1>4. CASE UNCHANGED vars
  BY <1>4 DEF AliveInv, Shape, JniShape, RunningMeansAlive, vars, jniVars
<1> QED
  BY <1>1, <1>2, <1>3, <1>4 DEF Next

(* For any number of starting and stopping threads, calls and failures:    *)
(* tunnel_running, which nativeStart and nativeStop write under the mutex  *)
(* and the thread itself without it, is exactly whether a native thread    *)
(* lives, so no second thread is started beside one, and no configuration  *)
(* is freed that one still reads (hev_jni.c).                              *)
THEOREM RunningIsTruth == Spec => []RunningMeansAlive
<1>1. AliveInv => RunningMeansAlive
  BY DEF AliveInv
<1> QED
  BY <1>1, AliveInit, AliveNext, PTL DEF Spec

-----------------------------------------------------------------------------
\* Before the first start no flags are in use.
LEMMA FlagInit == Init => FlagInv
<1> SUFFICES ASSUME Init PROVE StarterInv /\ FlagsHold
  BY AliveInit DEF FlagInv
<1> QED
  BY DEF Init, StarterInv, FlagsHold, Launching

\* Where a caller's step takes itself and leaves the others.
LEMMA OthersStay ==
  ASSUME Shape, NEW c \in Callers, NEW d \in Callers, c # d,
         StartCall(c) \/ StopCall(c) \/ CallerStep(c)
  PROVE  pc'[d] = pc[d]
BY DEF Shape, StartCall, StopCall, CallerStep, SetFlags, nativeStart, nativeStop, AwaitFd,
       WriteByte, StopReturn, Goto

\* A caller's steps keep StarterInv and the flag of the thread.
LEMMA FlagCaller ==
  ASSUME OneStarter, FlagInv, AliveInv', NEW c \in Callers,
         StartCall(c) \/ StopCall(c) \/ CallerStep(c)
  PROVE  FlagInv'
<1>0. Shape /\ RunningMeansAlive /\ StarterInv /\ FlagsHold
  BY DEF FlagInv, AliveInv
<1>1. pc \in [Callers -> PCs] /\ pc[c] \in PCs
  BY <1>0 DEF Shape
<1>2. \A d \in Callers : d # c => pc'[d] = pc[d]
  BY <1>0, OthersStay
<1>3. ASSUME pc'[c].then = "flags" => c \in Starters,
             Launching(c)' => c \in Starters /\ thread' \notin Alive,
             pc'[c].at = "native" => reject' = pc'[c].want,
             thread' \in Alive => thread \in Alive,
             Launching(c) \/ reject' = reject
      PROVE  StarterInv'
  <2> SUFFICES ASSUME NEW d \in Callers, d # c
               PROVE  /\ pc'[d].then = "flags" => d \in Starters
                      /\ Launching(d)' => d \in Starters /\ thread' \notin Alive
                      /\ pc'[d].at = "native" => reject' = pc'[d].want
    BY <1>3 DEF StarterInv
  <2>1. pc'[d] = pc[d]
    BY <1>2
  <2>2. Launching(c) /\ Launching(d) => c = d
    BY <1>0 DEF StarterInv, OneStarter
  <2> QED
    BY <1>0, <1>3, <2>1, <2>2 DEF StarterInv, Launching
<1>4. CASE StartCall(c)
  BY <1>0, <1>1, <1>3, <1>4 DEF StartCall, nativeOnly, Launching, RunningMeansAlive, FlagInv,
                                FlagsHold
<1>5. CASE StopCall(c)
  <2>1. pc'[c].at = "lock" /\ pc'[c].then = "idle"
    BY <1>1, <1>5 DEF StopCall, PCs
  <2> QED
    BY <1>0, <1>3, <1>5, <2>1 DEF StopCall, nativeOnly, Launching, FlagInv, FlagsHold
<1>6. CASE SetFlags(c)
  <2>1. pc'[c].at = "native" /\ pc'[c].then = pc[c].then /\ pc'[c].want = pc[c].want
    BY <1>1, <1>6 DEF SetFlags, Goto, PCs
  <2>2. c \in Starters /\ thread \notin Alive
    BY <1>0, <1>6 DEF SetFlags, StarterInv, Launching
  <2>3. reject' = pc[c].want /\ thread' = thread /\ Launching(c)
    BY <1>6 DEF SetFlags, nativeOnly, Launching
  <2> QED
    BY <1>3, <2>1, <2>2, <2>3 DEF FlagInv, FlagsHold, Alive, Launching
<1>7. CASE nativeStart(c)
  <2>1. pc'[c].at = "idle" /\ pc'[c].then = pc[c].then /\ pc[c].at = "native"
    BY <1>1, <1>7 DEF nativeStart, Goto, PCs
  <2>2. reject' = reject /\ reject = pc[c].want /\ Launching(c) /\ c \in Starters
    BY <1>0, <1>7, <2>1 DEF nativeStart, StarterInv, Launching
  <2>3. StarterInv'
    <3> SUFFICES ASSUME NEW d \in Callers, d # c
                 PROVE  /\ pc'[d].then = "flags" => d \in Starters
                        /\ Launching(d)' => d \in Starters /\ thread' \notin Alive
                        /\ pc'[d].at = "native" => reject' = pc'[d].want
      BY <1>0, <2>1 DEF StarterInv, Launching
    <3>1. ~Launching(d)
      BY <1>0, <2>2 DEF StarterInv, OneStarter
    <3> QED
      BY <1>0, <1>2, <3>1 DEF StarterInv, Launching
  <2>4. FlagsHold'
    <3>1. JniShape
      BY <1>0 DEF Shape
    <3>2. CASE UNCHANGED <<jni, thread>>
      BY <1>0, <2>2, <3>2 DEF FlagsHold
    <3>3. CASE jni' = [running |-> TRUE, config |-> TRUE, want |-> pc[c].want]
      <4>1. jni'.want = pc[c].want
        BY <3>3
      <4> QED
        BY <2>2, <4>1 DEF FlagsHold
    <3>4. CASE /\ thread' = thread
               /\ jni' = [jni EXCEPT !.running = FALSE, !.config = FALSE]
      <4>1. jni'.want = jni.want
        BY <3>1, <3>4 DEF JniShape
      <4> QED
        BY <1>0, <2>2, <3>4, <4>1 DEF FlagsHold
    <3> QED
      BY <1>7, <3>2, <3>3, <3>4 DEF nativeStart
  <2> QED
    BY <2>3, <2>4 DEF FlagInv
<1>8. CASE nativeStop(c)
  <2>1. pc'[c].then = pc[c].then /\ pc'[c].at \in {"spin", pc[c].then}
    BY <1>1, <1>8 DEF nativeStop, Goto, PCs
  <2>2. pc'[c].at = "spin" \/ ~jni.running
    BY <1>1, <1>8 DEF nativeStop, Goto, PCs
  <2>3. pc[c].then \in {"idle", "flags"}
    BY <1>1 DEF PCs
  <2>4. UNCHANGED <<jni, thread, reject>>
    BY <1>8 DEF nativeStop, nativeOnly
  <2>5. ~jni.running => thread \notin Alive
    BY <1>0 DEF RunningMeansAlive
  <2>6. pc[c].then = "flags" => c \in Starters
    BY <1>0 DEF StarterInv
  <2>7. Launching(c)' => c \in Starters /\ thread' \notin Alive
    <3>1. CASE pc'[c].at = "spin"
      BY <3>1 DEF Launching
    <3>2. CASE pc'[c].at # "spin"
      <4>1. thread' \notin Alive
        BY <2>2, <2>4, <2>5, <3>2
      <4>2. pc'[c].at = pc[c].then
        BY <2>1, <3>2
      <4>3. pc'[c].at \in {"flags", "native"} => c \in Starters
        BY <2>3, <2>6, <4>2
      <4> QED
        BY <4>1, <4>3 DEF Launching
    <3> QED
      BY <3>1, <3>2
  <2>8. pc'[c].at # "native"
    BY <2>1, <2>3
  <2>9. FlagsHold'
    BY <1>0, <2>4 DEF FlagsHold
  <2> QED
    BY <1>3, <2>1, <2>4, <2>6, <2>7, <2>8, <2>9 DEF FlagInv
<1>9. CASE AwaitFd(c) \/ WriteByte(c)
  <2>1. pc'[c].then = pc[c].then /\ pc'[c].at \in {"write", "join"}
    BY <1>1, <1>9 DEF AwaitFd, WriteByte, Goto, PCs
  <2> QED
    BY <1>0, <1>3, <1>9, <2>1 DEF AwaitFd, WriteByte, nativeOnly, Launching, StarterInv, FlagInv,
                                  FlagsHold
<1>10. CASE StopReturn(c)
  <2>1. pc'[c].then = pc[c].then /\ pc'[c].at = pc[c].then
    BY <1>1, <1>10 DEF StopReturn, Goto, PCs
  <2>2. pc[c].then \in {"idle", "flags"} /\ thread \notin Alive /\ thread' = thread
    BY <1>1, <1>10 DEF PCs, StopReturn, Joined, Alive, nativeOnly
  <2>3. thread' \notin {"main", "init", "late", "run"}
    BY <2>2 DEF Alive
  <2> QED
    BY <1>0, <1>3, <1>10, <2>1, <2>2, <2>3 DEF StopReturn, Launching, StarterInv, FlagInv, FlagsHold
<1> QED
  BY <1>4, <1>5, <1>6, <1>7, <1>8, <1>9, <1>10 DEF CallerStep

\* With one starter every step keeps the flags those of the start that launched
\* the thread.
LEMMA FlagNext == OneStarter /\ FlagInv /\ [Next]_vars => FlagInv'
<1> SUFFICES ASSUME OneStarter, FlagInv, [Next]_vars PROVE FlagInv'
  OBVIOUS
<1>0. AliveInv'
  BY AliveNext DEF FlagInv
<1>1. ASSUME NEW c \in Callers, StartCall(c) \/ StopCall(c) \/ CallerStep(c) PROVE FlagInv'
  BY <1>0, <1>1, FlagCaller
<1>2. CASE ThreadStep
  <2>1. pc' = pc /\ thread \in Alive
    BY <1>2, ThreadShape DEF FlagInv, AliveInv, ThreadStep, MainInit, TunnelInit, Run, RunReturns,
                             Fini, Fini2, ThreadExit, Alive
  <2>2. StarterInv'
    <3> SUFFICES ASSUME NEW c \in Callers
                 PROVE  (pc[c].then = "flags" => c \in Starters) /\ ~Launching(c)
      BY <2>1 DEF StarterInv, Launching
    <3> QED
      BY <2>1 DEF FlagInv, StarterInv
  <2>3. FlagsHold'
    BY <1>2 DEF FlagInv, FlagsHold, ThreadStep, MainInit, TunnelInit, Run, RunReturns, Fini, Fini2,
                ThreadExit, threadOnly, jniVars
  <2> QED
    BY <1>0, <2>2, <2>3 DEF FlagInv
<1>3. CASE TaskStep
  BY <1>0, <1>3, TasksStayInside DEF FlagInv, StarterInv, Launching, FlagsHold
<1>4. CASE UNCHANGED vars
  BY <1>0, <1>4 DEF FlagInv, StarterInv, Launching, FlagsHold, vars, jniVars
<1> QED
  BY <1>1, <1>2, <1>3, <1>4 DEF Next

(* With one starting thread and any number of stopping ones: the native    *)
(* thread filters by the flags of the start that launched it, although the *)
(* thread before it puts the static flag back to its default without any   *)
(* lock (hev_socks5_tunnel_fini, nativeSetRejectNonDnsUdp).                *)
THEOREM FlagsAreTheStarters == OneStarter => (Spec => []FlagsHold)
<1>1. FlagInv => FlagsHold
  BY DEF FlagInv
<1>2. OneStarter /\ FlagInv /\ [Next]_vars => FlagInv'
  BY FlagNext
<1> SUFFICES ASSUME OneStarter PROVE Spec => []FlagsHold
  OBVIOUS
<1>3. FlagInv /\ [Next]_vars => FlagInv'
  BY <1>2
<1> QED
  BY <1>1, <1>3, FlagInit, PTL DEF Spec

-----------------------------------------------------------------------------
(***************************************************************************)
(* The tasks.                                                              *)
(***************************************************************************)
States == {"stopped", "running", "waiting"}
Sleep == [phase : {"none", "new", "connect", "handshake", "splice", "gone"}, zero : BOOLEAN]
Absent == {"none", "gone"}

Cores ==
  [task : [Tasks -> States], run : BOOLEAN, set : Seq(Sessions), count : Nat,
   ses : [Sessions -> Sleep], at : {"read", "io", "timer", "done"},
   sleeping : BOOLEAN, aborted : BOOLEAN, spin : BOOLEAN]

\* A session is in the list, once, exactly while its task lives and it has a
\* phase; session_count counts them.
Tracked(c) ==
  /\ c \in Cores /\ ~c.aborted
  /\ IsInjective(c.set) /\ c.count = Len(c.set)
  /\ \A s \in Sessions : /\ c.task[s] # "stopped" <=> s \in Range(c.set)
                         /\ c.task[s] # "stopped" <=> c.ses[s].phase \notin Absent

\* The engine's own tasks: the event task leaves last, and the others stay
\* until it has told them to go.
Staffed(c) ==
  /\ c.run <=> c.at = "read"
  /\ c.run => c.task["io"] # "stopped" /\ c.task["timer"] # "stopped"
  /\ c.at # "done" => c.task["event"] # "stopped"

\* TimerServes, of any state of the tasks.
Timed(c) == c.set # <<>> /\ c.run => c.task["timer"] = "running" \/ c.sleeping

Live(c) == Tracked(c) /\ Staffed(c) /\ Timed(c)

CoreInv ==
  /\ Tracked(core)
  /\ thread = "run" => Staffed(core) /\ Timed(core)
  /\ thread # "run" => AllGone

-----------------------------------------------------------------------------
(* Lists of sessions. *)
LEMMA WithoutOne ==
  ASSUME NEW set \in Seq(Sessions), IsInjective(set), NEW s \in Range(set)
  PROVE  LET w == Without(set, s)
         IN  /\ w \in Seq(Sessions) /\ IsInjective(w) /\ Len(w) = Len(set) - 1
             /\ Range(w) = Range(set) \ {s}
<1> DEFINE i == CHOOSE i \in DOMAIN set : set[i] = s
           n == Len(set)
           w == Without(set, s)
<1>1. n \in Nat /\ DOMAIN set = 1 .. n /\ \A j \in 1 .. n : set[j] \in Sessions
  OBVIOUS
<1>2. i \in 1 .. n /\ set[i] = s
  <2>1. \E j \in DOMAIN set : set[j] = s
    BY DEF Range
  <2> QED
    BY <1>1, <2>1
<1>3. w = SubSeq(set, 1, i - 1) \o SubSeq(set, i + 1, n)
  BY DEF Without, RemoveAt
<1> HIDE DEF i, n, w
<1> DEFINE a == SubSeq(set, 1, i - 1)
           b == SubSeq(set, i + 1, n)
<1>4. a \in Seq(Sessions) /\ Len(a) = i - 1 /\ \A j \in 1 .. i - 1 : a[j] = set[j]
  <2>1. i - 1 \in Int /\ i - 1 <= n /\ \A j \in 1 .. i - 1 : set[j] \in Sessions
    BY <1>1, <1>2
  <2> QED
    BY <1>1, <1>2, <2>1, SubSeqProperties DEF n
<1>5. b \in Seq(Sessions) /\ Len(b) = n - i /\ \A j \in 1 .. n - i : b[j] = set[i + j]
  <2>1. i + 1 \in Int /\ i + 1 <= n + 1 /\ \A j \in i + 1 .. n : set[j] \in Sessions
    BY <1>1, <1>2
  <2>2. b \in Seq(Sessions) /\ Len(b) = IF i + 1 <= n THEN n - (i + 1) + 1 ELSE 0
    BY <1>1, <1>2, <2>1, SubSeqProperties DEF n
  <2>3. \A j \in 1 .. n - i : b[j] = set[i + j]
    <3> SUFFICES ASSUME NEW j \in 1 .. n - i PROVE b[j] = set[i + j]
      OBVIOUS
    <3>1. b[j] = set[(i + 1) + j - 1]
      BY <1>1, <1>2, <2>1, SubSeqProperties DEF n
    <3>2. (i + 1) + j - 1 = i + j
      BY <1>1, <1>2
    <3> QED
      BY <3>1, <3>2
  <2> QED
    BY <1>1, <1>2, <2>2, <2>3
<1> HIDE DEF a, b
<1>6. w \in Seq(Sessions) /\ Len(w) = n - 1
  BY <1>1, <1>2, <1>3, <1>4, <1>5, ConcatProperties DEF a, b
<1>7. \A j \in 1 .. n - 1 : w[j] = IF j < i THEN set[j] ELSE set[j + 1]
  <2> SUFFICES ASSUME NEW j \in 1 .. n - 1 PROVE w[j] = IF j < i THEN set[j] ELSE set[j + 1]
    OBVIOUS
  <2>0. w = a \o b
    BY <1>3 DEF a, b
  <2>1. CASE j < i
    <3>1. j \in 1 .. Len(a)
      BY <1>1, <1>2, <1>4, <2>1
    <3>2. (a \o b)[j] = a[j]
      BY <1>4, <1>5, <3>1
    <3> QED
      BY <1>4, <2>0, <2>1, <3>1, <3>2
  <2>2. CASE ~(j < i)
    <3> DEFINE k == j - Len(a)
    <3>1. k \in 1 .. n - i /\ i + k = j + 1 /\ j = Len(a) + k
      BY <1>1, <1>2, <1>4, <2>2
    <3>2. (a \o b)[j] = b[k]
      BY <1>1, <1>2, <1>4, <1>5, <2>2
    <3> HIDE DEF k
    <3> QED
      BY <1>5, <2>0, <2>2, <3>1, <3>2
  <2> QED
    BY <2>1, <2>2
<1>8. DOMAIN w = 1 .. n - 1
  BY <1>6
<1>9. IsInjective(w)
  <2> SUFFICES ASSUME NEW j \in 1 .. n - 1, NEW k \in 1 .. n - 1, w[j] = w[k] PROVE j = k
    BY <1>8 DEF IsInjective
  <2> DEFINE p == IF j < i THEN j ELSE j + 1
             q == IF k < i THEN k ELSE k + 1
  <2>1. p \in 1 .. n /\ q \in 1 .. n /\ set[p] = set[q]
    BY <1>1, <1>2, <1>7
  <2>2. p = q
    BY <1>1, <2>1 DEF IsInjective
  <2> QED
    BY <1>1, <1>2, <2>2
<1>10. Range(w) = Range(set) \ {s}
  <2>1. ASSUME NEW x \in Range(w) PROVE x \in Range(set) \ {s}
    <3>1. PICK j \in 1 .. n - 1 : w[j] = x
      BY <1>8, <2>1 DEF Range
    <3> DEFINE p == IF j < i THEN j ELSE j + 1
    <3>2. p \in 1 .. n /\ set[p] = x /\ p # i
      BY <1>1, <1>2, <1>7, <3>1
    <3> QED
      BY <1>1, <1>2, <3>2 DEF Range, IsInjective
  <2>2. ASSUME NEW x \in Range(set), x # s PROVE x \in Range(w)
    <3>1. PICK j \in 1 .. n : set[j] = x
      BY <1>1, <2>2 DEF Range
    <3> DEFINE p == IF j < i THEN j ELSE j - 1
    <3>2. p \in 1 .. n - 1 /\ w[p] = x
      BY <1>1, <1>2, <1>7, <2>2, <3>1
    <3> QED
      BY <1>8, <3>2 DEF Range
  <2> QED
    BY <2>1, <2>2
<1> QED
  BY <1>6, <1>9, <1>10 DEF w, n

\* A session inserted at the tail (hev_list_add_tail) is listed once.
LEMMA WithOneMore ==
  ASSUME NEW set \in Seq(Sessions), IsInjective(set), NEW s \in Sessions, s \notin Range(set)
  PROVE  LET w == Append(set, s)
         IN  /\ w \in Seq(Sessions) /\ IsInjective(w) /\ Len(w) = Len(set) + 1
             /\ Range(w) = Range(set) \cup {s} /\ w # <<>>
             /\ set # <<>> => Head(w) \in Range(set)
<1> DEFINE n == Len(set)
           w == Append(set, s)
<1>1. n \in Nat /\ DOMAIN set = 1 .. n
  OBVIOUS
<1>2. /\ w \in Seq(Sessions) /\ Len(w) = n + 1 /\ DOMAIN w = 1 .. n + 1
      /\ \A i \in 1 .. n : w[i] = set[i]
      /\ w[n + 1] = s
  BY <1>1, AppendProperties
<1> HIDE DEF n, w
<1>3. IsInjective(w)
  <2> SUFFICES ASSUME NEW j \in 1 .. n + 1, NEW k \in 1 .. n + 1, w[j] = w[k] PROVE j = k
    BY <1>2 DEF IsInjective
  <2>1. \A i \in 1 .. n : set[i] # s
    BY <1>1 DEF Range
  <2>2. j \in 1 .. n \/ j = n + 1
    BY <1>1
  <2>3. k \in 1 .. n \/ k = n + 1
    BY <1>1
  <2> QED
    BY <1>1, <1>2, <2>1, <2>2, <2>3 DEF IsInjective
<1>4. Range(w) = Range(set) \cup {s}
  <2>1. 1 .. n + 1 = 1 .. n \cup {n + 1}
    BY <1>1
  <2> QED
    BY <1>1, <1>2, <2>1 DEF Range
<1>5. w # <<>> /\ (set # <<>> => Head(w) \in Range(set))
  <2>1. w # <<>> /\ Head(w) = w[1]
    BY <1>1, <1>2
  <2>2. set # <<>> => 1 \in 1 .. n
    BY <1>1, EmptySeq DEF n
  <2> QED
    BY <1>1, <1>2, <2>1, <2>2 DEF Range
<1> QED
  BY <1>2, <1>3, <1>4, <1>5 DEF n, w

\* There are n places in a list of n.
LEMMA Places ==
  ASSUME NEW n \in Nat
  PROVE  IsFiniteSet(1 .. n) /\ Cardinality(1 .. n) = n
<1>1. 1 \in Int /\ n \in Int
  OBVIOUS
<1>2. IsFiniteSet(1 .. n) /\ Cardinality(1 .. n) = IF 1 > n THEN 0 ELSE n - 1 + 1
  BY <1>1, FS_Interval
<1>3. (IF 1 > n THEN 0 ELSE n - 1 + 1) = n
  OBVIOUS
<1> QED
  BY <1>2, <1>3

\* There are no more places in the list than sessions.
LEMMA SetIsBounded ==
  ASSUME NEW set \in Seq(Sessions), IsInjective(set)
  PROVE  Len(set) \in 0 .. Len(Conns)
<1> DEFINE S == 1 .. Len(set)
           T == 1 .. Len(Conns)
           f == [i \in S |-> CHOOSE j \in T : Conns[j] = set[i]]
<1>1. /\ Len(set) \in Nat /\ DOMAIN set = S
      /\ Len(Conns) \in Nat /\ DOMAIN Conns = T
  BY TunConstants
<1>2. \A i \in S : f[i] \in T /\ Conns[f[i]] = set[i]
  <2> SUFFICES ASSUME NEW i \in S PROVE f[i] \in T /\ Conns[f[i]] = set[i]
    OBVIOUS
  <2>1. set[i] \in Sessions
    BY <1>1
  <2>2. \E j \in T : Conns[j] = set[i]
    BY <1>1, <2>1 DEF Sessions, Range
  <2> QED
    BY <2>2
<1>3. f \in [S -> T]
  BY <1>2
<1> HIDE DEF f
<1>4. \A i, j \in S : f[i] = f[j] => i = j
  BY <1>1, <1>2 DEF IsInjective
<1>5. f \in Injection(S, T)
  BY <1>3, <1>4 DEF Injection, IsInjective
<1>6. IsFiniteSet(T) /\ Cardinality(T) = Len(Conns) /\ Cardinality(S) = Len(set)
  BY <1>1, Places
<1>7. Cardinality(S) <= Cardinality(T)
  BY <1>5, <1>6, FS_Injection
<1> QED
  BY <1>1, <1>6, <1>7

-----------------------------------------------------------------------------
(* Operations on the tasks. *)
LEMMA TaskNames ==
  /\ "event" \in Tasks /\ "io" \in Tasks /\ "timer" \in Tasks
  /\ \A s \in Sessions : s \in Tasks /\ s \notin {"event", "io", "timer", "read", "done"}
BY TunConstants DEF Tasks, Engine

\* A session stays tracked when neither the list nor whether its task lives
\* changes.
LEMMA StaysTracked ==
  ASSUME NEW c, Tracked(c), NEW d \in Cores, ~d.aborted, d.set = c.set, d.count = c.count,
         \A s \in Sessions : /\ d.task[s] = "stopped" <=> c.task[s] = "stopped"
                             /\ d.ses[s].phase \in Absent <=> c.ses[s].phase \in Absent
  PROVE  Tracked(d)
BY DEF Tracked

\* A task that is not stopped goes on, to wait or to run.
LEMMA Switched ==
  ASSUME NEW c, Tracked(c), NEW t \in Tasks, c.task[t] # "stopped", NEW v \in {"running", "waiting"}
  PROVE  LET d == [c EXCEPT !.task[t] = v]
         IN  /\ Tracked(d) /\ d.task = [c.task EXCEPT ![t] = v]
             /\ d.run = c.run /\ d.set = c.set /\ d.count = c.count /\ d.ses = c.ses /\ d.at = c.at
             /\ d.sleeping = c.sleeping /\ d.aborted = c.aborted /\ d.spin = c.spin
<1> DEFINE d == [c EXCEPT !.task[t] = v]
           k == [c.task EXCEPT ![t] = v]
<1>0. c \in Cores /\ c.task \in [Tasks -> States] /\ ~c.aborted
  BY DEF Tracked, Cores
<1>1. k \in [Tasks -> States]
  BY <1>0 DEF States
<1>2. d = [c EXCEPT !.task = k]
  BY <1>0 DEF Cores
<1>3. \A u \in Tasks : k[u] = "stopped" <=> c.task[u] = "stopped"
  BY <1>0
<1> HIDE DEF d, k
<1>4. d \in Cores
  BY <1>0, <1>1, <1>2 DEF Cores
<1>5. /\ d.task = k
      /\ d.run = c.run /\ d.set = c.set /\ d.count = c.count /\ d.ses = c.ses /\ d.at = c.at
      /\ d.sleeping = c.sleeping /\ d.aborted = c.aborted /\ d.spin = c.spin
  BY <1>0, <1>2 DEF Cores
<1>6. Tracked(d)
  BY <1>0, <1>3, <1>4, <1>5, StaysTracked, TaskNames
<1> QED
  BY <1>5, <1>6 DEF d, k

\* Waking a task that has not ended changes its state only.
LEMMA WakeKeeps ==
  ASSUME NEW c, Live(c), NEW t \in Tasks, c.task[t] # "stopped"
  PROVE  /\ Wake(c, t) = [c EXCEPT !.task[t] = "running"]
         /\ Live(Wake(c, t))
<1>1. Wake(c, t) = [c EXCEPT !.task[t] = "running"]
  BY DEF Wake
<1> DEFINE d == [c EXCEPT !.task[t] = "running"]
<1>2. /\ Tracked(d) /\ d.task = [c.task EXCEPT ![t] = "running"]
      /\ d.run = c.run /\ d.set = c.set /\ d.at = c.at /\ d.sleeping = c.sleeping
  BY Switched DEF Live
<1> HIDE DEF d
<1>3. c.task \in [Tasks -> States]
  BY DEF Live, Tracked, Cores
<1>4. Staffed(d) /\ Timed(d)
  BY <1>2, <1>3, TaskNames DEF Live, Staffed, Timed
<1> QED
  BY <1>1, <1>2, <1>4 DEF Live, d

\* A task other than the timer waits.
LEMMA WaitKeeps ==
  ASSUME NEW c, Live(c), NEW t \in Tasks, t # "timer", c.task[t] # "stopped"
  PROVE  Live([c EXCEPT !.task[t] = "waiting"])
<1> DEFINE d == [c EXCEPT !.task[t] = "waiting"]
<1>2. /\ Tracked(d) /\ d.task = [c.task EXCEPT ![t] = "waiting"]
      /\ d.run = c.run /\ d.set = c.set /\ d.at = c.at /\ d.sleeping = c.sleeping
  BY Switched DEF Live
<1> HIDE DEF d
<1>3. c.task \in [Tasks -> States]
  BY DEF Live, Tracked, Cores
<1>4. Staffed(d) /\ Timed(d)
  BY <1>2, <1>3, TaskNames DEF Live, Staffed, Timed
<1> QED
  BY <1>2, <1>4 DEF Live, d

\* One turn of hev_task_join by the event task, which has left its loop.
LEMMA JoinKeeps ==
  ASSUME NEW c, Tracked(c), ~c.run, c.task["event"] # "stopped", NEW t \in {"io", "timer"},
         c.task[t] # "stopped"
  PROVE  Live(Join(c, t))
<1> DEFINE k == [c.task EXCEPT ![t] = "running", !["event"] = "waiting"]
           d == [c EXCEPT !.task = k, !.at = t]
<1>0. /\ t \in Tasks /\ t # "event" /\ "event" \in Tasks
      /\ c \in Cores /\ c.task \in [Tasks -> States] /\ ~c.aborted
  BY TaskNames DEF Tracked, Cores
<1>1. Join(c, t) = d
  BY <1>0 DEF Join, Wake, Cores
<1>2. /\ k \in [Tasks -> States] /\ k["event"] # "stopped"
      /\ \A u \in Tasks : k[u] = "stopped" <=> c.task[u] = "stopped"
  BY <1>0 DEF States
<1> HIDE DEF k
<1>3. d \in Cores
  BY <1>0, <1>2 DEF Cores
<1>4. /\ d.at = t /\ d.task = k
      /\ d.run = c.run /\ d.set = c.set /\ d.count = c.count /\ d.ses = c.ses
      /\ d.sleeping = c.sleeping /\ d.aborted = c.aborted
  BY <1>0 DEF Cores
<1> HIDE DEF d
<1>5. Tracked(d)
  BY <1>0, <1>2, <1>3, <1>4, StaysTracked, TaskNames
<1>6. Staffed(d) /\ Timed(d)
  BY <1>2, <1>4 DEF Staffed, Timed
<1> QED
  BY <1>1, <1>5, <1>6 DEF Live

\* A task of the engine leaves when it has been told to.
LEMMA Leaves ==
  ASSUME NEW c, Live(c), ~c.run, NEW t \in Engine, t = "event" => c.at = "done"
  PROVE  Live([c EXCEPT !.task[t] = "stopped"])
<1> DEFINE k == [c.task EXCEPT ![t] = "stopped"]
           d == [c EXCEPT !.task[t] = "stopped"]
<1>0. c \in Cores /\ c.task \in [Tasks -> States] /\ t \in Tasks /\ t \notin Sessions
  BY TaskNames DEF Live, Tracked, Cores, Engine, Tasks
<1>1. k \in [Tasks -> States] /\ d = [c EXCEPT !.task = k]
  BY <1>0 DEF States, Cores
<1>2. \A u \in Tasks : u # t => k[u] = c.task[u]
  BY <1>0
<1> HIDE DEF k, d
<1>3. d \in Cores
  BY <1>0, <1>1 DEF Cores
<1>4. /\ d.task = k
      /\ d.run = c.run /\ d.set = c.set /\ d.count = c.count /\ d.ses = c.ses /\ d.at = c.at
      /\ d.sleeping = c.sleeping /\ d.aborted = c.aborted
  BY <1>0, <1>1 DEF Cores
<1>5. Tracked(d)
  BY <1>0, <1>2, <1>3, <1>4, TaskNames DEF Live, Tracked
<1>6. Staffed(d) /\ Timed(d)
  BY <1>2, <1>4, TaskNames DEF Live, Staffed, Timed
<1> QED
  BY <1>5, <1>6 DEF Live, d

\* A task of the engine that ends wakes the one that joins it.
LEMMA ExitKeeps ==
  ASSUME NEW c, Live(c), ~c.run, NEW t \in Engine, t = "event" => c.at = "done"
  PROVE  Live(Exit(c, t))
<1>1. CASE c.at = t
  <2>0. t # "event" /\ "event" \in Tasks /\ c.task["event"] # "stopped"
    BY <1>1, TaskNames DEF Live, Staffed, Engine
  <2> DEFINE w == Wake(c, "event")
  <2>1. Live(w) /\ w = [c EXCEPT !.task["event"] = "running"]
    BY <2>0, WakeKeeps
  <2>2. w.run = c.run /\ w.at = c.at
    BY <2>1 DEF Live, Tracked, Cores
  <2>3. Exit(c, t) = [w EXCEPT !.task[t] = "stopped"]
    BY <1>1 DEF Exit
  <2> HIDE DEF w
  <2>4. Live(w) /\ ~w.run /\ (t = "event" => w.at = "done")
    BY <2>0, <2>1, <2>2
  <2>5. Live([w EXCEPT !.task[t] = "stopped"])
    BY <2>4, Leaves
  <2> QED
    BY <2>3, <2>5
<1>2. CASE c.at # t
  <2>1. Exit(c, t) = [c EXCEPT !.task[t] = "stopped"]
    BY <1>2 DEF Exit
  <2> QED
    BY <2>1, Leaves
<1> QED
  BY <1>1, <1>2

-----------------------------------------------------------------------------
(* Steps of a session. *)
LEMMA SessionEndKeeps ==
  ASSUME NEW c, Live(c), NEW s \in Sessions, c.task[s] # "stopped"
  PROVE  Live(SessionEnd(c, s))
<1> DEFINE set == Without(c.set, s)
           b == [c EXCEPT !.set = Without(@, s), !.count = @ - 1, !.ses[s].phase = "gone"]
           f == [c.ses EXCEPT ![s] = [c.ses[s] EXCEPT !.phase = "gone"]]
           k == [c.task EXCEPT ![s] = "stopped"]
           n == c.count - 1
           d == SessionEnd(c, s)
<1>0. /\ c \in Cores /\ c.task \in [Tasks -> States] /\ c.ses \in [Sessions -> Sleep] /\ ~c.aborted
      /\ c.set \in Seq(Sessions) /\ IsInjective(c.set) /\ s \in Range(c.set) /\ c.count = Len(c.set)
      /\ c.at # s /\ s \in Tasks
  BY TaskNames DEF Live, Tracked, Cores
<1>1. /\ set \in Seq(Sessions) /\ IsInjective(set) /\ Len(set) = Len(c.set) - 1
      /\ Range(set) = Range(c.set) \ {s}
  BY <1>0, WithoutOne
<1> HIDE DEF set
<1>2. n \in Nat /\ n = Len(set)
  BY <1>0, <1>1
<1>3. f \in [Sessions -> Sleep] /\ f[s].phase = "gone" /\ \A r \in Sessions : r # s => f[r] = c.ses[r]
  BY <1>0 DEF Sleep
<1>4. k \in [Tasks -> States] /\ k[s] = "stopped" /\ \A t \in Tasks : t # s => k[t] = c.task[t]
  BY <1>0 DEF States
<1>5. b = [c EXCEPT !.set = set, !.count = n, !.ses = f]
  BY <1>0 DEF Cores, set
<1>6. b.at = c.at /\ b.task = c.task
  BY <1>0, <1>5 DEF Cores
<1>7. d = [b EXCEPT !.task[s] = "stopped"]
  BY <1>0, <1>6 DEF SessionEnd, Exit
<1> HIDE DEF b, d, k, f, n
<1>8. d = [c EXCEPT !.set = set, !.count = n, !.ses = f, !.task = k]
  BY <1>0, <1>5, <1>6, <1>7 DEF Cores, k
<1>9. d \in Cores
  BY <1>0, <1>1, <1>2, <1>3, <1>4, <1>8 DEF Cores
<1>10. /\ d.set = set /\ d.count = n /\ d.ses = f /\ d.task = k
       /\ d.run = c.run /\ d.at = c.at /\ d.sleeping = c.sleeping /\ d.aborted = c.aborted
  BY <1>0, <1>8 DEF Cores
<1>11. \A r \in Sessions : /\ d.task[r] # "stopped" <=> r \in Range(d.set)
                           /\ d.task[r] # "stopped" <=> d.ses[r].phase \notin Absent
  <2> SUFFICES ASSUME NEW r \in Sessions
               PROVE  /\ d.task[r] # "stopped" <=> r \in Range(d.set)
                      /\ d.task[r] # "stopped" <=> d.ses[r].phase \notin Absent
    OBVIOUS
  <2>1. CASE r = s
    BY <1>1, <1>3, <1>4, <1>10, <2>1 DEF Absent
  <2>2. CASE r # s
    <3>1. /\ c.task[r] # "stopped" <=> r \in Range(c.set)
          /\ c.task[r] # "stopped" <=> c.ses[r].phase \notin Absent
      BY DEF Live, Tracked
    <3>2. d.task[r] = c.task[r] /\ d.ses[r] = c.ses[r] /\ (r \in Range(d.set) <=> r \in Range(c.set))
      BY <1>1, <1>3, <1>4, <1>10, <2>2, TaskNames
    <3> QED
      BY <3>1, <3>2
  <2> QED
    BY <2>1, <2>2
<1>12. Tracked(d)
  BY <1>0, <1>1, <1>2, <1>9, <1>10, <1>11 DEF Tracked
<1>13. c.set # <<>>
  BY <1>0 DEF Range
<1>14. Staffed(d) /\ Timed(d)
  BY <1>4, <1>10, <1>13, TaskNames DEF Live, Staffed, Timed
<1> QED
  BY <1>12, <1>14 DEF Live, d

\* A session that waits, or ends because its timeout is zero, keeps the list
\* exact.
LEMMA SessionWaitKeeps ==
  ASSUME NEW c, Live(c), NEW s \in Sessions, c.task[s] # "stopped"
  PROVE  Live(WaitOrEnd(c, s))
<1>1. CASE c.ses[s].zero
  BY <1>1, SessionEndKeeps DEF WaitOrEnd
<1>2. CASE ~c.ses[s].zero
  BY <1>2, WaitKeeps, TaskNames DEF WaitOrEnd
<1> QED
  BY <1>1, <1>2

\* The next phase of a session that lives, with or without its timeout.
LEMMA Phased ==
  ASSUME NEW c, Live(c), NEW s \in Sessions, c.task[s] # "stopped",
         NEW p \in {"connect", "handshake", "splice"}, NEW z \in BOOLEAN,
         NEW d, d = [c EXCEPT !.ses[s].phase = p, !.ses[s].zero = z]
  PROVE  Live(d) /\ d.task = c.task
<1> DEFINE e == [c.ses[s] EXCEPT !.phase = p, !.zero = z]
           f == [c.ses EXCEPT ![s] = e]
<1>0. c \in Cores /\ c.ses \in [Sessions -> Sleep] /\ c.ses[s] \in Sleep
  BY DEF Live, Tracked, Cores
<1>2. d = [c EXCEPT !.ses = f]
  BY <1>0 DEF Cores
<1>a. e \in Sleep /\ e.phase = p
  BY <1>0 DEF Sleep
<1> HIDE DEF e
<1>1. f \in [Sessions -> Sleep] /\ f[s].phase = p /\ \A r \in Sessions : r # s => f[r] = c.ses[r]
  BY <1>0, <1>a
<1> HIDE DEF f
<1>3. d \in Cores
  BY <1>0, <1>1, <1>2 DEF Cores
<1>4. /\ d.set = c.set /\ d.count = c.count /\ d.ses = f /\ d.task = c.task
      /\ d.run = c.run /\ d.at = c.at /\ d.sleeping = c.sleeping /\ d.aborted = c.aborted
  BY <1>0, <1>2 DEF Cores
<1>5. c.ses[s].phase \notin Absent /\ p \notin Absent
  BY DEF Live, Tracked, Absent
<1>6. \A r \in Sessions : d.ses[r].phase \in Absent <=> c.ses[r].phase \in Absent
  BY <1>1, <1>4, <1>5
<1>7. Tracked(d)
  BY <1>3, <1>4, <1>6, StaysTracked DEF Live, Tracked
<1>8. Staffed(d) /\ Timed(d)
  BY <1>4 DEF Live, Staffed, Timed
<1> QED
  BY <1>4, <1>7, <1>8 DEF Live

\* hev_socks5_tunnel_update_session moves a session to the tail and wakes
\* nobody.
LEMMA UpdateKeeps ==
  ASSUME NEW c, Live(c), NEW s \in Sessions, c.task[s] # "stopped"
  PROVE  Live(update_session(c, s)) /\ update_session(c, s).task = c.task
<1>1. CASE mode.limit = 0
  BY <1>1 DEF update_session
<1>2. CASE mode.limit # 0
  <2> DEFINE w == Without(c.set, s)
             set == Append(w, s)
             d == [c EXCEPT !.set = set]
  <2>0. /\ c \in Cores /\ c.set \in Seq(Sessions) /\ IsInjective(c.set) /\ s \in Range(c.set)
        /\ c.count = Len(c.set)
    BY DEF Live, Tracked, Cores
  <2>1. /\ w \in Seq(Sessions) /\ IsInjective(w) /\ Len(w) = Len(c.set) - 1
        /\ Range(w) = Range(c.set) \ {s}
    BY <2>0, WithoutOne
  <2>2. update_session(c, s) = d
    BY <1>2, <2>0 DEF update_session, Cores
  <2> HIDE DEF w
  <2>3. /\ set \in Seq(Sessions) /\ IsInjective(set) /\ Len(set) = Len(w) + 1
        /\ Range(set) = Range(w) \cup {s} /\ set # <<>>
    BY <2>1, WithOneMore
  <2> HIDE DEF set
  <2>4. Len(set) = Len(c.set) /\ Range(set) = Range(c.set)
    BY <2>0, <2>1, <2>3
  <2>5. d \in Cores
    BY <2>0, <2>3 DEF Cores
  <2>6. /\ d.set = set /\ d.count = c.count /\ d.ses = c.ses /\ d.task = c.task
        /\ d.run = c.run /\ d.at = c.at /\ d.sleeping = c.sleeping /\ d.aborted = c.aborted
    BY <2>0 DEF Cores
  <2> HIDE DEF d
  <2>7. Tracked(d)
    BY <2>3, <2>4, <2>5, <2>6 DEF Live, Tracked
  <2>8. c.set # <<>>
    BY <2>0 DEF Range
  <2>9. Staffed(d) /\ Timed(d)
    BY <2>6, <2>8 DEF Live, Staffed, Timed
  <2> QED
    BY <2>2, <2>6, <2>7, <2>9 DEF Live
<1> QED
  BY <1>1, <1>2

\* The steps of a session keep the list exact and wake no task that is gone.
LEMMA SessionRunKeeps ==
  ASSUME Live(core), NEW s \in Sessions, SessionRun(s) \/ SessionYield(s) \/ SessionReady(s) \/ SessionExpire(s)
  PROVE  Live(core')
<1>0. s \in Tasks /\ core.task[s] # "stopped" /\ core.ses[s].zero \in BOOLEAN
  BY TaskNames DEF SessionRun, SessionYield, SessionReady, SessionExpire, Running, Waiting, Live, Tracked, Cores, Sleep
<1>1. ASSUME NEW c, Live(c), c.task[s] # "stopped",
             core' \in {WaitOrEnd(c, s), SessionEnd(c, s)}
      PROVE  Live(core')
  BY <1>1, SessionEndKeeps, SessionWaitKeeps
<1>3. CASE SessionRun(s) /\ Connect(s)
  <2>0. PICK c : c = [core EXCEPT !.ses[s].phase = "connect", !.ses[s].zero = FALSE]
    OBVIOUS
  <2>1. Live(c) /\ c.task[s] # "stopped"
    BY <1>0, <2>0, Phased, ZenonT(60)
  <2>2. core' \in {WaitOrEnd(c, s), SessionEnd(c, s)}
    BY <1>3, <2>0 DEF Connect
  <2> QED
    BY <1>1, <2>1, <2>2
<1>4. CASE SessionRun(s) /\ Handshake(s)
  <2>0. PICK c : c = [core EXCEPT !.ses[s].phase = "handshake", !.ses[s].zero = FALSE]
    OBVIOUS
  <2>1. Live(c) /\ c.task[s] # "stopped"
    BY <1>0, <2>0, Phased, ZenonT(60)
  <2>2. core' \in {WaitOrEnd(core, s), WaitOrEnd(c, s), SessionEnd(core, s)}
    BY <1>4, <2>0 DEF Handshake
  <2> QED
    BY <1>0, <1>1, <2>1, <2>2
<1>5. CASE SessionRun(s) /\ Splice(s)
  <2>a. PICK z \in BOOLEAN : z = (core.ses[s].zero /\ ~mode.udp)
    OBVIOUS
  <2>0. PICK c : c = [core EXCEPT !.ses[s].phase = "splice", !.ses[s].zero = z]
    OBVIOUS
  <2>1. Live(c) /\ c.task[s] # "stopped"
    <3>1. CASE z = TRUE
      <4>1. c = [core EXCEPT !.ses[s].phase = "splice", !.ses[s].zero = TRUE]
        BY <2>0, <3>1
      <4> QED
        BY <1>0, <4>1, Phased, ZenonT(60)
    <3>2. CASE z = FALSE
      <4>1. c = [core EXCEPT !.ses[s].phase = "splice", !.ses[s].zero = FALSE]
        BY <2>0, <3>2
      <4> QED
        BY <1>0, <4>1, Phased, ZenonT(60)
    <3> QED
      BY <3>1, <3>2
  <2>2. core' \in {WaitOrEnd(core, s), WaitOrEnd(c, s), SessionEnd(core, s)}
    <3>1. [core EXCEPT !.ses[s].phase = "splice", !.ses[s].zero = @ /\ ~mode.udp] = c
      <4>1. core \in Cores /\ core.ses \in [Sessions -> Sleep] /\ core.ses[s] \in Sleep
        BY DEF Live, Tracked, Cores
      <4>2. [core EXCEPT !.ses[s].phase = "splice"].ses[s].zero = core.ses[s].zero
        BY <4>1 DEF Cores, Sleep
      <4> QED
        BY <2>0, <2>a, <4>1, <4>2
    <3> QED
      BY <1>5, <3>1 DEF Splice
  <2> QED
    BY <1>0, <1>1, <2>1, <2>2
<1>6. CASE SessionRun(s) /\ Relay(s)
  <2> DEFINE c == update_session(core, s)
  <2>1. Live(c) /\ c.task[s] # "stopped"
    BY <1>0, UpdateKeeps
  <2>2. core' \in {WaitOrEnd(c, s), SessionEnd(c, s)}
    BY <1>6 DEF Relay
  <2> QED
    BY <1>1, <2>1, <2>2
<1>7. CASE SessionReady(s)
  BY <1>0, <1>7, WakeKeeps DEF SessionReady
<1>8. CASE SessionExpire(s)
  BY <1>0, <1>8, SessionEndKeeps DEF SessionExpire
<1>9. CASE SessionYield(s)
  BY <1>0, <1>9, UpdateKeeps DEF SessionYield
<1> QED
  BY <1>3, <1>4, <1>5, <1>6, <1>7, <1>8, <1>9 DEF SessionRun

-----------------------------------------------------------------------------
(* Steps of the engine's tasks. *)

\* Every listed session has a task that lives: terminating them aborts nothing.
LEMMA TerminateEachKeeps ==
  ASSUME NEW c, Tracked(c)
  PROVE  LET d == TerminateEach(c)
         IN  Tracked(d) /\ d.run = c.run /\ \A t \in Engine : d.task[t] = c.task[t]
<1> DEFINE listed == Range(c.set)
           f == [s \in Sessions |-> [c.ses[s] EXCEPT !.zero = @ \/ s \in listed]]
           k == [t \in Tasks |-> IF t \in listed /\ c.task[t] # "stopped" THEN "running"
                                 ELSE c.task[t]]
           q == c.aborted \/ \E s \in listed : c.task[s] = "stopped"
           d == TerminateEach(c)
<1>0. /\ c \in Cores /\ c.task \in [Tasks -> States] /\ c.ses \in [Sessions -> Sleep] /\ ~c.aborted
      /\ c.set \in Seq(Sessions) /\ listed \subseteq Sessions
  BY DEF Tracked, Cores, Range
<1>1. d = [c EXCEPT !.ses = f, !.task = k, !.aborted = q]
  BY DEF TerminateEach
<1>2. f \in [Sessions -> Sleep] /\ \A s \in Sessions : f[s].phase = c.ses[s].phase
  <2> SUFFICES ASSUME NEW s \in Sessions
               PROVE  [c.ses[s] EXCEPT !.zero = @ \/ s \in listed] \in Sleep
                      /\ [c.ses[s] EXCEPT !.zero = @ \/ s \in listed].phase = c.ses[s].phase
    OBVIOUS
  <2> DEFINE z == c.ses[s].zero \/ s \in listed
  <2>1. z \in BOOLEAN /\ c.ses[s] \in Sleep
    BY <1>0
  <2> HIDE DEF z
  <2>2. [c.ses[s] EXCEPT !.zero = z] \in Sleep /\ [c.ses[s] EXCEPT !.zero = z].phase = c.ses[s].phase
    BY <2>1 DEF Sleep
  <2> QED
    BY <2>2 DEF z
<1>3. k \in [Tasks -> States] /\ \A t \in Tasks : k[t] = "stopped" <=> c.task[t] = "stopped"
  BY <1>0 DEF States
<1>4. q = FALSE
  BY <1>0 DEF Tracked
<1>5. \A t \in Engine : k[t] = c.task[t]
  BY <1>0, TaskNames DEF Engine, Tasks
<1> HIDE DEF f, k, q, d
<1>6. d \in Cores
  BY <1>0, <1>1, <1>2, <1>3, <1>4 DEF Cores
<1>7. /\ d.ses = f /\ d.task = k /\ d.aborted = q
      /\ d.set = c.set /\ d.count = c.count /\ d.run = c.run
  BY <1>0, <1>1 DEF Cores
<1>8. Tracked(d)
  BY <1>2, <1>3, <1>4, <1>6, <1>7, StaysTracked, TaskNames
<1> QED
  BY <1>5, <1>7, <1>8 DEF d

\* The event task stops the others and joins them while they are there.
LEMMA EventRunKeeps ==
  ASSUME Live(core), EventRun
  PROVE  Live(core')
<1>0. /\ core.task["event"] = "running" /\ "event" \in Tasks /\ "event" # "timer"
      /\ core \in Cores /\ core.run \in BOOLEAN /\ "event" \in Engine
  BY TaskNames DEF EventRun, Running, Live, Tracked, Cores, Engine
<1>1. CASE core' = [core EXCEPT !.task["event"] = "waiting"]
  BY <1>0, <1>1, WaitKeeps
<1>2. CASE core.at = "read" /\ core' = Shutdown(core)
  <2> DEFINE b == [core EXCEPT !.run = FALSE]
             d == TerminateEach(b)
  <2>1. b \in Cores
    BY <1>0 DEF Cores
  <2>2. /\ b.run = FALSE /\ b.task = core.task /\ b.set = core.set /\ b.count = core.count
        /\ b.ses = core.ses /\ b.aborted = core.aborted
    BY <1>0 DEF Cores
  <2> HIDE DEF b
  <2>3. Tracked(b)
    BY <2>1, <2>2 DEF Live, Tracked
  <2>4. Tracked(d) /\ d.run = b.run /\ \A t \in Engine : d.task[t] = b.task[t]
    BY <2>3, TerminateEachKeeps
  <2>5. core.task["io"] # "stopped"
    BY <1>2 DEF Live, Staffed
  <2>6. core' = Join(d, "io")
    BY <1>2 DEF Shutdown, b
  <2> HIDE DEF d
  <2>7. ~d.run /\ d.task["event"] # "stopped" /\ d.task["io"] # "stopped"
    BY <1>0, <2>2, <2>4, <2>5 DEF Engine
  <2> QED
    BY <2>4, <2>6, <2>7, JoinKeeps
<1>3. CASE core.at \in {"io", "timer"}
  <2>0. ~core.run
    BY <1>3 DEF Live, Staffed
  <2>1. CASE core' = Join(core, "io") /\ core.task["io"] # "stopped"
    BY <1>0, <2>0, <2>1, JoinKeeps DEF Live
  <2>2. CASE core' = Join(core, "timer") /\ core.task["timer"] # "stopped"
    BY <1>0, <2>0, <2>2, JoinKeeps DEF Live
  <2>3. CASE core' = Exit([core EXCEPT !.at = "done"], "event")
    <3> DEFINE d == [core EXCEPT !.at = "done"]
    <3>1. d \in Cores
      BY <1>0 DEF Cores
    <3>2. /\ d.at = "done"
          /\ d.task = core.task /\ d.run = core.run /\ d.set = core.set /\ d.count = core.count
          /\ d.ses = core.ses /\ d.sleeping = core.sleeping /\ d.aborted = core.aborted
      BY <1>0 DEF Cores
    <3> HIDE DEF d
    <3>3. Live(d) /\ ~d.run
      BY <2>0, <3>1, <3>2 DEF Live, Tracked, Staffed, Timed
    <3>4. Live(Exit(d, "event"))
      BY <1>0, <3>2, <3>3, ExitKeeps
    <3> QED
      BY <2>3, <3>4 DEF d
  <2> QED
    BY <1>3, <2>1, <2>2, <2>3 DEF EventRun
<1>4. core.at \in {"read", "io", "timer"}
  BY DEF EventRun
<1> QED
  BY <1>1, <1>2, <1>3, <1>4 DEF EventRun

\* A session that is new joins the list; at the limit the head of the list is
\* woken, which is another session, and whose task lives.
LEMMA AcceptKeeps ==
  ASSUME NEW c, Live(c), c.run, NEW s \in Sessions, c.ses[s].phase = "none", mode \in Cases
  PROVE  Live(Accept(c, s))
<1> DEFINE e == [c.ses[s] EXCEPT !.phase = "new"]
           f == [c.ses EXCEPT ![s] = e]
           new == [c EXCEPT !.ses[s].phase = "new"]
           set == Append(c.set, s)
           n == c.count + 1
           added == [new EXCEPT !.set = Append(@, s), !.count = @ + 1]
           h == Head(set)
           i == insert_session(new, s)
           r == [i EXCEPT !.task[s] = "running"]
<1>0. /\ c \in Cores /\ c.task \in [Tasks -> States] /\ c.ses \in [Sessions -> Sleep] /\ ~c.aborted
      /\ c.set \in Seq(Sessions) /\ IsInjective(c.set) /\ c.count = Len(c.set) /\ c.count \in Nat
      /\ s \in Tasks /\ s # "timer" /\ "timer" \in Tasks /\ c.task["timer"] # "stopped"
      /\ s \notin Range(c.set)
  BY TaskNames DEF Live, Tracked, Staffed, Cores, Absent
<1>1. /\ set \in Seq(Sessions) /\ IsInjective(set) /\ Len(set) = Len(c.set) + 1
      /\ Range(set) = Range(c.set) \cup {s} /\ set # <<>>
      /\ c.set # <<>> => h \in Range(c.set)
  BY <1>0, WithOneMore
<1>2. e \in Sleep /\ e.phase = "new"
  BY <1>0 DEF Sleep
<1>3. new = [c EXCEPT !.ses = f]
  BY <1>0 DEF Cores
<1> HIDE DEF e
<1>4. f \in [Sessions -> Sleep] /\ f[s].phase = "new" /\ \A x \in Sessions : x # s => f[x] = c.ses[x]
  BY <1>0, <1>2
<1> HIDE DEF f
<1>5. new.set = c.set /\ new.count = c.count
  BY <1>0, <1>3 DEF Cores
<1>6. added = [c EXCEPT !.ses = f, !.set = set, !.count = n]
  BY <1>0, <1>3, <1>5 DEF Cores
<1>7. i = IF mode.limit = 0 \/ added.count < mode.limit THEN added ELSE Terminate(added, Head(added.set))
  BY DEF insert_session
<1> HIDE DEF new, set, added, n, i, h
<1>8. n \in Nat /\ n = Len(set)
  BY <1>0, <1>1 DEF n
<1>9. added \in Cores
  BY <1>0, <1>1, <1>4, <1>6, <1>8 DEF Cores
<1>10. /\ added.ses = f /\ added.set = set /\ added.count = n /\ added.task = c.task
       /\ added.run = c.run /\ added.at = c.at /\ added.sleeping = c.sleeping /\ added.aborted = c.aborted
  BY <1>0, <1>6 DEF Cores
<1>11. mode.limit \in Nat \ {1}
  BY TunConstants
\* What the insertion leaves: the new session listed, and no other task stopped.
<1>12. /\ i \in Cores /\ i.set = set /\ i.count = n
       /\ i.run = c.run /\ i.at = c.at /\ ~i.aborted
       /\ \A x \in Sessions : i.ses[x].phase = f[x].phase
       /\ \A t \in Tasks : i.task[t] = "stopped" <=> c.task[t] = "stopped"
  <2>1. CASE mode.limit = 0 \/ added.count < mode.limit
    BY <1>0, <1>7, <1>9, <1>10, <2>1
  <2>2. CASE ~(mode.limit = 0 \/ added.count < mode.limit)
    <3>1. n \in Nat /\ 2 <= n
      BY <1>8, <1>10, <1>11, <2>2
    <3>2. c.set # <<>>
      BY <1>0, <3>1 DEF n
    <3>3. h \in Range(c.set) /\ Head(added.set) = h
      BY <1>1, <1>10, <3>2 DEF h
    <3>4. h \in Sessions /\ h \in Tasks /\ c.task[h] # "stopped"
      <4>1. h \in Sessions
        BY <1>0, <3>3 DEF Range
      <4> QED
        BY <3>3, <4>1, TaskNames DEF Live, Tracked
    <3> DEFINE g == [f EXCEPT ![h] = [f[h] EXCEPT !.zero = TRUE]]
               k == [c.task EXCEPT ![h] = "running"]
               z == [added EXCEPT !.ses[h].zero = TRUE]
    <3>5. z = [added EXCEPT !.ses = g] /\ z.task = c.task
      BY <1>9, <1>10 DEF Cores
    <3>6. i = [z EXCEPT !.task[h] = "running"]
      BY <1>7, <2>2, <3>3, <3>4, <3>5 DEF Terminate, Wake
    <3>7. g \in [Sessions -> Sleep] /\ \A x \in Sessions : g[x].phase = f[x].phase
      BY <1>4, <3>4 DEF Sleep
    <3>8. k \in [Tasks -> States] /\ \A t \in Tasks : k[t] = "stopped" <=> c.task[t] = "stopped"
      BY <1>0, <3>4 DEF States
    <3> HIDE DEF g, z
    <3>9. i = [added EXCEPT !.ses = g, !.task = k]
      BY <1>9, <3>5, <3>6 DEF Cores
    <3> HIDE DEF k
    <3>10. i \in Cores
      BY <1>9, <3>7, <3>8, <3>9 DEF Cores
    <3>11. /\ i.ses = g /\ i.task = k
           /\ i.set = added.set /\ i.count = added.count /\ i.run = added.run
           /\ i.at = added.at /\ i.aborted = added.aborted
      BY <1>9, <3>9 DEF Cores
    <3> QED
      BY <1>0, <1>10, <3>7, <3>8, <3>10, <3>11
  <2> QED
    BY <2>1, <2>2
<1> HIDE DEF r
<1>13. /\ r \in Cores /\ r.set = i.set /\ r.count = i.count /\ r.ses = i.ses
       /\ r.run = i.run /\ r.at = i.at /\ r.aborted = i.aborted
       /\ r.task[s] = "running" /\ \A t \in Tasks : t # s => r.task[t] = i.task[t]
  <2> DEFINE k == [i.task EXCEPT ![s] = "running"]
  <2>1. i.task \in [Tasks -> States]
    BY <1>12 DEF Cores
  <2>2. k \in [Tasks -> States] /\ k[s] = "running" /\ \A t \in Tasks : t # s => k[t] = i.task[t]
    BY <1>0, <2>1 DEF States
  <2>3. r = [i EXCEPT !.task = k]
    BY <1>12 DEF Cores, r
  <2> HIDE DEF k
  <2> QED
    BY <1>12, <2>2, <2>3 DEF Cores
<1>14. Tracked(r)
  <2>1. IsInjective(r.set) /\ r.count = Len(r.set) /\ ~r.aborted
    BY <1>1, <1>8, <1>12, <1>13
  <2>2. ASSUME NEW x \in Sessions
        PROVE  /\ r.task[x] # "stopped" <=> x \in Range(r.set)
               /\ r.task[x] # "stopped" <=> r.ses[x].phase \notin Absent
    <3>1. CASE x = s
      BY <1>1, <1>4, <1>12, <1>13, <3>1 DEF Absent
    <3>2. CASE x # s
      <4>0. x \in Tasks
        BY TaskNames
      <4>1. /\ c.task[x] # "stopped" <=> x \in Range(c.set)
            /\ c.task[x] # "stopped" <=> c.ses[x].phase \notin Absent
        BY DEF Live, Tracked
      <4>2. r.task[x] = "stopped" <=> c.task[x] = "stopped"
        BY <1>12, <1>13, <3>2, <4>0
      <4>3. r.ses[x].phase = c.ses[x].phase
        BY <1>4, <1>12, <1>13, <3>2
      <4>4. x \in Range(r.set) <=> x \in Range(c.set)
        BY <1>1, <1>12, <1>13, <3>2
      <4> QED
        BY <4>1, <4>2, <4>3, <4>4
    <3> QED
      BY <3>1, <3>2
  <2> QED
    BY <1>13, <2>1, <2>2 DEF Tracked
<1>15. \A t \in Engine : r.task[t] = "stopped" <=> c.task[t] = "stopped"
  BY <1>12, <1>13, TaskNames DEF Engine, Tasks
<1>16. Accept(c, s) = [r EXCEPT !.task["timer"] = "running"]
  BY <1>0, <1>15 DEF Accept, Wake, Engine, r, i, new
<1> DEFINE y == [r EXCEPT !.task["timer"] = "running"]
<1>17. /\ Tracked(y) /\ y.task = [r.task EXCEPT !["timer"] = "running"]
       /\ y.run = r.run /\ y.set = r.set /\ y.at = r.at
  <2> DEFINE k == [r.task EXCEPT !["timer"] = "running"]
  <2>1. r \in Cores /\ r.task \in [Tasks -> States] /\ r.task["timer"] # "stopped"
    BY <1>0, <1>13, <1>15 DEF Cores, Engine
  <2>2. /\ k \in [Tasks -> States] /\ y = [r EXCEPT !.task = k]
        /\ \A t \in Tasks : k[t] = "stopped" <=> r.task[t] = "stopped"
    BY <1>0, <2>1 DEF States, Cores
  <2> HIDE DEF k, y
  <2>3. y \in Cores
    BY <2>1, <2>2 DEF Cores
  <2>4. /\ y.task = k
        /\ y.run = r.run /\ y.set = r.set /\ y.count = r.count /\ y.ses = r.ses /\ y.at = r.at
        /\ y.aborted = r.aborted
    BY <2>1, <2>2 DEF Cores
  <2>5. ~y.aborted
    BY <1>14, <2>4 DEF Tracked
  <2>6. \A x \in Sessions : y.task[x] = "stopped" <=> r.task[x] = "stopped"
    BY <2>2, <2>4, TaskNames
  <2>7. Tracked(y)
    BY <1>14, <2>3, <2>4, <2>5, <2>6 DEF Tracked
  <2> QED
    BY <2>4, <2>7 DEF k
<1>18. r.task \in [Tasks -> States]
  BY <1>13 DEF Cores
<1> HIDE DEF y
<1>19. y.task["timer"] = "running" /\ \A t \in Engine : t # "timer" => y.task[t] = r.task[t]
  BY <1>0, <1>17, <1>18 DEF Engine, Tasks
<1>20. Staffed(y) /\ Timed(y)
  BY <1>12, <1>13, <1>15, <1>17, <1>19 DEF Live, Staffed, Timed, Engine
<1> QED
  BY <1>16, <1>17, <1>20 DEF Live, y

\* The io task inserts a session, and terminates the oldest when there are too
\* many.
LEMMA IoRunKeeps ==
  ASSUME Live(core), mode \in Cases, IoRun
  PROVE  Live(core')
<1>0. /\ core.task["io"] = "running" /\ "io" \in Tasks /\ "io" \in Engine /\ "io" # "event" /\ "io" # "timer"
      /\ core \in Cores
  BY TaskNames DEF IoRun, Running, Engine, Live, Tracked
<1>1. CASE ~core.run /\ core' = Exit(core, "io")
  BY <1>0, <1>1, ExitKeeps
<1>2. CASE core.run /\ \E n \in 1 .. mode.conns :
             /\ \A i \in DOMAIN Conns : core.ses[Conns[i]].phase = "none" <=> i >= n
             /\ core' = Accept(core, Conns[n])
  <2>1. PICK n \in 1 .. mode.conns :
             /\ \A i \in DOMAIN Conns : core.ses[Conns[i]].phase = "none" <=> i >= n
             /\ core' = Accept(core, Conns[n])
    BY <1>2
  <2>2. n \in DOMAIN Conns /\ n \in Int
    BY TunConstants
  <2>3. Conns[n] \in Sessions /\ core.ses[Conns[n]].phase = "none"
    BY <2>1, <2>2 DEF Sessions, Range
  <2> QED
    BY <1>2, <2>1, <2>3, AcceptKeeps
<1>3. CASE \E s \in Sessions : core.ses[s].phase = "splice" /\ core' = Wake(core, s)
  <2>1. PICK s \in Sessions : core.ses[s].phase = "splice" /\ core' = Wake(core, s)
    BY <1>3
  <2>2. s \in Tasks /\ core.task[s] # "stopped"
    BY <2>1, TaskNames DEF Live, Tracked, Absent
  <2> QED
    BY <2>1, <2>2, WakeKeeps
<1>4. CASE core' = [core EXCEPT !.task["io"] = "waiting"]
  BY <1>0, <1>4, WaitKeeps
<1>5. CASE core' = [core EXCEPT !.spin = TRUE]
  <2> DEFINE d == [core EXCEPT !.spin = TRUE]
  <2>1. d \in Cores
    BY <1>0 DEF Cores
  <2>2. /\ d.task = core.task /\ d.run = core.run /\ d.set = core.set /\ d.count = core.count
        /\ d.ses = core.ses /\ d.at = core.at /\ d.sleeping = core.sleeping /\ d.aborted = core.aborted
    BY <1>0 DEF Cores
  <2> HIDE DEF d
  <2>3. Live(d)
    BY <2>1, <2>2 DEF Live, Tracked, Staffed, Timed
  <2> QED
    BY <1>5, <2>3 DEF d
<1> QED
  BY <1>1, <1>2, <1>3, <1>4, <1>5 DEF IoRun

\* The timer task works, sleeps or ends.
LEMMA TimerRunKeeps ==
  ASSUME Live(core), TimerRun
  PROVE  Live(core')
<1>0. /\ core.task["timer"] = "running" /\ "timer" \in Tasks /\ "timer" \in Engine /\ "timer" # "event"
      /\ core \in Cores
  BY TaskNames DEF TimerRun, Running, Engine, Live, Tracked
<1>1. CASE ~core.run
  BY <1>0, <1>1, ExitKeeps DEF TimerRun
<1>2. CASE core.run
  <2> DEFINE w == [core EXCEPT !.task["timer"] = "waiting"]
             p == core.set # <<>>
             d == [w EXCEPT !.sleeping = p]
  <2>1. /\ Tracked(w) /\ w.task = [core.task EXCEPT !["timer"] = "waiting"]
        /\ w.run = core.run /\ w.set = core.set /\ w.at = core.at
    BY <1>0, Switched DEF Live
  <2>2. core' = d
    BY <1>0, <1>2 DEF TimerRun, Cores
  <2>3. p \in BOOLEAN
    OBVIOUS
  <2> HIDE DEF w, p
  <2>4. w \in Cores /\ core.task \in [Tasks -> States]
    BY <1>0, <2>1 DEF Tracked, Cores
  <2>5. d \in Cores
    BY <2>3, <2>4 DEF Cores
  <2>6. /\ d.sleeping = p
        /\ d.task = w.task /\ d.run = w.run /\ d.set = w.set /\ d.count = w.count
        /\ d.ses = w.ses /\ d.at = w.at /\ d.aborted = w.aborted
    BY <2>4 DEF Cores
  <2> HIDE DEF d
  <2>7. Tracked(d)
    BY <2>1, <2>5, <2>6 DEF Tracked
  <2>8. \A t \in Engine : d.task[t] = "stopped" <=> core.task[t] = "stopped"
    BY <1>0, <2>1, <2>4, <2>6 DEF Engine, Tasks
  <2>9. Staffed(d)
    BY <2>1, <2>6, <2>8 DEF Live, Staffed, Engine
  <2>10. Timed(d)
    BY <2>1, <2>6 DEF Timed, p
  <2> QED
    BY <2>2, <2>7, <2>9, <2>10 DEF Live
<1> QED
  BY <1>1, <1>2

\* Every step of a task keeps the engine alive.
LEMMA TaskKeeps ==
  ASSUME Live(core), mode \in Cases, TaskStep
  PROVE  Live(core')
<1>0. "event" \in Tasks /\ "io" \in Tasks /\ "timer" \in Tasks
  BY TaskNames
<1>1. CASE EventReady
  BY <1>0, <1>1, WakeKeeps DEF EventReady, Waiting
<1>2. CASE TunReady
  BY <1>0, <1>2, WakeKeeps DEF TunReady, Waiting
<1>3. CASE TimerExpire
  BY <1>0, <1>3, WakeKeeps DEF TimerExpire, Waiting
<1> QED
  BY <1>1, <1>2, <1>3, EventRunKeeps, IoRunKeeps, TimerRunKeeps, SessionRunKeeps DEF TaskStep

-----------------------------------------------------------------------------
(* Without tasks there is no session. *)
LEMMA NobodyLeft ==
  ASSUME Tracked(core), AllGone
  PROVE  core.set = <<>> /\ core.count = 0
<1>1. core.set \in Seq(Sessions) /\ core.count = Len(core.set) /\ core.count \in Nat
  BY DEF Tracked, Cores
<1>2. \A i \in DOMAIN core.set : FALSE
  <2> SUFFICES ASSUME NEW i \in DOMAIN core.set PROVE FALSE
    OBVIOUS
  <2>1. core.set[i] \in Sessions /\ core.set[i] \in Range(core.set)
    BY <1>1 DEF Range
  <2>2. core.task[core.set[i]] # "stopped" /\ core.set[i] \in Tasks
    BY <2>1, TaskNames DEF Tracked
  <2> QED
    BY <2>2 DEF AllGone
<1>3. Len(core.set) = 0
  <2>1. Len(core.set) \in Nat /\ DOMAIN core.set = 1 .. Len(core.set)
    BY <1>1
  <2>2. Len(core.set) # 0 => 1 \in DOMAIN core.set
    BY <2>1
  <2> QED
    BY <1>2, <2>2
<1> QED
  BY <1>1, <1>3, EmptySeq

\* An engine that does not run has no tasks and no sessions.
LEMMA IdleTracked == Tracked(Idle) /\ \A t \in Tasks : Idle.task[t] = "stopped"
<1>1. <<>> \in Seq(Sessions) /\ IsInjective(<<>>) /\ Len(<<>>) = 0 /\ Range(<<>>) = {}
  BY DEF IsInjective, Range
<1>2. Idle \in Cores
  <2>1. [t \in Tasks |-> "stopped"] \in [Tasks -> States]
    BY DEF States
  <2>2. [s \in Sessions |-> [phase |-> "none", zero |-> FALSE]] \in [Sessions -> Sleep]
    BY DEF Sleep
  <2> QED
    BY <1>1, <2>1, <2>2 DEF Idle, Cores
<1>3. /\ Idle.set = <<>> /\ Idle.count = 0 /\ Idle.aborted = FALSE
      /\ Idle.task = [t \in Tasks |-> "stopped"]
      /\ Idle.ses = [s \in Sessions |-> [phase |-> "none", zero |-> FALSE]]
  BY DEF Idle
<1>4. ASSUME NEW s \in Sessions
      PROVE  Idle.task[s] = "stopped" /\ Idle.ses[s].phase = "none"
  BY <1>3, TaskNames
<1>5. Tracked(Idle)
  BY <1>1, <1>2, <1>3, <1>4 DEF Tracked, Absent
<1> QED
  BY <1>3, <1>5

\* A life begins: with the engine's tasks and no session.
LEMMA RunKeeps ==
  ASSUME Tracked(core), AllGone,
         core' = [Idle EXCEPT !.run = TRUE, !.count = core.count,
                    !.task = [t \in Tasks |-> IF t \in Engine THEN "running" ELSE "stopped"]]
  PROVE  Live(core')
<1> DEFINE k == [t \in Tasks |-> IF t \in Engine THEN "running" ELSE "stopped"]
           d == [Idle EXCEPT !.run = TRUE, !.count = 0, !.task = k]
<1>0. Idle \in Cores /\ Idle.set = <<>> /\ Idle.at = "read" /\ Idle.aborted = FALSE
      /\ IsInjective(<<>>) /\ Range(<<>>) = {} /\ Len(<<>>) = 0
      /\ \A s \in Sessions : Idle.ses[s].phase = "none"
  BY IdleTracked DEF Tracked, Idle, IsInjective, Range
<1>1. core' = d
  BY NobodyLeft
<1>2. k \in [Tasks -> States] /\ (\A t \in Engine : k[t] = "running") /\ \A s \in Sessions : k[s] = "stopped"
  BY TaskNames DEF States, Engine, Tasks
<1> HIDE DEF k
<1>3. d \in Cores
  BY <1>0, <1>2 DEF Cores
<1>4. /\ d.run = TRUE /\ d.count = 0 /\ d.task = k
      /\ d.set = Idle.set /\ d.at = Idle.at /\ d.aborted = Idle.aborted /\ d.ses = Idle.ses
  BY <1>0 DEF Cores
<1> HIDE DEF d
<1>5. Tracked(d)
  BY <1>0, <1>2, <1>3, <1>4 DEF Tracked, Absent
<1>6. Staffed(d) /\ Timed(d)
  BY <1>0, <1>2, <1>4 DEF Staffed, Timed, Engine
<1> QED
  BY <1>1, <1>5, <1>6 DEF Live

\* Every step preserves the invariant of the engine.
LEMMA CoreNext == AliveInv /\ CoreInv /\ [Next]_vars => CoreInv'
<1> SUFFICES ASSUME AliveInv, CoreInv, [Next]_vars PROVE CoreInv'
  OBVIOUS
<1>1. ASSUME core' = core, thread' # "run", thread # "run" PROVE CoreInv'
  BY <1>1 DEF CoreInv, AllGone
<1>2. ASSUME core' = core, thread' = thread PROVE CoreInv'
  BY <1>2 DEF CoreInv, AllGone
<1>3. ASSUME NEW c \in Callers, StartCall(c) \/ StopCall(c) \/ CallerStep(c) PROVE CoreInv'
  <2>1. core' = core
    BY <1>3 DEF StartCall, StopCall, CallerStep, SetFlags, nativeStart, nativeStop, AwaitFd,
                WriteByte, StopReturn, nativeOnly
  <2>2. thread' = thread \/ (thread' = "main" /\ ~jni.running)
    BY <1>3 DEF StartCall, StopCall, CallerStep, SetFlags, nativeStart, nativeStop, AwaitFd,
                WriteByte, StopReturn, nativeOnly
  <2>3. ~jni.running => thread # "run"
    BY DEF AliveInv, RunningMeansAlive, Alive
  <2> QED
    BY <1>1, <1>2, <2>1, <2>2, <2>3
<1>4. CASE ThreadStep
  <2>1. CASE MainInit \/ TunnelInit \/ Fini \/ Fini2 \/ ThreadExit
    <3>1. core' = core /\ thread # "run" /\ thread' # "run"
      BY <2>1 DEF MainInit, TunnelInit, Fini, Fini2, ThreadExit
    <3> QED
      BY <1>1, <3>1
  <2>2. CASE Run
    <3>0. thread = "late" /\ AllGone /\ Tracked(core)
      BY <2>2 DEF Run, CoreInv
    <3>1. CASE core' = core /\ thread' = "fini"
      BY <1>1, <3>0, <3>1
    <3>2. CASE /\ thread' = "run"
               /\ core' = [Idle EXCEPT !.run = TRUE, !.count = core.count,
                      !.task = [t \in Tasks |-> IF t \in Engine THEN "running" ELSE "stopped"]]
      <4>1. Live(core')
        BY <3>0, <3>2, RunKeeps
      <4> QED
        BY <3>2, <4>1 DEF CoreInv, Live
    <3> QED
      BY <2>2, <3>1, <3>2 DEF Run
  <2>3. CASE RunReturns
    BY <2>3 DEF RunReturns, CoreInv, AllGone
  <2> QED
    BY <1>4, <2>1, <2>2, <2>3 DEF ThreadStep
<1>5. CASE TaskStep
  <2>1. thread = "run" /\ thread' = thread
    BY <1>5, TasksStayInside DEF TaskStep, EventRun, EventReady, IoRun, TunReady, TimerRun,
         TimerExpire, SessionRun, SessionYield, SessionReady, SessionExpire, Running, Waiting
  <2>2. Live(core) /\ mode \in Cases
    BY <2>1 DEF CoreInv, Live, AliveInv, Shape
  <2>3. Live(core')
    BY <1>5, <2>2, TaskKeeps
  <2> QED
    BY <2>1, <2>3 DEF CoreInv, Live
<1>6. CASE UNCHANGED vars
  BY <1>2, <1>6 DEF vars
<1> QED
  BY <1>3, <1>4, <1>5, <1>6 DEF Next

\* The invariant of the engine holds in every state.
LEMMA CoreInductive == Spec => [](AliveInv /\ CoreInv)
<1>1. Init => CoreInv
  BY IdleTracked DEF Init, CoreInv, AllGone
<1>2. AliveInv /\ CoreInv /\ [Next]_vars => (AliveInv /\ CoreInv)'
  BY AliveNext, CoreNext
<1> QED
  BY <1>1, <1>2, AliveInit, PTL DEF Spec

(* hev_task_wakeup is never called for a task that has left the task       *)
(* system, by a session, the list's eviction, the shutdown or a join: the  *)
(* process is never aborted, for any sessions, limit and order of events.  *)
THEOREM NothingAborts == Spec => []NoAbort
<1>1. CoreInv => NoAbort
  BY DEF CoreInv, Tracked, NoAbort
<1> QED
  BY <1>1, CoreInductive, PTL

(* While there are sessions the timer task runs or sleeps with a timeout:  *)
(* it never waits for a wakeup that came before it waited.                 *)
THEOREM TimerAlwaysServes == Spec => []TimerServes
<1>1. CoreInv => TimerServes
  <2> SUFFICES ASSUME CoreInv, core.set # <<>>, core.run
               PROVE  core.task["timer"] = "running" \/ core.sleeping
    BY DEF TimerServes
  <2>1. thread = "run"
    BY NobodyLeft DEF CoreInv
  <2> QED
    BY <2>1 DEF CoreInv, Timed
<1> QED
  BY <1>1, CoreInductive, PTL

-----------------------------------------------------------------------------
\* The types of what is left.
OuterInv ==
  /\ calls \in [starts : 0 .. Len(mode.wants), stops : 0 .. mode.stops]
  /\ mutex \in Callers \cup {NoCaller}
  /\ thread \in Alive \cup {"none", "dead"}
  /\ fds \in [open : BOOLEAN, byte : BOOLEAN]
  /\ reject \in BOOLEAN

\* The numbers of calls in a case.
LEMMA CaseTypes ==
  ASSUME mode \in Cases
  PROVE  mode.wants \in Seq(BOOLEAN) /\ Len(mode.wants) \in Nat /\ mode.stops \in Nat
<1>1. mode.wants \in Seq(BOOLEAN) /\ mode.stops \in Nat
  BY TunConstants
<1> QED
  BY <1>1

\* The event descriptors are opened, closed, written and read.
LEMMA FdsKeep ==
  ASSUME fds \in [open : BOOLEAN, byte : BOOLEAN],
         \/ fds' = fds
         \/ fds' = [open |-> TRUE, byte |-> FALSE]
         \/ fds' = [open |-> FALSE, byte |-> FALSE]
         \/ fds' = [fds EXCEPT !.byte = FALSE]
         \/ fds' = [fds EXCEPT !.byte = fds.open]
  PROVE  fds' \in [open : BOOLEAN, byte : BOOLEAN]
<1>1. CASE fds' = fds
  BY <1>1
<1>2. CASE fds' = [open |-> TRUE, byte |-> FALSE]
  BY <1>2
<1>3. CASE fds' = [open |-> FALSE, byte |-> FALSE]
  BY <1>3
<1>4. CASE fds' = [fds EXCEPT !.byte = FALSE]
  BY <1>4
<1>5. CASE fds' = [fds EXCEPT !.byte = fds.open]
  BY <1>5
<1> QED
  BY <1>1, <1>2, <1>3, <1>4, <1>5

\* Every step preserves the types of what the callers share.
LEMMA OuterNext == AliveInv /\ OuterInv /\ [Next]_vars => OuterInv'
<1> SUFFICES ASSUME AliveInv, OuterInv, [Next]_vars PROVE OuterInv'
  OBVIOUS
<1>0. /\ mode \in Cases /\ Len(mode.wants) \in Nat /\ mode.stops \in Nat
      /\ pc \in [Callers -> PCs]
      /\ calls \in [starts : 0 .. Len(mode.wants), stops : 0 .. mode.stops]
      /\ fds \in [open : BOOLEAN, byte : BOOLEAN]
  BY CaseTypes DEF AliveInv, Shape, OuterInv
<1>1. mode' = mode
  BY DEF Next, vars, StartCall, StopCall, CallerStep, SetFlags, nativeStart, nativeStop, AwaitFd,
         WriteByte, StopReturn, nativeOnly, ThreadStep, MainInit, TunnelInit, Run, RunReturns, Fini,
         Fini2, ThreadExit, threadOnly, TaskStep, EventRun, EventReady, IoRun, TunReady, TimerRun,
         TimerExpire, SessionRun, SessionYield, SessionReady, SessionExpire, coreOnly
<1>2. ASSUME NEW c \in Callers, StartCall(c) \/ StopCall(c) \/ CallerStep(c) PROVE OuterInv'
  <2>1. calls' \in [starts : 0 .. Len(mode.wants), stops : 0 .. mode.stops]
    <3>1. CASE StartCall(c)
      BY <1>0, <3>1 DEF StartCall
    <3>2. CASE StopCall(c)
      BY <1>0, <3>2 DEF StopCall
    <3>3. CASE CallerStep(c)
      BY <1>0, <3>3 DEF CallerStep, SetFlags, nativeStart, nativeStop, AwaitFd, WriteByte, StopReturn
    <3> QED
      BY <1>2, <3>1, <3>2, <3>3
  <2>2. mutex' \in Callers \cup {NoCaller}
    BY <1>2 DEF OuterInv, StartCall, StopCall, CallerStep, SetFlags, nativeStart, nativeStop, AwaitFd,
                WriteByte, StopReturn
  <2>3. thread' \in Alive \cup {"none", "dead"}
    BY <1>2 DEF OuterInv, StartCall, StopCall, CallerStep, SetFlags, nativeStart, nativeStop, AwaitFd,
                WriteByte, StopReturn, nativeOnly, Alive
  <2>4. fds' = fds \/ fds' = [fds EXCEPT !.byte = fds.open]
    BY <1>2 DEF StartCall, StopCall, CallerStep, SetFlags, nativeStart, nativeStop, AwaitFd,
                WriteByte, StopReturn, nativeOnly
  <2>5. reject' = reject \/ reject' = pc[c].want
    BY <1>2 DEF StartCall, StopCall, CallerStep, SetFlags, nativeStart, nativeStop, AwaitFd,
                WriteByte, StopReturn
  <2>6. reject' \in BOOLEAN
    BY <1>0, <2>5 DEF OuterInv, PCs
  <2> QED
    BY <1>0, <1>1, <2>1, <2>2, <2>3, <2>4, <2>6, FdsKeep DEF OuterInv
<1>3. CASE ThreadStep
  <2>1. calls' = calls /\ mutex' = mutex
    BY <1>3 DEF ThreadStep, MainInit, TunnelInit, Run, RunReturns, Fini, Fini2, ThreadExit,
                threadOnly, jniVars
  <2>2. thread' \in Alive \cup {"none", "dead"}
    BY <1>3 DEF ThreadStep, MainInit, TunnelInit, Run, RunReturns, Fini, Fini2, ThreadExit, Alive
  <2>3. fds' \in {fds, [open |-> TRUE, byte |-> FALSE], [open |-> FALSE, byte |-> FALSE]}
    BY <1>3 DEF ThreadStep, MainInit, TunnelInit, Run, RunReturns, Fini, Fini2, ThreadExit
  <2>4. reject' = reject \/ reject' = FALSE
    BY <1>3 DEF ThreadStep, MainInit, TunnelInit, Run, RunReturns, Fini, Fini2, ThreadExit
  <2>5. reject' \in BOOLEAN
    BY <2>4, Zenon DEF OuterInv
  <2> QED
    BY <1>0, <1>1, <2>1, <2>2, <2>3, <2>5, FdsKeep DEF OuterInv
<1>4. CASE TaskStep
  <2>1. UNCHANGED <<calls, mutex, thread, reject>>
    BY <1>4, TasksStayInside
  <2>2. fds' = fds \/ fds' = [fds EXCEPT !.byte = FALSE]
    BY <1>4 DEF TaskStep, EventRun, EventReady, IoRun, TunReady, TimerRun,
         TimerExpire, SessionRun, SessionYield, SessionReady, SessionExpire, coreOnly
  <2> QED
    BY <1>0, <1>1, <2>1, <2>2, FdsKeep DEF OuterInv
<1>5. CASE UNCHANGED vars
  BY <1>1, <1>5 DEF vars, jniVars, OuterInv
<1> QED
  BY <1>2, <1>3, <1>4, <1>5 DEF Next

\* They hold at the beginning.
LEMMA OuterInit == Init => OuterInv
<1> SUFFICES ASSUME Init PROVE OuterInv
  OBVIOUS
<1>0. mode \in Cases
  BY DEF Init
<1>1. Len(mode.wants) \in Nat /\ mode.stops \in Nat
  BY <1>0, CaseTypes
<1>2. calls \in [starts : 0 .. Len(mode.wants), stops : 0 .. mode.stops]
  BY <1>1 DEF Init
<1>3. fds \in [open : BOOLEAN, byte : BOOLEAN]
  BY DEF Init
<1> QED
  BY <1>2, <1>3 DEF Init, OuterInv

(* session_set holds each session whose task lives once and no other,      *)
(* session_count is its length through insertions, ends and restarts, and  *)
(* no session is left when the engine is torn down.                        *)
THEOREM SessionsAreListed == Spec => []SessionSetExact
<1>1. AliveInv /\ CoreInv /\ OuterInv => SessionSetExact
  <2> SUFFICES ASSUME AliveInv, CoreInv, OuterInv PROVE SessionSetExact
    OBVIOUS
  <2>0. core \in Cores /\ core.set \in Seq(Sessions) /\ IsInjective(core.set) /\ core.count = Len(core.set)
    BY DEF CoreInv, Tracked, Cores
  <2>1. core.count \in 0 .. Len(Conns)
    BY <2>0, SetIsBounded
  <2>2. /\ core.task \in [Tasks -> {"stopped", "running", "waiting"}]
        /\ core.ses \in [Sessions -> [phase : {"none", "new", "connect", "handshake", "splice", "gone"},
                                      zero : BOOLEAN]]
        /\ core.at \in {"read", "io", "timer", "done"}
        /\ {core.run, core.aborted, core.sleeping, core.spin} \subseteq BOOLEAN
    BY <2>0 DEF Cores, States, Sleep
  <2>3. TypeOK
    <3>1. /\ mode \in Cases /\ pc \in [Callers -> PCs] /\ JniShape
      BY DEF AliveInv, Shape
    <3> QED
      BY <2>0, <2>1, <2>2, <3>1 DEF TypeOK, OuterInv, PCs, JniShape
  <2>4. \A s \in Sessions : (core.task[s] # "stopped") = (\E i \in DOMAIN core.set : core.set[i] = s)
    BY DEF CoreInv, Tracked, Range
  <2>5. \A i, j \in DOMAIN core.set : core.set[i] = core.set[j] => i = j
    BY <2>0 DEF IsInjective
  <2>6. thread \in {"fini", "fini2", "exit", "dead"} => core.set = <<>>
    BY NobodyLeft DEF CoreInv
  <2> QED
    BY <2>0, <2>3, <2>4, <2>5, <2>6 DEF SessionSetExact
<1>2. AliveInv /\ CoreInv /\ OuterInv /\ [Next]_vars => OuterInv'
  BY OuterNext
<1> QED
  BY <1>1, <1>2, CoreInductive, OuterInit, PTL DEF Spec
=============================================================================
