--------------------------- MODULE RecoveryProofs ---------------------------
(***************************************************************************)
(* Proofs about Recovery, for every pool, cache, bound and environment.    *)
(***************************************************************************)
EXTENDS Recovery, SeqFilterProofs, TLAPS

ThreadsOK ==
    /\ pc \in [Recs -> RecPcs]
    /\ tunnelActive \in BOOLEAN /\ recovering \in BOOLEAN

-----------------------------------------------------------------------------
(***************************************************************************)
(* No client outlives a stop.  Once the cleanup thread has stopped the     *)
(* client, only a recovery thread that had passed its last check can start *)
(* another one, and that thread is then about to look at tunnelActive.     *)
(***************************************************************************)
StartedIsWatched ==
    ~tunnelActive /\ cleanup # "native" /\ native # "down" => \E r \in Recs : pc[r] = "wait"

ClientInv == ThreadsOK /\ StartedIsWatched

\* Moving one recovery thread to another of its places.
LEMMA GotoType ==
    ASSUME ThreadsOK, NEW r \in Recs, NEW to \in RecPcs, pc' = [pc EXCEPT ![r] = to]
    PROVE  /\ pc' \in [Recs -> RecPcs]
           /\ pc'[r] = to
           /\ \A q \in Recs \ {r} : pc'[q] = pc[q]
BY DEF ThreadsOK

\* A step that touches neither the client, nor the stop, nor a waiting thread.
LEMMA ClientUntouched ==
    ASSUME ClientInv, ThreadsOK',
           UNCHANGED <<native, tunnelActive, cleanup>>,
           \A q \in Recs : pc[q] = "wait" => pc'[q] = "wait"
    PROVE  ClientInv'
BY DEF ClientInv, StartedIsWatched

\* Starting a recovery, from whichever thread, moves no waiting thread.
LEMMA LaunchThreads ==
    ASSUME ThreadsOK, NEW reason, Launch(reason), UNCHANGED tunnelActive
    PROVE  ThreadsOK' /\ \A q \in Recs : pc[q] = "wait" => pc'[q] = "wait"
<1>1. PICK r \in Recs : pc[r] = "idle" /\ recovering' = TRUE /\ pc' = [pc EXCEPT ![r] = "begin"]
  BY DEF Launch
<1>2. "begin" \in RecPcs
  BY DEF RecPcs
<1> QED
  BY <1>1, <1>2, GotoType DEF ThreadsOK

\* A tunnel that has just come up is active, so its client needs no watcher.
LEMMA ClientInit == Init => ClientInv
<1> SUFFICES ASSUME Init PROVE ClientInv
  OBVIOUS
<1>1. tunnelActive = TRUE /\ recovering = FALSE /\ pc = [r \in Recs |-> "idle"]
  BY DEF Init
<1> QED
  BY <1>1 DEF ClientInv, ThreadsOK, StartedIsWatched, RecPcs

\* The recovery thread's own steps.
LEMMA ClientRecStep ==
    ASSUME ClientInv, NEW r \in Recs, RecStep(r) \/ RecStartFails(r) \/ RecBridgeFails(r)
    PROVE  ClientInv'
<1> USE DEF At, Goto
<1>0. ThreadsOK /\ StartedIsWatched
  BY DEF ClientInv
<1>1. ASSUME NEW to \in RecPcs, pc' = [pc EXCEPT ![r] = to], pc[r] # "wait",
             recovering' \in BOOLEAN, UNCHANGED <<native, tunnelActive, cleanup>>
      PROVE  ClientInv'
  <2>1. ThreadsOK'
    BY <1>0, <1>1, GotoType DEF ThreadsOK
  <2>2. \A q \in Recs : pc[q] = "wait" => pc'[q] = "wait"
    BY <1>0, <1>1, GotoType
  <2> QED
    BY <2>1, <2>2, <1>1, ClientUntouched
<1>2. ASSUME NEW to \in RecPcs, pc' = [pc EXCEPT ![r] = to], native' = "down",
             UNCHANGED <<recovering, tunnelActive>>
      PROVE  ClientInv'
  <2>1. ThreadsOK'
    BY <1>0, <1>2, GotoType DEF ThreadsOK
  <2> QED
    BY <2>1, <1>2 DEF ClientInv, StartedIsWatched
<1>3. {"begin", "choose", "check", "start", "wait", "isReady", "bridge", "done", "failed",
       "sched", "post", "finally", "idle"} \subseteq RecPcs
  BY DEF RecPcs
<1>4. recovering \in BOOLEAN
  BY <1>0 DEF ThreadsOK
<1>5. CASE RecDefer(r)
  BY <1>1, <1>3, <1>4, <1>5 DEF RecDefer, pathVars
<1>6. CASE RecBegin(r)
  <2>1. pc' = [pc EXCEPT ![r] = "choose"] /\ native' = "down" /\ UNCHANGED <<recovering, tunnelActive>>
    BY <1>6 DEF RecBegin
  <2> QED
    BY <2>1, <1>2, <1>3
<1>7. CASE RecChoose(r)
  <2>1. /\ pc[r] = "choose" /\ pc' = [pc EXCEPT ![r] = "check"]
        /\ UNCHANGED <<native, tunnelActive, cleanup, recovering>>
    BY <1>7 DEF RecChoose, pathVars
  <2> QED
    BY <2>1, <1>1, <1>3, <1>4
<1>8. CASE RecExhausted(r)
  BY <1>1, <1>3, <1>4, <1>8 DEF RecExhausted, pathVars
<1>9. CASE RecCheck(r)
  BY <1>1, <1>3, <1>4, <1>9 DEF RecCheck, pathVars
<1>10. CASE RecStart(r)
  <2>1. pc' = [pc EXCEPT ![r] = "wait"] /\ UNCHANGED <<recovering, tunnelActive>>
    BY <1>10 DEF RecStart
  <2>2. ThreadsOK' /\ pc'[r] = "wait"
    BY <2>1, <1>0, <1>3, GotoType DEF ThreadsOK
  <2> QED
    BY <2>2 DEF ClientInv, StartedIsWatched
<1>11. CASE RecStartFails(r)
  BY <1>2, <1>3, <1>11 DEF RecStartFails
<1>12. CASE RecPoll(r)
  <2>1. pc' = [pc EXCEPT ![r] = "isReady"] /\ tunnelActive /\ UNCHANGED <<recovering, tunnelActive>>
    BY <1>12 DEF RecPoll
  <2>2. ThreadsOK'
    BY <2>1, <1>0, <1>3, GotoType DEF ThreadsOK
  <2> QED
    BY <2>1, <2>2 DEF ClientInv, StartedIsWatched
<1>13. CASE RecIsReady(r)
  BY <1>1, <1>3, <1>4, <1>13 DEF RecIsReady, pathVars
<1>14. CASE RecNotReady(r)
  BY <1>2, <1>3, <1>14 DEF RecNotReady
<1>15. CASE RecBridge(r)
  BY <1>1, <1>3, <1>4, <1>15 DEF RecBridge
<1>16. CASE RecBridgeFails(r)
  BY <1>1, <1>3, <1>4, <1>16 DEF RecBridgeFails
<1>17. CASE RecDone(r)
  BY <1>1, <1>3, <1>4, <1>17 DEF RecDone, pathVars
<1>18. CASE RecFailed(r)
  BY <1>1, <1>3, <1>4, <1>18 DEF RecFailed, pathVars
<1>19. CASE RecSched(r)
  BY <1>1, <1>3, <1>4, <1>19 DEF RecSched, pathVars
<1>20. CASE RecPost(r)
  BY <1>1, <1>3, <1>4, <1>20 DEF RecPost, pathVars
<1>21. CASE RecFinally(r)
  BY <1>1, <1>3, <1>21 DEF RecFinally, pathVars
<1> QED
  BY <1>5, <1>6, <1>7, <1>8, <1>9, <1>10, <1>11, <1>12, <1>13, <1>14, <1>15, <1>16, <1>17,
     <1>18, <1>19, <1>20, <1>21 DEF RecStep

\* Every other step: the main thread, the cleanup and health threads, the
\* environment.
LEMMA ClientOther ==
    ASSUME ClientInv, Next, ~\E r \in Recs : RecStep(r) \/ RecStartFails(r) \/ RecBridgeFails(r)
    PROVE  ClientInv'
<1>0. ThreadsOK /\ StartedIsWatched
  BY DEF ClientInv
<1>1. ASSUME UNCHANGED <<native, tunnelActive, cleanup, pc>>, recovering' \in BOOLEAN
      PROVE  ClientInv'
  BY <1>0, <1>1 DEF ClientInv, ThreadsOK, StartedIsWatched
<1>2. ASSUME NEW reason, Launch(reason), UNCHANGED <<native, tunnelActive, cleanup>>
      PROVE  ClientInv'
  BY <1>0, <1>2, LaunchThreads, ClientUntouched
<1>3. recovering \in BOOLEAN
  BY <1>0 DEF ThreadsOK
<1>4. CASE TickDown
  <2>1. UNCHANGED <<native, tunnelActive, cleanup>>
    BY <1>4 DEF TickDown
  <2>2. Launch("native_not_running") \/ UNCHANGED <<recovering, pc>>
    BY <1>4 DEF TickDown, recVars
  <2> QED
    BY <2>1, <2>2, <1>1, <1>2, <1>3
<1>5. CASE TickTrouble
  <2>1. UNCHANGED <<native, tunnelActive, cleanup>>
    BY <1>5 DEF TickTrouble, pathVars
  <2>2. \E reason \in Troubles : Launch(reason)
    BY <1>5 DEF TickTrouble
  <2> QED
    BY <2>1, <2>2, <1>2
<1>6. ASSUME NEW slot \in Slots, RetryFires(slot) PROVE ClientInv'
  <2>1. UNCHANGED <<native, tunnelActive, cleanup>>
    BY <1>6 DEF RetryFires, pathVars
  <2>2. Launch(posted[slot]) \/ UNCHANGED <<recovering, pc>>
    BY <1>6 DEF RetryFires, recVars
  <2> QED
    BY <2>1, <2>2, <1>1, <1>2, <1>3
<1>7. CASE Recheck
  <2>1. UNCHANGED <<native, tunnelActive, cleanup>>
    BY <1>7 DEF Recheck, pathVars
  <2>2. Launch("network_changed") \/ UNCHANGED <<recovering, pc>>
    BY <1>7 DEF Recheck, recVars
  <2> QED
    BY <2>1, <2>2, <1>1, <1>2, <1>3
<1>8. CASE HealthCommit
  BY <1>8, <1>2 DEF HealthCommit, pathVars
<1>9. CASE CooldownOver \/ HealthProbe \/ HealthResult \/ HostChanges \/ NetworkChanges
  <2>1. UNCHANGED <<native, tunnelActive, cleanup, pc, recovering>>
    BY <1>9 DEF CooldownOver, HealthProbe, HealthResult, HostChanges, NetworkChanges, pathVars,
                recVars
  <2> QED
    BY <2>1, <1>1, <1>3
<1>10. CASE Stop
  <2>1. tunnelActive' = FALSE /\ cleanup' = "native" /\ UNCHANGED <<recovering, pc>>
    BY <1>10 DEF Stop, recVars
  <2> QED
    BY <2>1, <1>0 DEF ClientInv, ThreadsOK, StartedIsWatched
<1>11. CASE CleanupNative \/ NativeDies
  <2>1. native' = "down" /\ UNCHANGED <<tunnelActive, recovering, pc>>
    BY <1>11 DEF CleanupNative, NativeDies, recVars
  <2> QED
    BY <2>1, <1>0 DEF ClientInv, ThreadsOK, StartedIsWatched
<1>12. CASE CleanupBridge
  <2>1. cleanup = "bridge" /\ UNCHANGED <<native, tunnelActive, recovering, pc>>
    BY <1>12 DEF CleanupBridge, recVars
  <2> QED
    BY <2>1, <1>0 DEF ClientInv, ThreadsOK, StartedIsWatched
<1>13. CASE Start
  <2>1. tunnelActive' = TRUE /\ UNCHANGED <<recovering, pc>>
    BY <1>13 DEF Start, recVars
  <2> QED
    BY <2>1, <1>0 DEF ClientInv, ThreadsOK, StartedIsWatched
<1>14. CASE NativeReady \/ NativeLosesReady
  <2>1. native # "down" /\ UNCHANGED <<tunnelActive, cleanup, recovering, pc>>
    BY <1>14 DEF NativeReady, NativeLosesReady, recVars
  <2> QED
    BY <2>1, <1>0 DEF ClientInv, ThreadsOK, StartedIsWatched
<1> QED
  BY <1>4, <1>5, <1>6, <1>7, <1>8, <1>9, <1>10, <1>11, <1>12, <1>13, <1>14 DEF Next

\* Every step of the threads, the timers, the stop and the environment keeps a
\* client that is up after the cleanup watched.
LEMMA ClientStep == ClientInv /\ [Next]_vars => ClientInv'
<1> SUFFICES ASSUME ClientInv, [Next]_vars PROVE ClientInv'
  OBVIOUS
<1>1. CASE \E r \in Recs : RecStep(r) \/ RecStartFails(r) \/ RecBridgeFails(r)
  BY <1>1, ClientRecStep
<1>2. CASE Next /\ ~\E r \in Recs : RecStep(r) \/ RecStartFails(r) \/ RecBridgeFails(r)
  BY <1>2, ClientOther
<1>3. CASE UNCHANGED vars
  <2>1. UNCHANGED <<native, tunnelActive, cleanup, pc, recovering>>
    BY <1>3 DEF vars, pathVars, recVars
  <2> QED
    BY <2>1 DEF ClientInv, ThreadsOK, StartedIsWatched
<1> QED
  BY <1>1, <1>2, <1>3

\* Whatever a recovery thread, or several, were doing when stopTunnel ran, no
\* native client is running once all of them and the cleanup are through.
THEOREM StopLeavesNoClient == Spec => []NativeDownAfterStop
<1>1. ClientInv => NativeDownAfterStop
  <2> SUFFICES ASSUME ClientInv, Quiet, ~tunnelActive PROVE native = "down"
    BY DEF NativeDownAfterStop
  <2>1. cleanup = "none" /\ \A r \in Recs : pc[r] = "idle"
    BY DEF Quiet, At
  <2> QED
    BY <2>1 DEF ClientInv, StartedIsWatched
<1> QED
  BY <1>1, ClientInit, ClientStep, PTL DEF Spec

-----------------------------------------------------------------------------
(***************************************************************************)
(* One recovery at a time, as long as every caller is the main thread.     *)
(***************************************************************************)
OneRecovery ==
    /\ recovering <=> \E r \in Recs : ~At(r, "idle")
    /\ \A r, q \in Recs : ~At(r, "idle") /\ ~At(q, "idle") => r = q
NoHealthThread == health = [pc |-> "idle", host |-> Pool[1], failures |-> 0]
RecoveryInv == ThreadsOK /\ OneRecovery /\ NoHealthThread

\* At first no recovery runs and the health thread has not begun.
LEMMA RecoveryInit == Init => RecoveryInv
<1> SUFFICES ASSUME Init PROVE RecoveryInv
  OBVIOUS
<1>1. /\ tunnelActive = TRUE /\ recovering = FALSE /\ pc = [r \in Recs |-> "idle"]
      /\ NoHealthThread
  BY DEF Init, NoHealthThread
<1> QED
  BY <1>1 DEF RecoveryInv, ThreadsOK, OneRecovery, At, RecPcs

\* A claim by the main thread, which has just seen `recovering' false.
LEMMA LaunchAlone ==
    ASSUME RecoveryInv, NEW reason, MayRestart, Launch(reason), UNCHANGED <<tunnelActive, health>>
    PROVE  RecoveryInv'
<1>1. PICK r \in Recs : pc[r] = "idle" /\ recovering' = TRUE /\ pc' = [pc EXCEPT ![r] = "begin"]
  BY DEF Launch
<1>2. "begin" \in RecPcs
  BY DEF RecPcs
<1>3. ThreadsOK /\ \A q \in Recs : pc[q] = "idle"
  BY DEF RecoveryInv, OneRecovery, MayRestart, At
<1>4. /\ pc' \in [Recs -> RecPcs]
      /\ pc'[r] = "begin"
      /\ \A q \in Recs \ {r} : pc'[q] = "idle"
  BY <1>1, <1>2, <1>3, GotoType
<1>5. ThreadsOK' /\ NoHealthThread'
  BY <1>1, <1>3, <1>4 DEF ThreadsOK, RecoveryInv, NoHealthThread
<1> QED
  BY <1>1, <1>4, <1>5 DEF RecoveryInv, OneRecovery, At

\* A step within a recovery.
LEMMA RecoveryRecStep ==
    ASSUME RecoveryInv, NEW r \in Recs, RecStep(r) \/ RecStartFails(r) \/ RecBridgeFails(r)
    PROVE  RecoveryInv'
<1> USE DEF At, Goto
<1>0. ThreadsOK /\ OneRecovery /\ NoHealthThread
  BY DEF RecoveryInv
<1>1. ASSUME NEW to \in RecPcs \ {"idle"}, pc[r] # "idle", pc' = [pc EXCEPT ![r] = to],
             UNCHANGED <<recovering, tunnelActive, health>>
      PROVE  RecoveryInv'
  <2>1. /\ pc' \in [Recs -> RecPcs] /\ pc'[r] = to
        /\ \A q \in Recs \ {r} : pc'[q] = pc[q]
    BY <1>0, <1>1, GotoType
  <2>2. \A q \in Recs : pc'[q] = "idle" <=> pc[q] = "idle"
    BY <2>1, <1>1
  <2>3. ThreadsOK' /\ NoHealthThread'
    BY <1>0, <1>1, <2>1 DEF ThreadsOK, NoHealthThread
  <2> QED
    BY <1>0, <1>1, <2>2, <2>3 DEF RecoveryInv, OneRecovery
<1>2. {"choose", "check", "start", "wait", "isReady", "bridge", "done", "failed", "sched", "post",
       "finally"} \subseteq RecPcs \ {"idle"}
  BY DEF RecPcs
<1>3. CASE RecFinally(r)
  <2>1. /\ pc[r] = "finally" /\ pc' = [pc EXCEPT ![r] = "idle"] /\ recovering' = FALSE
        /\ UNCHANGED <<tunnelActive, health>>
    BY <1>3 DEF RecFinally
  <2>2. "idle" \in RecPcs
    BY DEF RecPcs
  <2>3. /\ pc' \in [Recs -> RecPcs]
        /\ \A q \in Recs : pc'[q] = "idle"
    BY <1>0, <2>1, <2>2, GotoType DEF OneRecovery
  <2>4. ThreadsOK' /\ NoHealthThread'
    BY <1>0, <2>1, <2>3 DEF ThreadsOK, NoHealthThread
  <2> QED
    BY <2>1, <2>3, <2>4 DEF RecoveryInv, OneRecovery
<1>4. CASE RecDone(r)
  <2>1. [health EXCEPT !.failures = 0] = health
    BY <1>0 DEF NoHealthThread
  <2>2. /\ pc[r] = "done" /\ pc' = [pc EXCEPT ![r] = "finally"]
        /\ health' = [health EXCEPT !.failures = 0] /\ UNCHANGED <<recovering, tunnelActive>>
    BY <1>4 DEF RecDone
  <2> QED
    BY <2>1, <2>2, <1>1, <1>2
<1>5. CASE RecBegin(r)
  <2>1. /\ pc[r] = "begin" /\ pc' = [pc EXCEPT ![r] = "choose"]
        /\ UNCHANGED <<recovering, tunnelActive, health>>
    BY <1>5 DEF RecBegin
  <2> QED
    BY <2>1, <1>1, <1>2
<1>6. CASE RecChoose(r)
  <2>1. /\ pc[r] = "choose" /\ pc' = [pc EXCEPT ![r] = "check"]
        /\ UNCHANGED <<recovering, tunnelActive, health>>
    BY <1>6 DEF RecChoose
  <2> QED
    BY <2>1, <1>1, <1>2
<1>7. CASE RecDefer(r) \/ RecExhausted(r) \/ RecCheck(r) \/ RecStart(r) \/ RecStartFails(r)
  BY <1>7, <1>1, <1>2 DEF RecDefer, RecExhausted, RecCheck, RecStart, RecStartFails
<1>8. CASE RecPoll(r) \/ RecIsReady(r) \/ RecNotReady(r) \/ RecBridge(r) \/ RecBridgeFails(r)
  BY <1>8, <1>1, <1>2 DEF RecPoll, RecIsReady, RecNotReady, RecBridge, RecBridgeFails
<1>9. CASE RecFailed(r) \/ RecSched(r) \/ RecPost(r)
  BY <1>9, <1>1, <1>2 DEF RecFailed, RecSched, RecPost
<1> QED
  BY <1>3, <1>4, <1>5, <1>6, <1>7, <1>8, <1>9 DEF RecStep

\* Steps outside the recovery threads: those that start a recovery look at
\* `recovering' and set it in one block on the main thread.
LEMMA RecoveryOther ==
    ASSUME ~HealthChecks, RecoveryInv, Next,
           ~\E r \in Recs : RecStep(r) \/ RecStartFails(r) \/ RecBridgeFails(r)
    PROVE  RecoveryInv'
<1>1. ASSUME UNCHANGED <<pc, recovering, health>>, tunnelActive' \in BOOLEAN
      PROVE  RecoveryInv'
  BY <1>1 DEF RecoveryInv, ThreadsOK, OneRecovery, NoHealthThread, At
<1>2. tunnelActive \in BOOLEAN /\ NoHealthThread
  BY DEF RecoveryInv, ThreadsOK
<1>3. CASE TickDown
  <2>1. UNCHANGED <<tunnelActive, health>>
    BY <1>3 DEF TickDown
  <2>2. (MayRestart /\ Launch("native_not_running")) \/ UNCHANGED <<recovering, pc>>
    BY <1>3 DEF TickDown, recVars
  <2> QED
    BY <2>1, <2>2, <1>1, <1>2, LaunchAlone
<1>4. CASE TickTrouble
  <2>1. UNCHANGED <<tunnelActive, health>>
    BY <1>4 DEF TickTrouble
  <2>2. MayRestart /\ \E reason \in Troubles : Launch(reason)
    BY <1>4 DEF TickTrouble
  <2> QED
    BY <2>1, <2>2, LaunchAlone
<1>5. ASSUME NEW slot \in Slots, RetryFires(slot) PROVE RecoveryInv'
  <2>1. UNCHANGED <<tunnelActive, health>>
    BY <1>5 DEF RetryFires
  <2>2. (MayRestart /\ Launch(posted[slot])) \/ UNCHANGED <<recovering, pc>>
    BY <1>5 DEF RetryFires, recVars
  <2> QED
    BY <2>1, <2>2, <1>1, <1>2, LaunchAlone
<1>6. CASE Recheck
  <2>1. UNCHANGED <<tunnelActive, health>>
    BY <1>6 DEF Recheck
  <2>2. (MayRestart /\ Launch("network_changed")) \/ UNCHANGED <<recovering, pc>>
    BY <1>6 DEF Recheck, recVars
  <2> QED
    BY <2>1, <2>2, <1>1, <1>2, LaunchAlone
<1>7. CASE HealthProbe \/ HealthResult \/ HealthCommit
  BY <1>7, <1>2 DEF HealthProbe, HealthResult, HealthCommit, NoHealthThread
<1>8. CASE Start
  <2>1. [health EXCEPT !.failures = 0] = health
    BY <1>2 DEF NoHealthThread
  <2>2. /\ tunnelActive' = TRUE /\ UNCHANGED <<recovering, pc>>
        /\ health' = [health EXCEPT !.failures = 0]
    BY <1>8 DEF Start, recVars
  <2> QED
    BY <2>1, <2>2, <1>1
<1>9. CASE CooldownOver \/ HostChanges \/ NetworkChanges \/ Stop \/ CleanupNative \/ CleanupBridge
  <2>1. UNCHANGED <<pc, recovering, health>> /\ (tunnelActive' = FALSE \/ UNCHANGED tunnelActive)
    BY <1>9 DEF CooldownOver, HostChanges, NetworkChanges, Stop, CleanupNative, CleanupBridge,
                recVars
  <2> QED
    BY <2>1, <1>1, <1>2
<1>10. CASE NativeReady \/ NativeLosesReady \/ NativeDies
  BY <1>10, <1>1, <1>2 DEF NativeReady, NativeLosesReady, NativeDies, recVars
<1> QED
  BY <1>3, <1>4, <1>5, <1>6, <1>7, <1>8, <1>9, <1>10 DEF Next

\* Without the health thread every step keeps the recovery exclusive.
LEMMA RecoveryStep == ~HealthChecks => (RecoveryInv /\ [Next]_vars => RecoveryInv')
<1> SUFFICES ASSUME ~HealthChecks, RecoveryInv, [Next]_vars PROVE RecoveryInv'
  OBVIOUS
<1>1. CASE \E r \in Recs : RecStep(r) \/ RecStartFails(r) \/ RecBridgeFails(r)
  BY <1>1, RecoveryRecStep
<1>2. CASE Next /\ ~\E r \in Recs : RecStep(r) \/ RecStartFails(r) \/ RecBridgeFails(r)
  BY <1>2, RecoveryOther
<1>3. CASE UNCHANGED vars
  <2>1. UNCHANGED <<pc, recovering, health, tunnelActive>>
    BY <1>3 DEF vars, recVars
  <2> QED
    BY <2>1 DEF RecoveryInv, ThreadsOK, OneRecovery, NoHealthThread, At
<1> QED
  BY <1>1, <1>2, <1>3

\* A reason either condemns the current resolver or keeps it, never both: a
\* resolver just condemned is not the one the recovery goes on with.
THEOREM NeverRotateAndReuse ==
    ASSUME NEW reason, NEW noProgress, NEW has, NEW bad, Rotate(reason, noProgress, has, bad)
    PROVE  ~ReuseCurrent(reason, noProgress, has, bad)
BY DEF Rotate, ReuseCurrent, RetryCurrentFirst, NativeNoProgress, Silence, FastRetry, FastPath,
       BridgeFailures, TrafficTrouble, BridgeTrouble

-----------------------------------------------------------------------------
(***************************************************************************)
(* Which resolver is chosen (ResolverChoice), whatever the lists are.      *)
(***************************************************************************)

\* A sequence is one of its own members.
LEMMA OfItsMembers ==
    ASSUME NEW T, NEW s \in Seq(T)
    PROVE  s \in Seq(ToSet(s)) /\ ToSet(s) \subseteq T
<1>1. ToSet(s) = Range(s)
  BY DEF ToSet, Range
<1> QED
  BY <1>1, RangeOfSeq, SeqOfRange

\* Only keeps members of the set, and is empty only if there was none.
LEMMA OnlyGives ==
    ASSUME NEW T, NEW s \in Seq(T), NEW S
    PROVE  /\ Only(s, S) \in Seq(ToSet(s) \cap S)
           /\ Only(s, S) \in Seq(T)
           /\ Only(s, S) = << >> => ToSet(s) \cap S = {}
<1> DEFINE M == ToSet(s)
<1>1. s \in Seq(M) /\ M \subseteq T
  BY OfItsMembers
<1>2. M \ (M \ S) = M \cap S
  OBVIOUS
<1>3. Strip(s, M \ S) \in Seq(M \cap S)
  <2>1. Strip(s, M \ S) \in Seq(M \ (M \ S))
    BY <1>1, StripType
  <2> QED
    BY <1>2, <2>1
<1>4. ASSUME Strip(s, M \ S) = << >> PROVE M \cap S = {}
  <2>1. \A i \in 1 .. Len(s) : s[i] \in M \ S
    BY <1>4, StripNothing
  <2>2. DOMAIN s = 1 .. Len(s)
    BY LenProperties
  <2> QED
    BY <2>1, <2>2 DEF ToSet
<1>5. M \cap S \subseteq T
  BY <1>1
<1>6. Strip(s, M \ S) \in Seq(T)
  BY <1>3, <1>5, SeqMonotonic
<1> QED
  BY <1>3, <1>4, <1>6 DEF Only

\* Then keeps the first of its first sequence in front.
LEMMA ThenGives ==
    ASSUME NEW T, NEW a \in Seq(T), NEW b \in Seq(T)
    PROVE  /\ Then(a, b) \in Seq(T)
           /\ a # << >> => Then(a, b) # << >> /\ Head(Then(a, b)) = Head(a)
<1> DEFINE c == Strip(b, ToSet(a))
           d == a \o c
<1>1. c \in Seq(T)
  BY StripType
<1> HIDE DEF c
<1>2. /\ d \in Seq(T) /\ Len(d) = Len(a) + Len(c)
      /\ \A i \in 1 .. Len(a) : d[i] = a[i]
      /\ Len(a) \in Nat /\ Len(c) \in Nat
  BY <1>1, ConcatProperties, LenProperties
<1> HIDE DEF d
<1>3. ASSUME a # << >> PROVE d # << >> /\ Head(d) = Head(a)
  <2>1. Len(a) > 0
    BY <1>2, <1>3, EmptySeq
  <2>2. Len(d) > 0 /\ d[1] = a[1]
    BY <1>2, <2>1
  <2> QED
    BY <1>2, <1>3, <2>2, HeadTailProperties, EmptySeq
<1>4. Then(a, b) = d
  BY DEF Then, c, d
<1> QED
  BY <1>2, <1>3, <1>4

\* The cut to MaxHosts (.take(8)) keeps the first.
LEMMA TakeGives ==
    ASSUME NEW T, NEW s \in Seq(T), s # << >>
    PROVE  Take(s) \in Seq(T) /\ Take(s) # << >> /\ Head(Take(s)) = Head(s)
<1> DEFINE n == Min({8, Len(s)})
           t == SubSeq(s, 1, n)
<1>1. Len(s) \in Nat /\ Len(s) > 0 /\ Head(s) = s[1]
  BY EmptySeq, LenProperties, HeadTailProperties
<1>2. n \in 1 .. Len(s)
  <2>1. \E x \in {8, Len(s)} : \A y \in {8, Len(s)} : x <= y
    BY <1>1
  <2>2. n \in {8, Len(s)} /\ \A y \in {8, Len(s)} : n <= y
    BY <2>1 DEF Min
  <2> QED
    BY <1>1, <2>2
<1> HIDE DEF n
<1>3. t \in Seq(T) /\ Len(t) = n /\ t[1] = s[1]
  <2>1. 1 \in 1 .. Len(s) + 1 /\ n \in 0 .. Len(s)
    BY <1>1, <1>2
  <2>2. \A i \in 1 .. Len(s) : s[i] \in T
    BY ElementOfSeq
  <2> QED
    BY <1>1, <1>2, <2>1, <2>2, SubSeqProperties
<1> HIDE DEF t
<1>4. Take(s) = t
  BY DEF Take, MaxHosts, n, t
<1>5. t # << >> /\ Head(t) = t[1]
  BY <1>2, <1>3, EmptySeq, HeadTailProperties
<1> QED
  BY <1>1, <1>3, <1>4, <1>5

\* The least of up to five candidates.
LEMMA LeastHit ==
    ASSUME NEW S \in SUBSET (1 .. 5), S # {}
    PROVE  Min(S) \in S /\ \A y \in S : Min(S) <= y
<1>1. \E x \in S : \A y \in S : x <= y
  <2>1. CASE 1 \in S
    BY <2>1
  <2>2. CASE 1 \notin S /\ 2 \in S
    BY <2>2
  <2>3. CASE 1 \notin S /\ 2 \notin S /\ 3 \in S
    BY <2>3
  <2>4. CASE 1 \notin S /\ 2 \notin S /\ 3 \notin S /\ 4 \in S
    BY <2>4
  <2>5. CASE 1 \notin S /\ 2 \notin S /\ 3 \notin S /\ 4 \notin S
    <3>1. \A y \in S : y = 5
      BY <2>5
    <3>2. PICK x : x \in S
      OBVIOUS
    <3> QED
      BY <3>1, <3>2
  <2> QED
    BY <2>1, <2>2, <2>3, <2>4, <2>5
<1> QED
  BY <1>1 DEF Min

\* The lists are sequences of the hosts there are.
LEMMA PoolFacts ==
    /\ Pool \in Seq(Hosts) /\ Local \in Seq(Hosts) /\ Pool # << >>
    /\ Cached \in Seq(ToSet(Cached))
<1>1. ToSet(Pool) \subseteq Hosts /\ ToSet(Local) \subseteq Hosts
  BY DEF Hosts
<1> QED
  BY <1>1, PoolAssumption, SeqMonotonic

\* chooseFast returns a host, and a condemned one only when every host of the
\* pool that answers is condemned.
LEMMA ChooseFastGives ==
    ASSUME NEW alive, NEW skip
    PROVE  /\ ChooseFast(alive, skip) \in Seq(Hosts)
           /\ ChooseFast(alive, skip) # << >>
           /\ Head(ChooseFast(alive, skip)) \in skip => alive \cap ToSet(Pool) \subseteq skip
<1> DEFINE warm  == CacheOrder((alive \cap ToSet(Pool)) \ skip)
           fresh == Only(Pool, alive \ skip)
           any   == Only(Pool, alive)
           blind == Only(Pool, Hosts \ skip)
           lists == << warm, fresh, any, blind, Pool >>
           hits  == {i \in DOMAIN lists : lists[i] # << >>}
           m     == Min(hits)
<1>1. warm \in Seq(Hosts \ skip)
  <2> DEFINE S == (alive \cap ToSet(Pool)) \ skip
             a == Only(Cached, S \cap ToSet(Local))
             b == Only(Cached, S \ ToSet(Local))
  <2>1. /\ a \in Seq(ToSet(Cached) \cap (S \cap ToSet(Local)))
        /\ b \in Seq(ToSet(Cached) \cap (S \ ToSet(Local)))
    BY PoolFacts, OnlyGives, SMTT(60)
  <2>2. S \subseteq Hosts \ skip
    BY DEF Hosts
  <2>3. /\ ToSet(Cached) \cap (S \cap ToSet(Local)) \subseteq Hosts \ skip
        /\ ToSet(Cached) \cap (S \ ToSet(Local)) \subseteq Hosts \ skip
    BY <2>2
  <2>4. a \in Seq(Hosts \ skip) /\ b \in Seq(Hosts \ skip)
    BY <2>1, <2>3, SeqMonotonic
  <2>5. warm = a \o b
    BY DEF CacheOrder
  <2> HIDE DEF a, b, warm
  <2> QED
    BY <2>4, <2>5, ConcatProperties
<1>2. fresh \in Seq(Hosts \ skip) /\ (fresh = << >> => alive \cap ToSet(Pool) \subseteq skip)
  <2>1. ToSet(Pool) \cap (alive \ skip) \subseteq Hosts \ skip
    BY DEF Hosts
  <2>2. /\ fresh \in Seq(ToSet(Pool) \cap (alive \ skip))
        /\ fresh = << >> => ToSet(Pool) \cap (alive \ skip) = {}
    BY PoolFacts, OnlyGives
  <2> QED
    BY <2>1, <2>2, SeqMonotonic
<1>3. any \in Seq(Hosts) /\ blind \in Seq(Hosts)
  BY PoolFacts, OnlyGives
<1>4. warm \in Seq(Hosts) /\ fresh \in Seq(Hosts)
  <2>1. Hosts \ skip \subseteq Hosts
    OBVIOUS
  <2> QED
    BY <1>1, <1>2, <2>1, SeqMonotonic
<1> HIDE DEF warm, fresh, any, blind
<1>5. /\ DOMAIN lists = 1 .. 5
      /\ lists[1] = warm /\ lists[2] = fresh /\ lists[3] = any /\ lists[4] = blind
      /\ lists[5] = Pool
  OBVIOUS
<1>6. \A i \in 1 .. 5 : lists[i] \in Seq(Hosts)
  BY <1>3, <1>4, PoolFacts
<1> HIDE DEF lists
<1>7. hits \in SUBSET (1 .. 5) /\ 5 \in hits
  BY <1>5, PoolFacts
<1>8. m \in hits /\ \A y \in hits : m <= y
  BY <1>7, LeastHit
<1>9. ChooseFast(alive, skip) = << Head(lists[m]) >>
  <2>1. ChooseFast(alive, skip) = FirstOf(lists)
    BY DEF ChooseFast, lists, warm, fresh, any, blind
  <2> QED
    BY <1>7, <2>1 DEF FirstOf
<1>10. m \in 1 .. 5 /\ lists[m] \in Seq(Hosts) /\ lists[m] # << >>
  BY <1>5, <1>6, <1>8
<1> HIDE DEF m
<1>11. Head(lists[m]) \in Hosts
  BY <1>10, HeadTailProperties
<1>12. /\ << Head(lists[m]) >> \in Seq(Hosts)
       /\ << Head(lists[m]) >> # << >>
       /\ Head(<< Head(lists[m]) >>) = Head(lists[m])
  BY <1>11
<1>13. ASSUME Head(lists[m]) \in skip PROVE alive \cap ToSet(Pool) \subseteq skip
  <2>1. m # 1
    BY <1>1, <1>5, <1>10, <1>13, HeadTailProperties
  <2>2. m # 2
    BY <1>2, <1>5, <1>10, <1>13, HeadTailProperties
  <2>3. 2 \notin hits
    <3> HIDE DEF hits
    <3> QED
      BY <1>8, <1>10, <2>1, <2>2
  <2>4. fresh = << >>
    BY <1>5, <2>3
  <2> QED
    BY <1>2, <2>4
<1> QED
  BY <1>9, <1>12, <1>13

\* quickAutoRecoveryChoice returns nothing, or hosts of which the first is not
\* condemned.
LEMMA QuickChoiceGives ==
    ASSUME NEW cur \in Seq(Hosts), NEW bad
    PROVE  /\ QuickChoice(cur, bad) \in Seq(Hosts)
           /\ QuickChoice(cur, bad) # NoChoice => Head(QuickChoice(cur, bad)) \notin bad
<1> DEFINE fresh     == Hosts \ bad
           others    == Only(Local, fresh \ {Head(cur)})
           used      == Only(cur, fresh)
           preferred == Then(others, used)
           ordered   == Then(Then(preferred, Local), cur)
<1>1. others \in Seq(fresh) /\ used \in Seq(fresh)
  <2>1. /\ ToSet(Local) \cap (fresh \ {Head(cur)}) \subseteq fresh
        /\ ToSet(cur) \cap fresh \subseteq fresh
    OBVIOUS
  <2>2. others \in Seq(ToSet(Local) \cap (fresh \ {Head(cur)})) /\ used \in Seq(ToSet(cur) \cap fresh)
    BY PoolFacts, OnlyGives
  <2> QED
    BY <2>1, <2>2, SeqMonotonic
<1> HIDE DEF others, used
<1>2. preferred \in Seq(fresh)
  BY <1>1, ThenGives
<1>3. preferred \in Seq(Hosts)
  BY <1>2, SeqMonotonic
<1> HIDE DEF preferred
<1>4. CASE preferred = << >>
  <2>1. QuickChoice(cur, bad) = << >>
    BY <1>4 DEF QuickChoice, NoChoice, preferred, others, used
  <2> QED
    BY <2>1, EmptySeq DEF NoChoice
<1>5. CASE preferred # << >>
  <2>0. QuickChoice(cur, bad) = Take(ordered)
    BY <1>5 DEF QuickChoice, preferred, others, used
  <2>1. /\ Then(preferred, Local) \in Seq(Hosts) /\ Then(preferred, Local) # << >>
        /\ Head(Then(preferred, Local)) = Head(preferred)
    BY <1>3, <1>5, PoolFacts, ThenGives
  <2>2. ordered \in Seq(Hosts) /\ ordered # << >> /\ Head(ordered) = Head(preferred)
    BY <2>1, ThenGives
  <2>3. Head(preferred) \in fresh
    BY <1>2, <1>5, HeadTailProperties
  <2> HIDE DEF ordered
  <2> QED
    BY <2>0, <2>2, <2>3, TakeGives
<1> QED
  BY <1>4, <1>5

-----------------------------------------------------------------------------
(***************************************************************************)
(* One scheduled retry.  recoveryRetryPending names the runnable in the    *)
(* queue whenever there is one, and a thread that is about to post has     *)
(* emptied the queue.  Along with it goes the type of every variable: a    *)
(* thread that is about to use its choice has one, and one that is going   *)
(* to keep the resolver has forgiven all of them.                          *)
(***************************************************************************)
QueueOK ==
    /\ posted \in [Slots -> Reasons \cup {""}] /\ pending \in {0} \cup Slots
    /\ \A i \in Slots : posted[i] # "" => pending = i
    /\ \A r \in Recs : pc[r] = "post" => \A i \in Slots : posted[i] = ""

Jobs == [reason : Reasons \cup {""}, auto : BOOLEAN, reuse : BOOLEAN, choice : Seq(Hosts)]
Armed == {"check", "start", "wait", "isReady"}

ChoiceOK ==
    /\ current \in Seq(Hosts) /\ serving \in Seq(Hosts) /\ failed \in SUBSET Hosts
    /\ job \in [Recs -> Jobs]
    /\ \A r \in Recs : pc[r] \in Armed => job[r].choice # << >>
    /\ \A r \in Recs : pc[r] = "choose" /\ job[r].reuse => failed = {}

EnvOK ==
    /\ cooling \in BOOLEAN /\ bridge \in BOOLEAN
    /\ network \in BOOLEAN /\ changed \in BOOLEAN /\ recheck \in BOOLEAN
    /\ native \in {"down", "starting", "ready"} /\ cleanup \in {"none", "native", "bridge"}
    /\ host \in [Hosts -> HostStates] /\ faults \in 0 .. MaxFaults /\ lives \in 1 .. MaxLives

RetryInv == RecoveryInv /\ QueueOK /\ ChoiceOK /\ EnvOK

\* The parts of the invariant.
LEMMA InvParts == RetryInv => ThreadsOK /\ OneRecovery /\ NoHealthThread /\ QueueOK /\ ChoiceOK /\ EnvOK
BY DEF RetryInv, RecoveryInv

\* The bounds are numbers.
LEMMA Bounds == MaxFaults \in Nat /\ MaxLives \in Nat \ {0} /\ MaxPosted \in Nat \ {0}
BY SettingsAssumption

-----------------------------------------------------------------------------
\* Cancelling the scheduled retry empties the queue.
LEMMA QueueEmptied ==
    ASSUME QueueOK, posted' = Unpost(pending), pending' \in {0} \cup Slots
    PROVE  QueueOK' /\ \A i \in Slots : posted'[i] = ""
<1>1. \A i \in Slots : posted'[i] = ""
  BY DEF QueueOK, Unpost
<1>2. posted' \in [Slots -> Reasons \cup {""}]
  BY DEF QueueOK, Unpost
<1> QED
  BY <1>1, <1>2 DEF QueueOK

\* cancelRecoveryRetry leaves no retry behind.
LEMMA QueueCancelled ==
    ASSUME QueueOK, CancelRetry
    PROVE  QueueOK'
BY QueueEmptied DEF CancelRetry

\* The queue stays as it is when nobody posts and nobody comes to a post.
LEMMA QueueUntouched ==
    ASSUME QueueOK, UNCHANGED retryVars, \A q \in Recs : pc'[q] = "post" => pc[q] = "post"
    PROVE  QueueOK'
BY DEF QueueOK, retryVars

\* A step of the recovery thread posts a retry only after the earlier one was
\* cancelled.
LEMMA QueueRecStep ==
    ASSUME RetryInv, NEW r \in Recs, RecStep(r) \/ RecStartFails(r) \/ RecBridgeFails(r)
    PROVE  QueueOK'
<1> USE DEF At, Goto
<1>0. ThreadsOK /\ OneRecovery /\ QueueOK /\ ChoiceOK
  BY InvParts
<1>1. ASSUME NEW to \in RecPcs \ {"post"}, pc' = [pc EXCEPT ![r] = to], UNCHANGED retryVars
      PROVE  QueueOK'
  <2>1. \A q \in Recs : pc'[q] = "post" => pc[q] = "post"
    BY <1>0, <1>1, GotoType
  <2> QED
    BY <1>0, <1>1, <2>1, QueueUntouched
<1>2. {"choose", "check", "start", "wait", "isReady", "bridge", "done", "failed", "sched",
       "finally", "idle"} \subseteq RecPcs \ {"post"}
  BY DEF RecPcs
<1>3. CASE RecDone(r)
  BY <1>0, <1>3, QueueCancelled DEF RecDone
<1>4. CASE RecBegin(r)
  <2>1. pc' = [pc EXCEPT ![r] = "choose"] /\ UNCHANGED retryVars
    BY <1>4 DEF RecBegin
  <2> QED
    BY <2>1, <1>1, <1>2
<1>5. CASE RecChoose(r)
  <2>1. pc' = [pc EXCEPT ![r] = "check"] /\ UNCHANGED retryVars
    BY <1>5 DEF RecChoose
  <2> QED
    BY <2>1, <1>1, <1>2
<1>6. CASE RecSched(r)
  <2>1. CASE tunnelActive
    <3>1. posted' = Unpost(pending) /\ pending' = pending
      BY <1>6, <2>1 DEF RecSched
    <3> QED
      BY <1>0, <3>1, QueueEmptied DEF QueueOK
  <2>2. CASE ~tunnelActive
    <3>1. pc' = [pc EXCEPT ![r] = "finally"] /\ UNCHANGED retryVars
      BY <1>6, <2>2 DEF RecSched, retryVars
    <3> QED
      BY <3>1, <1>1, <1>2
  <2> QED
    BY <2>1, <2>2
<1>7. CASE RecPost(r)
  <2>1. PICK slot \in Slots : posted' = [posted EXCEPT ![slot] = job[r].reason] /\ pending' = slot
    BY <1>7 DEF RecPost
  <2>2. pc[r] = "post" /\ pc' = [pc EXCEPT ![r] = "finally"]
    BY <1>7 DEF RecPost
  <2>3. \A i \in Slots : posted[i] = ""
    BY <1>0, <2>2 DEF QueueOK
  <2>4. job[r].reason \in Reasons \cup {""}
    BY <1>0 DEF ChoiceOK, Jobs
  <2>5. \A q \in Recs : pc'[q] # "post"
    BY <1>0, <1>2, <2>2, GotoType DEF OneRecovery
  <2>6. posted' \in [Slots -> Reasons \cup {""}] /\ \A i \in Slots : posted'[i] # "" => i = slot
    BY <1>0, <2>1, <2>3, <2>4 DEF QueueOK
  <2> QED
    BY <2>1, <2>5, <2>6 DEF QueueOK
<1>8. CASE RecDefer(r) \/ RecExhausted(r) \/ RecCheck(r) \/ RecStart(r) \/ RecStartFails(r)
  BY <1>8, <1>1, <1>2 DEF RecDefer, RecExhausted, RecCheck, RecStart, RecStartFails
<1>9. CASE RecPoll(r) \/ RecIsReady(r) \/ RecNotReady(r) \/ RecBridge(r) \/ RecBridgeFails(r)
  BY <1>9, <1>1, <1>2 DEF RecPoll, RecIsReady, RecNotReady, RecBridge, RecBridgeFails
<1>10. CASE RecFailed(r) \/ RecFinally(r)
  BY <1>10, <1>1, <1>2 DEF RecFailed, RecFinally
<1> QED
  BY <1>3, <1>4, <1>5, <1>6, <1>7, <1>8, <1>9, <1>10 DEF RecStep

\* Every other step cancels, takes or leaves the retry that is posted.
LEMMA QueueOther ==
    ASSUME RetryInv, Next,
           ~\E r \in Recs : RecStep(r) \/ RecStartFails(r) \/ RecBridgeFails(r)
    PROVE  QueueOK'
<1>0. ThreadsOK /\ QueueOK
  BY InvParts
<1>1. ASSUME UNCHANGED <<pc, retryVars>> PROVE QueueOK'
  BY <1>0, <1>1, QueueUntouched
<1>2. CASE TickDown
  <2>1. CancelRetry \/ UNCHANGED <<pc, retryVars>>
    BY <1>2 DEF TickDown, recVars
  <2> QED
    BY <1>0, <1>1, <2>1, QueueCancelled
<1>3. CASE TickTrouble
  BY <1>0, <1>3, QueueCancelled DEF TickTrouble
<1>4. ASSUME NEW slot \in Slots, RetryFires(slot) PROVE QueueOK'
  <2>1. pending = slot
    BY <1>0, <1>4 DEF RetryFires, QueueOK
  <2>2. CASE posted' = Unpost(slot) /\ pending' = 0
    BY <1>0, <2>1, <2>2, QueueEmptied
  <2>3. CASE posted' = posted /\ pending' = slot /\ pc' = pc
    BY <1>1, <2>1, <2>3 DEF retryVars
  <2> QED
    BY <1>4, <2>2, <2>3 DEF RetryFires, recVars
<1>5. CASE Recheck
  <2>1. CancelRetry \/ UNCHANGED <<pc, retryVars>>
    BY <1>5 DEF Recheck, recVars
  <2> QED
    BY <1>0, <1>1, <2>1, QueueCancelled
<1>6. CASE Stop \/ HealthCommit
  BY <1>0, <1>6, QueueCancelled DEF Stop, HealthCommit
<1>7. CASE CooldownOver \/ CleanupNative \/ CleanupBridge \/ Start \/ HealthProbe \/ HealthResult
  BY <1>1, <1>7 DEF CooldownOver, CleanupNative, CleanupBridge, Start, HealthProbe, HealthResult,
                    recVars
<1>8. CASE NativeReady \/ NativeLosesReady \/ NativeDies \/ HostChanges \/ NetworkChanges
  BY <1>1, <1>8 DEF NativeReady, NativeLosesReady, NativeDies, HostChanges, NetworkChanges, recVars
<1> QED
  BY <1>2, <1>3, <1>4, <1>5, <1>6, <1>7, <1>8 DEF Next

-----------------------------------------------------------------------------
\* A thread that has just been created, and one that is gone.
LEMMA NoJobTypes ==
    /\ NoJob \in Jobs
    /\ \A reason \in Reasons \cup {""} : [NoJob EXCEPT !.reason = reason] \in Jobs
BY EmptySeq DEF Jobs, NoJob, NoChoice

\* A move of one thread that changes no resolver.
LEMMA ChoiceMoved ==
    ASSUME ChoiceOK, ThreadsOK, NEW r \in Recs, NEW to \in RecPcs \ {"choose"},
           pc' = [pc EXCEPT ![r] = to], to \in Armed => job[r].choice # << >>,
           UNCHANGED <<job, current, serving, failed>>
    PROVE  ChoiceOK'
<1>1. pc'[r] = to /\ \A q \in Recs \ {r} : pc'[q] = pc[q]
  BY GotoType
<1> QED
  BY <1>1 DEF ChoiceOK

\* The choice stays right when nothing it depends on changes.
LEMMA ChoiceUntouched ==
    ASSUME ChoiceOK, UNCHANGED <<pc, job, current, serving, failed>>
    PROVE  ChoiceOK'
BY DEF ChoiceOK

\* A new recovery begins without a choice.
LEMMA ChoiceLaunch ==
    ASSUME ChoiceOK, ThreadsOK, NEW reason \in Reasons \cup {""}, Launch(reason),
           UNCHANGED <<current, serving, failed>>
    PROVE  ChoiceOK'
<1>1. PICK r \in Recs : /\ pc' = [pc EXCEPT ![r] = "begin"]
                        /\ job' = [job EXCEPT ![r] = [NoJob EXCEPT !.reason = reason]]
  BY DEF Launch
<1>2. "begin" \in RecPcs /\ "begin" \notin Armed
  BY DEF RecPcs, Armed
<1>3. pc'[r] = "begin" /\ \A q \in Recs \ {r} : pc'[q] = pc[q]
  BY <1>1, <1>2, GotoType
<1>4. [NoJob EXCEPT !.reason = reason] \in Jobs
  BY NoJobTypes
<1>5. job' \in [Recs -> Jobs] /\ \A q \in Recs \ {r} : job'[q] = job[q]
  BY <1>1, <1>4 DEF ChoiceOK
<1> QED
  BY <1>2, <1>3, <1>5 DEF ChoiceOK

\* The classification: a thread that keeps the resolver has forgiven all.
LEMMA ChoiceBegin ==
    ASSUME RetryInv, NEW r \in Recs, RecBegin(r)
    PROVE  ChoiceOK'
<1>0. ThreadsOK /\ OneRecovery /\ ChoiceOK
  BY InvParts
<1> DEFINE has == current # NoChoice
           bad == has /\ Head(current) \in failed
           reason == job[r].reason
<1>1. PICK np \in NoProgress :
        /\ failed' = IF ~Rotate(reason, np, has, bad) THEN {}
                     ELSE IF has THEN failed \cup {Head(current)} ELSE failed
        /\ pc' = [pc EXCEPT ![r] = "choose"]
        /\ job' = [job EXCEPT ![r].auto = AutoFast(reason, has),
                              ![r].reuse = ReuseCurrent(reason, np, has, bad)]
  BY DEF RecBegin
<1>2. pc[r] = "begin" /\ UNCHANGED <<current, serving>>
  BY DEF RecBegin, At
<1> DEFINE a == AutoFast(reason, has)
           u == ReuseCurrent(reason, np, has, bad)
           w == Rotate(reason, np, has, bad)
<1>3. a \in BOOLEAN
  BY Zenon DEF AutoFast
<1>4. u \in BOOLEAN
  BY Zenon DEF ReuseCurrent
<1>5. u => ~w
  BY NeverRotateAndReuse
<1>6. has => Head(current) \in Hosts
  BY <1>0, HeadTailProperties DEF ChoiceOK, NoChoice
<1>7. failed' \in SUBSET Hosts /\ (u => failed' = {})
  <2>1. failed' = {} \/ failed' = failed \/ (has /\ failed' = failed \cup {Head(current)})
    BY <1>1
  <2>2. u => failed' = {}
    BY <1>1, <1>5
  <2> QED
    BY <1>0, <1>6, <2>1, <2>2 DEF ChoiceOK
<1> HIDE DEF a, u, has, bad, reason
<1>8. job' = [job EXCEPT ![r].auto = a, ![r].reuse = u]
  BY <1>1 DEF a, u
<1>9. /\ job'[r] = [job[r] EXCEPT !.auto = a, !.reuse = u]
      /\ \A q \in Recs \ {r} : job'[q] = job[q]
      /\ DOMAIN job' = Recs /\ job' = [q \in Recs |-> job'[q]]
  BY <1>0, <1>8 DEF ChoiceOK
<1>10. job'[r] \in Jobs /\ job'[r].reuse = u /\ job'[r].choice = job[r].choice
  <2>1. job[r] \in Jobs
    BY <1>0 DEF ChoiceOK
  <2> QED
    BY <1>3, <1>4, <1>9, <2>1 DEF Jobs
<1>11. job' \in [Recs -> Jobs]
  BY <1>0, <1>9, <1>10 DEF ChoiceOK
<1>12. "choose" \in RecPcs /\ "choose" \notin Armed
  BY DEF RecPcs, Armed
<1>13. pc'[r] = "choose" /\ \A q \in Recs \ {r} : pc'[q] = "idle"
  <2>1. \A q \in Recs \ {r} : pc[q] = "idle"
    BY <1>0, <1>2 DEF OneRecovery, At
  <2> QED
    BY <1>0, <1>1, <1>12, <2>1, GotoType
<1>14. /\ \A q \in Recs : pc'[q] \in Armed => job'[q].choice # << >>
       /\ \A q \in Recs : pc'[q] = "choose" /\ job'[q].reuse => failed' = {}
  BY <1>7, <1>10, <1>12, <1>13 DEF Armed
<1> QED
  BY <1>0, <1>2, <1>7, <1>11, <1>14 DEF ChoiceOK

\* What a recovery chooses.
LEMMA ChosenGives ==
    ASSUME ChoiceOK, NEW r \in Recs
    PROVE  Chosen(r) \in Seq(Hosts) /\ Chosen(r) # << >>
<1>1. Quick(r) \in Seq(Hosts)
  BY QuickChoiceGives, EmptySeq DEF Quick, ChoiceOK, NoChoice
<1>2. \A S : ChooseFast(Alive, S) \in Seq(Hosts) /\ ChooseFast(Alive, S) # << >>
  BY ChooseFastGives
<1>3. current \in Seq(Hosts)
  BY DEF ChoiceOK
<1> QED
  BY <1>1, <1>2, <1>3 DEF Chosen, NoChoice

\* RecChoose leaves a choice of known hosts.
LEMMA ChoiceChoose ==
    ASSUME RetryInv, NEW r \in Recs, RecChoose(r)
    PROVE  ChoiceOK'
<1>0. ThreadsOK /\ OneRecovery /\ ChoiceOK
  BY InvParts
<1> DEFINE c == Chosen(r)
<1>1. /\ current' = c /\ job' = [job EXCEPT ![r].choice = c]
      /\ pc' = [pc EXCEPT ![r] = "check"] /\ serving' = serving
      /\ failed' = {} \/ failed' = failed
  BY DEF RecChoose, pathVars
<1>2. c \in Seq(Hosts) /\ c # << >>
  BY <1>0, ChosenGives
<1> HIDE DEF c
<1>3. /\ job'[r] = [job[r] EXCEPT !.choice = c]
      /\ \A q \in Recs \ {r} : job'[q] = job[q]
      /\ DOMAIN job' = Recs /\ job' = [q \in Recs |-> job'[q]]
  BY <1>0, <1>1 DEF ChoiceOK
<1>4. job'[r] \in Jobs /\ job'[r].choice = c
  <2>1. job[r] \in Jobs
    BY <1>0 DEF ChoiceOK
  <2> QED
    BY <1>2, <1>3, <2>1 DEF Jobs
<1>5. job' \in [Recs -> Jobs]
  BY <1>0, <1>3, <1>4 DEF ChoiceOK
<1>6. "check" \in RecPcs
  BY DEF RecPcs
<1>7. pc'[r] = "check" /\ \A q \in Recs \ {r} : pc'[q] = pc[q]
  BY <1>0, <1>1, <1>6, GotoType
<1>8. /\ \A q \in Recs : pc'[q] \in Armed => job'[q].choice # << >>
      /\ \A q \in Recs : pc'[q] = "choose" /\ job'[q].reuse => failed' = {}
  BY <1>0, <1>1, <1>2, <1>3, <1>4, <1>7 DEF ChoiceOK
<1> QED
  BY <1>0, <1>1, <1>2, <1>5, <1>8 DEF ChoiceOK

\* Every step of the recovery thread keeps the choice right.
LEMMA ChoiceRecStep ==
    ASSUME RetryInv, NEW r \in Recs, RecStep(r) \/ RecStartFails(r) \/ RecBridgeFails(r)
    PROVE  ChoiceOK'
<1> USE DEF At, Goto
<1>0. ThreadsOK /\ OneRecovery /\ ChoiceOK
  BY InvParts
<1>1. ASSUME NEW to \in RecPcs \ {"choose"}, pc' = [pc EXCEPT ![r] = to],
             to \in Armed => job[r].choice # << >>, UNCHANGED <<job, current, serving, failed>>
      PROVE  ChoiceOK'
  BY <1>0, <1>1, ChoiceMoved
<1>2. {"bridge", "done", "failed", "sched", "post", "finally", "idle"}
          \subseteq (RecPcs \ {"choose"}) \ Armed
  BY DEF RecPcs, Armed
<1>3. Armed \subseteq RecPcs \ {"choose"}
  BY DEF RecPcs, Armed
<1>4. pc[r] \in Armed => job[r].choice # << >>
  BY <1>0 DEF ChoiceOK
<1>5. "check" \in Armed /\ "start" \in Armed /\ "wait" \in Armed /\ "isReady" \in Armed
  BY DEF Armed
<1>6. CASE RecBegin(r)
  BY <1>6, ChoiceBegin
<1>7. CASE RecChoose(r)
  BY <1>7, ChoiceChoose
<1>8. CASE RecExhausted(r)
  <2>1. /\ pc' = [pc EXCEPT ![r] = "failed"] /\ failed' = {}
        /\ UNCHANGED <<job, current, serving>>
    BY <1>8 DEF RecExhausted, pathVars
  <2>2. pc'[r] = "failed" /\ \A q \in Recs \ {r} : pc'[q] = pc[q]
    BY <1>0, <1>2, <2>1, GotoType
  <2> QED
    BY <1>0, <1>2, <2>1, <2>2 DEF ChoiceOK
<1>9. CASE RecStart(r)
  <2>1. /\ pc[r] = "start" /\ pc' = [pc EXCEPT ![r] = "wait"] /\ serving' = job[r].choice
        /\ UNCHANGED <<job, current, failed>>
    BY <1>9 DEF RecStart
  <2>2. pc'[r] = "wait" /\ \A q \in Recs \ {r} : pc'[q] = pc[q]
    BY <1>0, <1>3, <1>5, <2>1, GotoType
  <2>3. job[r].choice \in Seq(Hosts)
    BY <1>0 DEF ChoiceOK, Jobs
  <2> QED
    BY <1>0, <1>4, <1>5, <2>1, <2>2, <2>3 DEF ChoiceOK
<1>10. CASE RecNotReady(r)
  <2>1. /\ pc[r] \in {"wait", "isReady"} /\ pc' = [pc EXCEPT ![r] = "failed"]
        /\ failed' = failed \cup {Head(job[r].choice)}
        /\ UNCHANGED <<job, current, serving>>
    BY <1>10 DEF RecNotReady
  <2>2. pc'[r] = "failed" /\ \A q \in Recs \ {r} : pc'[q] = pc[q]
    BY <1>0, <1>2, <2>1, GotoType
  <2>3. job[r].choice \in Seq(Hosts) /\ job[r].choice # << >>
    BY <1>0, <1>4, <1>5, <2>1 DEF ChoiceOK, Jobs
  <2>4. Head(job[r].choice) \in Hosts
    BY <2>3, HeadTailProperties
  <2>5. \A q \in Recs \ {r} : pc[q] = "idle"
    BY <1>0, <2>1 DEF OneRecovery
  <2>6. \A q \in Recs : pc'[q] # "choose" /\ pc'[q] \notin Armed
    BY <1>2, <2>2, <2>5
  <2> QED
    BY <1>0, <2>1, <2>4, <2>6 DEF ChoiceOK
<1>11. CASE RecFinally(r)
  <2>1. /\ pc[r] = "finally" /\ pc' = [pc EXCEPT ![r] = "idle"]
        /\ job' = [job EXCEPT ![r] = NoJob] /\ UNCHANGED <<current, serving, failed>>
    BY <1>11 DEF RecFinally, pathVars
  <2>2. pc'[r] = "idle" /\ \A q \in Recs \ {r} : pc'[q] = "idle"
    BY <1>0, <1>2, <2>1, GotoType DEF OneRecovery
  <2>3. job' \in [Recs -> Jobs]
    BY <1>0, <2>1, NoJobTypes DEF ChoiceOK
  <2> QED
    BY <1>0, <1>2, <2>1, <2>2, <2>3 DEF ChoiceOK
<1>12. CASE RecDefer(r) \/ RecStartFails(r) \/ RecBridge(r) \/ RecBridgeFails(r) \/ RecDone(r)
  BY <1>12, <1>1, <1>2 DEF RecDefer, RecStartFails, RecBridge, RecBridgeFails, RecDone, pathVars
<1>13. CASE RecFailed(r) \/ RecSched(r) \/ RecPost(r)
  BY <1>13, <1>1, <1>2 DEF RecFailed, RecSched, RecPost, pathVars
<1>14. CASE RecCheck(r) \/ RecPoll(r) \/ RecIsReady(r)
  <2>1. /\ pc[r] \in Armed
        /\ \/ pc' = [pc EXCEPT ![r] = "start"] \/ pc' = [pc EXCEPT ![r] = "wait"]
           \/ pc' = [pc EXCEPT ![r] = "isReady"] \/ pc' = [pc EXCEPT ![r] = "bridge"]
           \/ pc' = [pc EXCEPT ![r] = "finally"]
        /\ UNCHANGED <<job, current, serving, failed>>
    BY <1>5, <1>14 DEF RecCheck, RecPoll, RecIsReady, pathVars
  <2> QED
    BY <1>1, <1>2, <1>3, <1>4, <1>5, <2>1
<1> QED
  BY <1>6, <1>7, <1>8, <1>9, <1>10, <1>11, <1>12, <1>13, <1>14 DEF RecStep

\* Every other step keeps the choice right.
LEMMA ChoiceOther ==
    ASSUME RetryInv, Next,
           ~\E r \in Recs : RecStep(r) \/ RecStartFails(r) \/ RecBridgeFails(r)
    PROVE  ChoiceOK'
<1>0. ThreadsOK /\ NoHealthThread /\ QueueOK /\ ChoiceOK
  BY InvParts
<1>1. ASSUME UNCHANGED <<pc, job, current, serving, failed>> PROVE ChoiceOK'
  BY <1>0, <1>1, ChoiceUntouched
<1>2. ASSUME NEW reason \in Reasons \cup {""}, Launch(reason), UNCHANGED <<current, serving, failed>>
      PROVE  ChoiceOK'
  BY <1>0, <1>2, ChoiceLaunch
<1>3. {"native_not_running", "network_changed", "native_not_ready", "traffic_no_response"}
          \cup FastPath \cup FastRetry \subseteq Reasons \cup {""}
  BY DEF Reasons, NativeTrouble, FastPath, FastRetry, TrafficTrouble
<1>4. CASE TickDown
  <2>1. UNCHANGED <<current, serving, failed>>
    BY <1>4 DEF TickDown
  <2>2. Launch("native_not_running") \/ UNCHANGED <<pc, job>>
    BY <1>4 DEF TickDown, recVars
  <2> QED
    BY <2>1, <2>2, <1>1, <1>2, <1>3
<1>5. CASE TickTrouble
  <2>1. UNCHANGED <<current, serving, failed>>
    BY <1>5 DEF TickTrouble, pathVars
  <2>2. PICK reason \in Troubles : Launch(reason)
    BY <1>5 DEF TickTrouble
  <2>3. reason \in Reasons \cup {""}
    BY <1>3 DEF Troubles
  <2> QED
    BY <2>1, <2>2, <2>3, <1>2
<1>6. ASSUME NEW slot \in Slots, RetryFires(slot) PROVE ChoiceOK'
  <2>1. UNCHANGED <<current, serving, failed>>
    BY <1>6 DEF RetryFires, pathVars
  <2>2. Launch(posted[slot]) \/ UNCHANGED <<pc, job>>
    BY <1>6 DEF RetryFires, recVars
  <2>3. posted[slot] \in Reasons \cup {""}
    BY <1>0 DEF QueueOK
  <2> QED
    BY <2>1, <2>2, <2>3, <1>1, <1>2
<1>7. CASE Recheck
  <2>1. UNCHANGED <<current, serving, failed>>
    BY <1>7 DEF Recheck, pathVars
  <2>2. Launch("network_changed") \/ UNCHANGED <<pc, job>>
    BY <1>7 DEF Recheck, recVars
  <2> QED
    BY <2>1, <2>2, <1>1, <1>2, <1>3
<1>8. CASE Stop
  <2>1. current' = << >> /\ failed' = {} /\ UNCHANGED <<pc, job, serving>>
    BY <1>8 DEF Stop, NoChoice, pathVars, recVars
  <2> QED
    BY <1>0, <2>1, EmptySeq DEF ChoiceOK
<1>9. CASE Start
  <2>1. /\ current' = ChooseFast(Alive, {}) /\ serving' = current' /\ failed' = {}
        /\ UNCHANGED <<pc, job>>
    BY <1>9 DEF Start, recVars
  <2>2. current' \in Seq(Hosts)
    BY <2>1, ChooseFastGives
  <2> QED
    BY <1>0, <2>1, <2>2 DEF ChoiceOK
<1>10. CASE HealthProbe \/ HealthResult
  BY <1>10, <1>1 DEF HealthProbe, HealthResult, pathVars, recVars
<1>11. CASE HealthCommit
  BY <1>0, <1>11 DEF HealthCommit, NoHealthThread
<1>12. CASE CooldownOver \/ CleanupNative \/ CleanupBridge \/ HostChanges \/ NetworkChanges
  BY <1>12, <1>1 DEF CooldownOver, CleanupNative, CleanupBridge, HostChanges, NetworkChanges,
                     pathVars, recVars
<1>13. CASE NativeReady \/ NativeLosesReady \/ NativeDies
  BY <1>13, <1>1 DEF NativeReady, NativeLosesReady, NativeDies, recVars
<1> QED
  BY <1>4, <1>5, <1>6, <1>7, <1>8, <1>9, <1>10, <1>11, <1>12, <1>13 DEF Next

-----------------------------------------------------------------------------
\* The types of the rest, step by step.
LEMMA EnvRecStep ==
    ASSUME RetryInv, NEW r \in Recs, RecStep(r) \/ RecStartFails(r) \/ RecBridgeFails(r)
    PROVE  EnvOK'
<1>0. EnvOK
  BY InvParts
<1>1. ASSUME native' \in {"down", "starting", "ready"}, bridge' = TRUE \/ bridge' = FALSE \/ bridge' = bridge,
             UNCHANGED <<cooling, cleanup, host, network, changed, recheck, lives>>,
             faults' = faults \/ (faults < MaxFaults /\ faults' = faults + 1)
      PROVE  EnvOK'
  <2>1. bridge' \in BOOLEAN
    BY <1>0, <1>1 DEF EnvOK
  <2>2. faults' \in 0 .. MaxFaults
    BY <1>0, <1>1, Bounds DEF EnvOK
  <2> QED
    BY <1>0, <1>1, <2>1, <2>2 DEF EnvOK
<1>2. native \in {"down", "starting", "ready"}
  BY <1>0 DEF EnvOK
<1>3. CASE RecDefer(r) \/ RecBegin(r) \/ RecChoose(r) \/ RecExhausted(r) \/ RecCheck(r)
  BY <1>1, <1>2, <1>3 DEF RecDefer, RecBegin, RecChoose, RecExhausted, RecCheck, pathVars, envVars
<1>4. CASE RecStart(r) \/ RecStartFails(r) \/ RecPoll(r) \/ RecIsReady(r) \/ RecNotReady(r)
  BY <1>1, <1>2, <1>4 DEF RecStart, RecStartFails, RecPoll, RecIsReady, RecNotReady, pathVars, envVars
<1>5. CASE RecBridge(r) \/ RecBridgeFails(r) \/ RecDone(r) \/ RecFailed(r)
  BY <1>1, <1>2, <1>5 DEF RecBridge, RecBridgeFails, RecDone, RecFailed, pathVars, envVars
<1>6. CASE RecSched(r) \/ RecPost(r) \/ RecFinally(r)
  BY <1>1, <1>2, <1>6 DEF RecSched, RecPost, RecFinally, pathVars, envVars
<1> QED
  BY <1>3, <1>4, <1>5, <1>6 DEF RecStep

\* The steps of others keep the types of the environment.
LEMMA EnvOther ==
    ASSUME RetryInv, Next,
           ~\E r \in Recs : RecStep(r) \/ RecStartFails(r) \/ RecBridgeFails(r)
    PROVE  EnvOK'
<1>0. EnvOK
  BY InvParts
<1>1. ASSUME UNCHANGED <<native, cleanup, host, network, recheck, faults, lives>>,
             cooling' = cooling \/ cooling' = TRUE \/ cooling' = FALSE,
             bridge' = bridge \/ bridge' = FALSE, changed' = changed \/ changed' = FALSE
      PROVE  EnvOK'
  <2>1. cooling' \in BOOLEAN
    BY <1>0, <1>1 DEF EnvOK
  <2>2. bridge' \in BOOLEAN
    BY <1>0, <1>1 DEF EnvOK
  <2>3. changed' \in BOOLEAN
    BY <1>0, <1>1 DEF EnvOK
  <2> QED
    BY <1>0, <1>1, <2>1, <2>2, <2>3 DEF EnvOK
<1>2. CASE TickDown
  <2>1. UNCHANGED envVars /\ UNCHANGED <<native, cleanup, lives>> /\ bridge' = FALSE
    BY <1>2 DEF TickDown
  <2>2. cooling' = TRUE \/ cooling' = cooling
    BY <1>2 DEF TickDown, Launch
  <2> QED
    BY <1>1, <2>1, <2>2 DEF envVars
<1>3. CASE TickTrouble
  <2>1. UNCHANGED envVars /\ UNCHANGED <<native, bridge, cleanup, lives>>
    BY <1>3 DEF TickTrouble, pathVars
  <2>2. cooling' = TRUE
    BY <1>3 DEF TickTrouble, Launch
  <2> QED
    BY <1>1, <2>1, <2>2 DEF envVars
<1>4. ASSUME NEW slot \in Slots, RetryFires(slot) PROVE EnvOK'
  <2>1. UNCHANGED envVars /\ UNCHANGED <<native, bridge, cleanup, lives>>
    BY <1>4 DEF RetryFires, pathVars
  <2>2. cooling' = TRUE \/ cooling' = cooling
    BY <1>4 DEF RetryFires, Launch
  <2> QED
    BY <1>1, <2>1, <2>2 DEF envVars
<1>5. CASE Recheck
  <2>1. /\ UNCHANGED <<native, bridge, cleanup, host, network, faults, lives>>
        /\ recheck' = FALSE
    BY <1>5 DEF Recheck, pathVars
  <2>2. (cooling' = TRUE \/ cooling' = cooling) /\ (changed' = changed \/ changed' = FALSE)
    BY <1>5 DEF Recheck, Launch
  <2>3. cooling' \in BOOLEAN
    BY <1>0, <2>2 DEF EnvOK
  <2>4. changed' \in BOOLEAN
    BY <1>0, <2>2 DEF EnvOK
  <2> QED
    BY <1>0, <2>1, <2>3, <2>4 DEF EnvOK
<1>6. CASE HealthCommit
  <2>1. UNCHANGED envVars /\ UNCHANGED <<native, bridge, cleanup, lives>> /\ cooling' = TRUE
    BY <1>6 DEF HealthCommit, Launch, pathVars
  <2> QED
    BY <1>1, <2>1 DEF envVars
<1>7. CASE CooldownOver
  BY <1>1, <1>7 DEF CooldownOver, pathVars, envVars
<1>8. CASE HealthProbe \/ HealthResult
  BY <1>1, <1>8 DEF HealthProbe, HealthResult, pathVars, envVars
<1>9. CASE Stop
  BY <1>0, <1>9 DEF Stop, EnvOK, pathVars
<1>10. CASE CleanupNative
  BY <1>0, <1>10 DEF CleanupNative, EnvOK, envVars
<1>11. CASE CleanupBridge
  BY <1>0, <1>11 DEF CleanupBridge, EnvOK, envVars
<1>12. CASE Start
  <2>1. /\ lives < MaxLives /\ lives' = lives + 1 /\ native' = "ready" /\ bridge' = TRUE
        /\ changed' = FALSE /\ UNCHANGED <<cooling, cleanup, host, network, recheck, faults>>
    BY <1>12 DEF Start
  <2>2. lives' \in 1 .. MaxLives
    BY <1>0, <2>1, Bounds DEF EnvOK
  <2> QED
    BY <1>0, <2>1, <2>2 DEF EnvOK
<1>13. CASE NativeReady \/ NativeLosesReady
  <2>1. /\ native' \in {"down", "starting", "ready"}
        /\ UNCHANGED <<cooling, bridge, cleanup, host, network, changed, recheck, faults, lives>>
    BY <1>13 DEF NativeReady, NativeLosesReady, envVars
  <2> QED
    BY <1>0, <2>1 DEF EnvOK
<1>14. ASSUME faults < MaxFaults, faults' = faults + 1 PROVE faults' \in 0 .. MaxFaults
  BY <1>0, <1>14, Bounds DEF EnvOK
<1>15. CASE NativeDies
  <2>1. /\ native' = "down" /\ faults' \in 0 .. MaxFaults
        /\ UNCHANGED <<cooling, bridge, cleanup, host, network, changed, recheck, lives>>
    BY <1>14, <1>15 DEF NativeDies
  <2> QED
    BY <1>0, <2>1 DEF EnvOK
<1>16. CASE HostChanges
  <2>1. /\ faults' \in 0 .. MaxFaults
        /\ \E h \in Hosts, state \in HostStates : host' = [host EXCEPT ![h] = state]
        /\ UNCHANGED <<native, cooling, bridge, cleanup, network, changed, recheck, lives>>
    BY <1>14, <1>16 DEF HostChanges, pathVars
  <2>2. host' \in [Hosts -> HostStates]
    BY <1>0, <2>1 DEF EnvOK
  <2> QED
    BY <1>0, <2>1, <2>2 DEF EnvOK
<1>17. CASE NetworkChanges
  <2>1. /\ faults' \in 0 .. MaxFaults /\ network' \in BOOLEAN /\ changed' \in {changed, TRUE}
        /\ recheck' = (recheck \/ tunnelActive)
        /\ UNCHANGED <<native, cooling, bridge, cleanup, host, lives>>
    BY <1>14, <1>17 DEF NetworkChanges, pathVars
  <2>2. recheck' \in BOOLEAN
    BY <2>1, Zenon
  <2>3. changed' \in BOOLEAN
    <3>1. changed \in BOOLEAN
      BY <1>0 DEF EnvOK
    <3> QED
      BY <2>1, <3>1, Zenon
  <2> QED
    BY <1>0, <2>1, <2>2, <2>3 DEF EnvOK
<1> QED
  BY <1>2, <1>3, <1>4, <1>5, <1>6, <1>7, <1>8, <1>9, <1>10, <1>11, <1>12, <1>13, <1>15, <1>16,
     <1>17 DEF Next

-----------------------------------------------------------------------------
\* A service that has just started satisfies the invariant.
LEMMA RetryInit == Init => RetryInv
<1> SUFFICES ASSUME Init PROVE RetryInv
  OBVIOUS
<1>1. RecoveryInv
  BY RecoveryInit
<1>2. /\ posted = [i \in Slots |-> ""] /\ pending = 0
      /\ pc = [r \in Recs |-> "idle"] /\ job = [r \in Recs |-> NoJob]
      /\ current = ChooseFast(Alive, {}) /\ serving = current /\ failed = {}
      /\ cooling = FALSE /\ bridge = TRUE /\ network = TRUE /\ changed = FALSE /\ recheck = FALSE
      /\ native = "ready" /\ cleanup = "none" /\ faults = 0 /\ lives = 1
      /\ host \in [Hosts -> HostStates]
  BY DEF Init
<1>3. QueueOK
  BY <1>2 DEF QueueOK
<1>4. ChoiceOK
  <2>1. current \in Seq(Hosts)
    BY <1>2, ChooseFastGives
  <2>2. \A r \in Recs : job[r] \in Jobs /\ pc[r] = "idle"
    BY <1>2, NoJobTypes
  <2>3. job \in [Recs -> Jobs]
    BY <1>2, NoJobTypes
  <2>4. "idle" \notin Armed
    BY DEF Armed
  <2> QED
    BY <1>2, <2>1, <2>2, <2>3, <2>4 DEF ChoiceOK
<1>5. EnvOK
  <2>0. faults = 0 /\ lives = 1
    BY <1>2
  <2>1. faults \in 0 .. MaxFaults /\ lives \in 1 .. MaxLives
    BY <2>0, Bounds
  <2> QED
    BY <1>2, <2>1 DEF EnvOK
<1> QED
  BY <1>1, <1>3, <1>4, <1>5 DEF RetryInv

\* Without the health thread every step preserves the invariant.
LEMMA RetryStep == ~HealthChecks => (RetryInv /\ [Next]_vars => RetryInv')
<1> SUFFICES ASSUME ~HealthChecks, RetryInv, [Next]_vars PROVE RetryInv'
  OBVIOUS
<1>1. RecoveryInv'
  BY RecoveryStep DEF RetryInv
<1>2. CASE \E r \in Recs : RecStep(r) \/ RecStartFails(r) \/ RecBridgeFails(r)
  BY <1>1, <1>2, QueueRecStep, ChoiceRecStep, EnvRecStep DEF RetryInv
<1>3. CASE Next /\ ~\E r \in Recs : RecStep(r) \/ RecStartFails(r) \/ RecBridgeFails(r)
  BY <1>1, <1>3, QueueOther, ChoiceOther, EnvOther DEF RetryInv
<1>4. CASE UNCHANGED vars
  <2>0. QueueOK /\ ChoiceOK /\ EnvOK
    BY InvParts
  <2>1. /\ UNCHANGED <<pc, retryVars>>
        /\ UNCHANGED <<pc, job, current, serving, failed>>
        /\ UNCHANGED <<cooling, bridge, network, changed, recheck, native, cleanup, host, faults, lives>>
    BY <1>4 DEF vars, pathVars, recVars, envVars
  <2>2. QueueOK'
    BY <2>0, <2>1, QueueUntouched
  <2>3. ChoiceOK'
    BY <2>0, <2>1, ChoiceUntouched
  <2>4. EnvOK'
    BY <2>0, <2>1 DEF EnvOK
  <2> QED
    BY <1>1, <2>2, <2>3, <2>4 DEF RetryInv
<1> QED
  BY <1>2, <1>3, <1>4

\* Without the health thread every variable keeps its type.
LEMMA RecoveryTypes == ~HealthChecks => (Spec => []TypeOK)
<1> SUFFICES ASSUME ~HealthChecks PROVE Spec => []TypeOK
  OBVIOUS
<1>1. RetryInv => TypeOK
  <2> SUFFICES ASSUME RetryInv PROVE TypeOK
    OBVIOUS
  <2>0. ThreadsOK /\ NoHealthThread /\ QueueOK /\ ChoiceOK /\ EnvOK
    BY InvParts
  <2>2. {tunnelActive, recovering, cooling, bridge, network, changed, recheck} \subseteq BOOLEAN
    BY <2>0 DEF ThreadsOK, EnvOK
  <2>3. /\ ToSet(current) \subseteq Hosts /\ ToSet(serving) \subseteq Hosts
        /\ failed \subseteq Hosts
    BY <2>0, OfItsMembers DEF ChoiceOK
  <2>4. ASSUME NEW r \in Recs PROVE pc[r] \in RecPcs /\ ToSet(job[r].choice) \subseteq Hosts
    <3>1. job[r].choice \in Seq(Hosts)
      BY <2>0 DEF ChoiceOK, Jobs
    <3>2. ToSet(job[r].choice) \subseteq Hosts
      BY <3>1, OfItsMembers
    <3> QED
      BY <2>0, <3>2 DEF ThreadsOK
  <2>5. /\ posted \in [Slots -> Reasons \cup {""}] /\ pending \in {0} \cup Slots
    BY <2>0 DEF QueueOK
  <2>6. health.pc = "idle" /\ health.failures = 0
    BY <2>0 DEF NoHealthThread
  <2>7. health.failures \in 0 .. HealthRestart
    BY <2>6 DEF HealthRestart
  <2>8. /\ native \in {"down", "starting", "ready"} /\ cleanup \in {"none", "native", "bridge"}
        /\ host \in [Hosts -> HostStates] /\ faults \in 0 .. MaxFaults /\ lives \in 1 .. MaxLives
    BY <2>0 DEF EnvOK
  <2> QED
    BY <2>2, <2>3, <2>4, <2>5, <2>6, <2>7, <2>8 DEF TypeOK
<1>2. RetryInv /\ [Next]_vars => RetryInv'
  BY RetryStep
<1> QED
  BY <1>1, <1>2, RetryInit, PTL DEF Spec

-----------------------------------------------------------------------------
(***************************************************************************)
(* A choice is made nowhere but in RecChoose, and there a condemned        *)
(* resolver is the last resort.                                            *)
(***************************************************************************)
LEMMA OnlyChooseChooses ==
    ASSUME ThreadsOK, Next, NEW r \in Recs, pc[r] = "choose", pc'[r] = "check"
    PROVE  RecChoose(r)
<1>1. ASSUME NEW reason, Launch(reason) PROVE FALSE
  <2>1. PICK q \in Recs : pc[q] = "idle" /\ pc' = [pc EXCEPT ![q] = "begin"]
    BY <1>1 DEF Launch
  <2> QED
    BY <2>1 DEF ThreadsOK
<1>2. pc' # pc
  OBVIOUS
<1>3. ASSUME NEW q \in Recs, RecStep(q) \/ RecStartFails(q) \/ RecBridgeFails(q)
      PROVE  RecChoose(r)
  <2>1. ASSUME NEW to, pc' = [pc EXCEPT ![q] = to], to # "check" PROVE FALSE
    BY <2>1 DEF ThreadsOK
  <2>2. CASE RecChoose(q)
    <3>1. pc' = [pc EXCEPT ![q] = "check"] /\ pc[q] = "choose"
      BY <2>2 DEF RecChoose, At
    <3>2. q = r
      BY <3>1 DEF ThreadsOK
    <3> QED
      BY <2>2, <3>2
  <2>3. CASE RecBegin(q)
    <3>1. pc' = [pc EXCEPT ![q] = "choose"]
      BY <2>3 DEF RecBegin
    <3> QED
      BY <2>1, <3>1
  <2>4. CASE RecDefer(q) \/ RecExhausted(q) \/ RecCheck(q) \/ RecStart(q) \/ RecStartFails(q)
    BY <2>1, <2>4 DEF RecDefer, RecExhausted, RecCheck, RecStart, RecStartFails, Goto
  <2>5. CASE RecPoll(q) \/ RecIsReady(q) \/ RecNotReady(q) \/ RecBridge(q) \/ RecBridgeFails(q)
    BY <2>1, <2>5 DEF RecPoll, RecIsReady, RecNotReady, RecBridge, RecBridgeFails, Goto
  <2>6. CASE RecDone(q) \/ RecFailed(q) \/ RecSched(q) \/ RecPost(q) \/ RecFinally(q)
    BY <2>1, <2>6 DEF RecDone, RecFailed, RecSched, RecPost, RecFinally, Goto
  <2> QED
    BY <1>3, <2>2, <2>3, <2>4, <2>5, <2>6 DEF RecStep
<1>4. CASE TickDown
  BY <1>1, <1>2, <1>4 DEF TickDown, recVars
<1>5. CASE TickTrouble
  BY <1>1, <1>5 DEF TickTrouble
<1>6. ASSUME NEW slot \in Slots, RetryFires(slot) PROVE FALSE
  BY <1>1, <1>2, <1>6 DEF RetryFires, recVars
<1>7. CASE Recheck
  BY <1>1, <1>2, <1>7 DEF Recheck, recVars
<1>8. CASE HealthCommit
  BY <1>1, <1>8 DEF HealthCommit
<1>9. CASE CooldownOver \/ Stop \/ CleanupNative \/ CleanupBridge \/ Start \/ HealthProbe \/ HealthResult
  BY <1>2, <1>9 DEF CooldownOver, Stop, CleanupNative, CleanupBridge, Start, HealthProbe,
                    HealthResult, recVars
<1>10. CASE NativeReady \/ NativeLosesReady \/ NativeDies \/ HostChanges \/ NetworkChanges
  BY <1>2, <1>10 DEF NativeReady, NativeLosesReady, NativeDies, HostChanges, NetworkChanges, recVars
<1> QED
  BY <1>3, <1>4, <1>5, <1>6, <1>7, <1>8, <1>9, <1>10 DEF Next

\* A recovery that takes a condemned host has no other host that answers.
LEMMA ChosenSkips ==
    ASSUME RetryInv, NEW r \in Recs, RecChoose(r), Head(job'[r].choice) \in failed'
    PROVE  Alive \cap ToSet(Pool) \subseteq failed'
<1>0. ChoiceOK
  BY InvParts
<1>1. /\ pc[r] = "choose" /\ job' = [job EXCEPT ![r].choice = Chosen(r)]
      /\ failed' = IF Fresh(r) THEN {} ELSE failed
  BY DEF RecChoose, At
<1>2. job'[r].choice = Chosen(r)
  <2>1. job \in [Recs -> Jobs]
    BY <1>0 DEF ChoiceOK
  <2>2. job'[r] = [job[r] EXCEPT !.choice = Chosen(r)] /\ job[r] \in Jobs
    BY <1>1, <2>1
  <2> QED
    BY <2>2 DEF Jobs
<1>3. ~Fresh(r) /\ failed' = failed /\ failed # {}
  BY <1>1
<1>4. Quick(r) = NoChoice
  <2> SUFFICES ASSUME Quick(r) # NoChoice PROVE FALSE
    OBVIOUS
  <2>1. Quick(r) = QuickChoice(current, failed) /\ Chosen(r) = Quick(r)
    BY DEF Quick, Fresh, Chosen
  <2>2. Head(Chosen(r)) \notin failed
    BY <1>0, <2>1, QuickChoiceGives DEF ChoiceOK
  <2> QED
    BY <1>2, <1>3, <2>2
<1>5. ~job[r].reuse
  BY <1>0, <1>1, <1>3 DEF ChoiceOK
<1>6. Chosen(r) = ChooseFast(Alive, failed)
  BY <1>3, <1>4, <1>5 DEF Chosen
<1> QED
  BY <1>2, <1>3, <1>6, ChooseFastGives

\* A recovery takes a resolver it has condemned only when every resolver of the
\* pool that answers is condemned, for every pool, operator list and cache
\* (ResolverSelector.chooseFast, quickAutoRecoveryChoice, restartSlipstreamPath).
THEOREM CondemnedIsLastResort == ~HealthChecks => (Spec => ChoiceSkipsCondemned)
<1> SUFFICES ASSUME ~HealthChecks PROVE Spec => ChoiceSkipsCondemned
  OBVIOUS
<1> DEFINE A == \A r \in Recs :
                   At(r, "choose") /\ pc'[r] = "check" /\ Head(job'[r].choice) \in failed'
                       => Alive \cap ToSet(Pool) \subseteq failed'
<1>1. RetryInv /\ [Next]_vars => [A]_vars
  <2> SUFFICES ASSUME RetryInv, Next, NEW r \in Recs, At(r, "choose"), pc'[r] = "check",
                      Head(job'[r].choice) \in failed'
               PROVE  Alive \cap ToSet(Pool) \subseteq failed'
    OBVIOUS
  <2>1. RecChoose(r)
    BY InvParts, OnlyChooseChooses DEF At
  <2> QED
    BY <2>1, ChosenSkips
<1>2. RetryInv /\ [Next]_vars => RetryInv'
  BY RetryStep
<1> QED
  BY <1>1, <1>2, RetryInit, PTL DEF Spec, ChoiceSkipsCondemned
=============================================================================
