------------------------- MODULE VpnLifecycleProofs -------------------------
(***************************************************************************)
(* For every number of STARTs and STOPs, every interleaving, teardowns of  *)
(* any length and lost generation updates: the service's variables keep    *)
(* their types, and `starting' is never left TRUE with nobody to clear it. *)
(*                                                                         *)
(* For users who do not command at every moment (PoliteUsers), and until a *)
(* stop meets a start before its generation (earlyStop), a STOP has the    *)
(* last word; if moreover no teardown outlasts the wait of a restart,      *)
(* nothing is left up by a tunnel that is not active, every start finds    *)
(* clean ground, and an active tunnel is whole.                            *)
(***************************************************************************)
EXTENDS VpnLifecycle, SequenceTheorems, FiniteSetTheorems, TLAPS

\* A vpn-start thread that will clear `starting': it has not reached its finally
\* block, or it has and its generation is still the current one.
WillClear(s) ==
    /\ startPc[s] \notin {"new", "done"}
    /\ startPc[s] = "finally" => gen = startGen[s]

\* Before the thread's own `stopping = false'.
BeforeClear == Waiting \cup {"clear"}

\* Thread numbers are handed out in order.
UnusedAreNew == \A s \in Starts : s > started => startPc[s] = "new"

\* A vpn-start thread calls stopTunnel only at the end of its catch block.
StopInsideCatch == \A s \in Starts : stopPc[s] # "no" => startPc[s] = "catchStop"

\* `starting' next to `stopping' is the signature of a restart that waits.
StoppingIsOld ==
    starting /\ stopping => \E s \in Starts : startPc[s] \in BeforeClear

\* The strengthening of StartingHasOwner.
Owned ==
    starting => \/ \E s \in Starts : WillClear(s)
                \/ \E p \in Callers : stopPc[p] \in {"check", "commit"}

IInv == TypeOK /\ UnusedAreNew /\ StopInsideCatch /\ StoppingIsOld /\ Owned

-----------------------------------------------------------------------------
\* A cleanup thread's step keeps the list of cleanup threads well typed.
LEMMA GotoType ==
    ASSUME teardowns \in Seq(Teardown), NEW t \in DOMAIN teardowns,
           NEW pc \in TeardownPcs, Goto(t, pc)
    PROVE  teardowns' \in Seq(Teardown)
<1> DEFINE r == [teardowns[t] EXCEPT !.pc = pc]
<1>1. teardowns[t] \in Teardown
  BY ElementOfSeq
<1>2. r \in Teardown
  BY <1>1 DEF Teardown
<1>3. teardowns' = [teardowns EXCEPT ![t] = r]
  BY DEF Goto
<1>4. [teardowns EXCEPT ![t] = r] \in Seq(Teardown)
  BY <1>2, ExceptSeq
<1> QED
  BY <1>3, <1>4

\* What a cancellation check leads to, both ways.
LEMMA AfterCheckPcs ==
    \A c \in DOMAIN AfterCheck : AfterCheck[c] \in StartPcs \ {"new", "done", "catchStop"}
BY DEF AfterCheck, StartPcs, Waiting, Working, Catching

\* The places a vpn-start thread's steps lead to are places of StartPcs.
LEMMA StartPcNames ==
    {"await", "bumpRead", "bumpWrite", "clear", "activate", "engine", "ready", "engine2",
     "ready2", "bridge", "tun", "hev", "cEngine", "cReady", "cEngine2", "cReady2",
     "cBridge", "cTun", "cDone", "catchBackend", "catchTun", "catchStop", "finally",
     "done"} \subseteq StartPcs
BY DEF AfterCheck, StartPcs, Waiting, Working, Catching

\* stopTunnel is called by the main thread and by the vpn-start threads.
LEMMA StartsAreCallers == Starts \subseteq Callers /\ Main \in Callers
BY BoundsAssumption DEF Starts, Callers, Main

USE DEF flags, startVars, stopVars, resources, history

\* Init establishes the types.
LEMMA TypeInit == Init => TypeOK
BY BoundsAssumption, InputsAssumption, SMTT(60)
   DEF Init, TypeOK, Starts, Callers, StartPcs, StopPcs, Waiting, Working, Catching

\* Every step of the main thread keeps the types.
LEMMA TypeMain ==
    ASSUME TypeOK, StartCommand \/ StopCommand \/ Destroy
    PROVE  TypeOK'
<1>1. CASE StartCommand
  <2>1. started' \in 0..MaxStarts
    BY <1>1, BoundsAssumption DEF TypeOK, StartCommand, Input, Callers
  <2> QED
    BY <1>1, <2>1, BoundsAssumption DEF TypeOK, StartCommand, StartPcs, Waiting, Starts
<1>2. CASE StopCommand
  BY <1>2, StartsAreCallers, BoundsAssumption DEF TypeOK, StopCommand, StopPcs
<1>3. CASE Destroy
  BY <1>3, StartsAreCallers DEF TypeOK, Destroy, StopPcs
<1> QED
  BY <1>1, <1>2, <1>3

\* Every step of stopTunnel keeps the types.
LEMMA TypeStop ==
    ASSUME TypeOK, NEW p \in Callers, StopTunnel(p)
    PROVE  TypeOK'
<1>1. CASE StopRead(p)
  BY <1>1 DEF TypeOK, StopRead, StopPcs
<1>2. CASE StopBump(p)
  BY <1>2 DEF TypeOK, StopBump, StopPcs
<1>3. CASE StopCheck(p)
  BY <1>3 DEF TypeOK, StopCheck, Return, StopPcs, StartPcs
<1>4. CASE StopCommit(p)
  <2> DEFINE r == [gen |-> stopGen[p], pc |-> "check"]
  <2>1. r \in Teardown
    BY DEF TypeOK, Teardown, TeardownPcs
  <2>2. Append(teardowns, r) \in Seq(Teardown)
    BY <2>1, AppendProperties DEF TypeOK
  <2>3. teardowns' \in Seq(Teardown)
    BY <1>4, <2>2 DEF StopCommit
  <2>4. stopPc' \in [Callers -> StopPcs] /\ startPc' \in [Starts -> StartPcs]
    BY <1>4 DEF TypeOK, StopCommit, Return, StopPcs, StartPcs
  <2> QED
    BY <1>4, <2>3, <2>4 DEF TypeOK, StopCommit
<1> QED
  BY <1>1, <1>2, <1>3, <1>4 DEF StopTunnel

\* Every step of a cleanup thread keeps the types.
LEMMA TypeTeardown ==
    ASSUME TypeOK, NEW t \in DOMAIN teardowns, TeardownThread(t)
    PROVE  TypeOK'
<1>1. teardowns' \in Seq(Teardown)
  <2>1. \E pc \in TeardownPcs : Goto(t, pc)
    BY DEF TeardownThread, TeardownCheck, TeardownBackend, TeardownTun, TeardownHev,
           TeardownSignal, TeardownPost, TeardownPcs
  <2>2. teardowns \in Seq(Teardown)
    BY DEF TypeOK
  <2> QED
    BY <2>1, <2>2, GotoType
<1>2. UNCHANGED <<starting, tunnelActive, gen, startVars, stopVars, history>>
  BY DEF TeardownThread, TeardownCheck, TeardownBackend, TeardownTun, TeardownHev,
         TeardownSignal, TeardownPost
<1>3. stopping' \in BOOLEAN /\ service' \in {"up", "stopSelf", "destroyed"}
  BY DEF TypeOK, TeardownThread, TeardownCheck, TeardownBackend, TeardownTun,
         TeardownHev, TeardownSignal, TeardownPost
<1>4. running' \subseteq running
  BY DEF TypeOK, TeardownThread, TeardownCheck, TeardownBackend, TeardownTun,
         TeardownHev, TeardownSignal, TeardownPost
<1>5. tunFd' \in {tunFd, 0}
  BY DEF TypeOK, TeardownThread, TeardownCheck, TeardownBackend, TeardownTun,
         TeardownHev, TeardownSignal, TeardownPost
<1> QED
  BY <1>1, <1>2, <1>3, <1>4, <1>5, BoundsAssumption DEF TypeOK

\* Every step of a vpn-start thread keeps the types.
LEMMA TypeStart ==
    ASSUME TypeOK, NEW s \in Starts, StartThread(s)
    PROVE  TypeOK'
<1>1. startPc' \in [Starts -> StartPcs]
  <2>1. \E pc \in StartPcs : startPc' = [startPc EXCEPT ![s] = pc]
    BY StartPcNames, AfterCheckPcs
       DEF StartThread, StartStep, StartAwait, StartBumpRead, StartBumpWrite,
           StartClearStopping, StartActivate, StartCheck, StartEngine, StartReady,
           StartFallback, StartBridge, StartTun, StartHev, StartFail, CatchBackend,
           CatchTun, StartFinally
  <2> QED
    BY <2>1 DEF TypeOK
<1>2. stopPc' \in [Callers -> StopPcs] /\ stopGen' = stopGen
  BY StartsAreCallers
     DEF TypeOK, StopPcs, StartThread, StartAwait, StartBumpRead, StartBumpWrite,
         StartClearStopping, StartActivate, StartCheck, StartEngine, StartReady,
         StartFallback, StartBridge, StartTun, StartHev, StartFail, CatchBackend,
         CatchTun, StartFinally
<1>3. gen' \in Nat /\ startGen' \in [Starts -> Nat]
  <2>1. CASE StartBumpRead(s)
    BY <2>1 DEF TypeOK, StartBumpRead
  <2>2. CASE StartBumpWrite(s)
    BY <2>2 DEF TypeOK, StartBumpWrite
  <2>3. CASE ~StartBumpRead(s) /\ ~StartBumpWrite(s)
    <3>1. gen' = gen /\ startGen' = startGen
      BY <2>3 DEF StartThread, StartAwait,
           StartClearStopping, StartActivate, StartCheck, StartEngine, StartReady,
           StartFallback, StartBridge, StartTun, StartHev, StartFail, CatchBackend,
           CatchTun, StartFinally
    <3> QED
      BY <3>1 DEF TypeOK
  <2> QED
    BY <2>1, <2>2, <2>3
<1>4. running' \subseteq Engines \cup {"bridge", "hev"}
  <2>1. input.engine[s] \in Engines
    BY DEF TypeOK, Input
  <2> QED
    BY <2>1
       DEF TypeOK, StartThread, StartAwait, StartBumpRead, StartBumpWrite,
           StartClearStopping, StartActivate, StartCheck, StartEngine, StartReady,
           StartFallback, StartBridge, StartTun, StartHev, StartFail, CatchBackend,
           CatchTun, StartFinally
<1>5. tunFd' \in 0..MaxStarts
  <2>1. tunFd' \in {tunFd, s, 0}
    BY DEF StartThread, StartAwait, StartBumpRead, StartBumpWrite,
           StartClearStopping, StartActivate, StartCheck, StartEngine, StartReady,
           StartFallback, StartBridge, StartTun, StartHev, StartFail, CatchBackend,
           CatchTun, StartFinally
  <2> QED
    BY <2>1, BoundsAssumption DEF TypeOK, Starts
<1>6. starting' \in BOOLEAN /\ stopping' \in BOOLEAN /\ tunnelActive' \in BOOLEAN
  BY DEF TypeOK, StartThread, StartAwait, StartBumpRead, StartBumpWrite,
         StartClearStopping, StartActivate, StartCheck, StartEngine, StartReady,
         StartFallback, StartBridge, StartTun, StartHev, StartFail, CatchBackend,
         CatchTun, StartFinally
<1>7. UNCHANGED <<started, stops, latch, input, teardowns, service, history>>
  BY DEF StartThread, StartAwait, StartBumpRead, StartBumpWrite,
         StartClearStopping, StartActivate, StartCheck, StartEngine, StartReady,
         StartFallback, StartBridge, StartTun, StartHev, StartFail, CatchBackend,
         CatchTun, StartFinally
<1> QED
  BY <1>1, <1>2, <1>3, <1>4, <1>5, <1>6, <1>7 DEF TypeOK

\* Types are preserved by every step, stuttering included.
LEMMA TypeStep == TypeOK /\ [Next]_vars => TypeOK'
<1> SUFFICES ASSUME TypeOK, [Next]_vars PROVE TypeOK'
  OBVIOUS
<1>1. CASE Next
  BY <1>1, TypeMain, TypeStart, TypeStop, TypeTeardown DEF Next
<1>2. CASE UNCHANGED vars
  BY <1>2 DEF vars, TypeOK
<1> QED
  BY <1>1, <1>2

\* The variables of the service keep their types.
THEOREM TypeCorrect == Spec => []TypeOK
BY TypeInit, TypeStep, PTL DEF Spec

-----------------------------------------------------------------------------
\* Initially nothing is starting.
LEMMA OwnerInit == Init => IInv
BY TypeInit DEF Init, IInv, UnusedAreNew, StopInsideCatch, StoppingIsOld, Owned,
   Starts, Callers

\* The main thread: a START hands `starting' to a thread that has yet to run.
LEMMA OwnerMain ==
    ASSUME IInv, TypeOK', StartCommand \/ StopCommand \/ Destroy
    PROVE  IInv'
<1>1. CASE StartCommand
  <2> DEFINE n == started + 1
  <2>1. n \in Starts /\ startPc[n] = "new"
    <3>1. started \in 0..MaxStarts /\ started < MaxStarts
      <4>1. started \in 0..MaxStarts /\ input.starts \in 0..MaxStarts /\ started < input.starts
        BY <1>1 DEF IInv, TypeOK, StartCommand, Input, Callers
      <4> QED
        BY <4>1, BoundsAssumption
    <3>2. n \in Starts /\ n > started
      BY <3>1, BoundsAssumption DEF Starts
    <3> QED
      BY <3>2 DEF IInv, UnusedAreNew
  <2>2. startPc' = [startPc EXCEPT ![n] = "await"] /\ started' = n /\ stopPc' = stopPc
    BY <1>1 DEF StartCommand
  <2>3. startPc'[n] = "await"
    BY <2>1, <2>2 DEF IInv, TypeOK
  <2>4. UnusedAreNew'
    BY <2>1, <2>2 DEF IInv, TypeOK, UnusedAreNew, Starts
  <2>5. StopInsideCatch'
    BY <2>1, <2>2 DEF IInv, TypeOK, StopInsideCatch
  <2>6. StoppingIsOld' /\ Owned'
    BY <2>1, <2>3 DEF StoppingIsOld, Owned, WillClear, BeforeClear, Waiting
  <2> QED
    BY <2>4, <2>5, <2>6 DEF IInv
<1>2. CASE StopCommand \/ Destroy
  <2>1. /\ UNCHANGED <<flags, gen, startVars>>
        /\ stopPc' = [stopPc EXCEPT ![Main] = "read"]
        /\ stopPc[Main] = "no"
    BY <1>2 DEF StopCommand, Destroy, MainIdle
  <2>2. \A s \in Starts : stopPc'[s] = stopPc[s]
    BY <2>1, BoundsAssumption DEF IInv, TypeOK, Starts, Callers, Main
  <2>3. \A p \in Callers : stopPc[p] \in {"check", "commit"} => stopPc'[p] = stopPc[p]
    BY <2>1 DEF IInv, TypeOK
  <2> QED
    BY <2>1, <2>2, <2>3
       DEF IInv, UnusedAreNew, StopInsideCatch, StoppingIsOld, Owned, WillClear
<1> QED
  BY <1>1, <1>2

\* stopTunnel: a call that returns early because of `stopping' leaves behind the
\* restart StoppingIsOld promises; every other call clears `starting'.
LEMMA OwnerStop ==
    ASSUME IInv, TypeOK', NEW p \in Callers, StopTunnel(p)
    PROVE  IInv'
<1>1. CASE StopRead(p) \/ StopBump(p)
  <2>1. /\ UNCHANGED <<flags, startVars>>
        /\ \/ gen' = gen
           \/ stopPc'[p] = "check"
        /\ stopPc[p] \in {"read", "bump"}
        /\ \A q \in Callers : q # p => stopPc'[q] = stopPc[q]
    BY <1>1 DEF IInv, TypeOK, StopRead, StopBump
  <2> QED
    BY <2>1, StartsAreCallers
       DEF IInv, UnusedAreNew, StopInsideCatch, StoppingIsOld, Owned, WillClear
<1>2. CASE StopCheck(p)
  <2>1. CASE ~AlreadyStopped /\ ~stopping
    <3>1. /\ UNCHANGED <<flags, gen, startVars>>
          /\ stopPc'[p] = "commit"
          /\ \A q \in Callers : q # p => stopPc'[q] = stopPc[q]
      BY <1>2, <2>1 DEF IInv, TypeOK, StopCheck
    <3> QED
      BY <1>2, <3>1, StartsAreCallers
         DEF IInv, UnusedAreNew, StopInsideCatch, StoppingIsOld, Owned, WillClear, StopCheck
  <2>2. CASE AlreadyStopped \/ stopping
    <3>1. /\ UNCHANGED <<flags, gen, started, startGen>>
          /\ stopPc' = [stopPc EXCEPT ![p] = "no"]
          /\ startPc' = IF p \in Starts THEN [startPc EXCEPT ![p] = "finally"] ELSE startPc
      BY <1>2, <2>2 DEF StopCheck, Return
    <3>2. p \in Starts => startPc[p] = "catchStop"
      BY <1>2 DEF IInv, StopInsideCatch, StopCheck
    <3>3. \A s \in Starts : s # p => startPc'[s] = startPc[s]
      BY <3>1 DEF IInv, TypeOK
    <3>4. starting => \E s \in Starts : startPc[s] \in BeforeClear
      BY <2>2 DEF IInv, StoppingIsOld, AlreadyStopped
    <3>5. starting => \E s \in Starts : startPc'[s] \in BeforeClear
      BY <3>2, <3>3, <3>4 DEF BeforeClear, Waiting
    <3>6. UnusedAreNew'
      BY <3>1, <3>2, <3>3 DEF IInv, UnusedAreNew
    <3>7. StopInsideCatch'
      BY <3>1, <3>3, StartsAreCallers DEF IInv, TypeOK, StopInsideCatch
    <3>8. StoppingIsOld' /\ Owned'
      BY <3>1, <3>5 DEF StoppingIsOld, Owned, WillClear, BeforeClear, Waiting
    <3> QED
      BY <3>6, <3>7, <3>8 DEF IInv
  <2> QED
    BY <2>1, <2>2
<1>3. CASE StopCommit(p)
  <2>1. /\ ~starting'
        /\ started' = started
        /\ stopPc' = [stopPc EXCEPT ![p] = "no"]
        /\ startPc' = IF p \in Starts THEN [startPc EXCEPT ![p] = "finally"] ELSE startPc
    BY <1>3 DEF StopCommit, Return
  <2>2. p \in Starts => startPc[p] = "catchStop"
    BY <1>3 DEF IInv, StopInsideCatch, StopCommit
  <2>3. \A s \in Starts : s # p => startPc'[s] = startPc[s]
    BY <2>1 DEF IInv, TypeOK
  <2>4. UnusedAreNew'
    BY <2>1, <2>2, <2>3 DEF IInv, UnusedAreNew
  <2>5. StopInsideCatch'
    BY <2>1, <2>3, StartsAreCallers DEF IInv, TypeOK, StopInsideCatch
  <2> QED
    BY <2>1, <2>4, <2>5 DEF IInv, StoppingIsOld, Owned
<1> QED
  BY <1>1, <1>2, <1>3 DEF StopTunnel

\* A cleanup thread touches none of this except `stopping', which it only clears.
LEMMA OwnerTeardown ==
    ASSUME IInv, TypeOK', NEW t \in DOMAIN teardowns, TeardownThread(t)
    PROVE  IInv'
<1>1. /\ UNCHANGED <<starting, gen, startVars, stopVars>>
      /\ stopping' => stopping
  BY DEF TeardownThread, TeardownCheck, TeardownBackend, TeardownTun, TeardownHev,
         TeardownSignal, TeardownPost
<1> QED
  BY <1>1 DEF IInv, UnusedAreNew, StopInsideCatch, StoppingIsOld, Owned, WillClear

\* A vpn-start thread at work stays the owner; only its finally block ends that.
LEMMA OwnerStart ==
    ASSUME IInv, TypeOK', NEW s \in Starts, StartThread(s)
    PROVE  IInv'
<1>1. /\ started' = started
      /\ startPc[s] \notin {"new", "done", "catchStop"}
      /\ \A r \in Starts : r # s => startPc'[r] = startPc[r] /\ startGen'[r] = startGen[r]
      /\ startPc'[s] # "new"
  BY AfterCheckPcs
     DEF IInv, TypeOK, StartThread, StartStep, StartAwait, StartBumpRead, StartBumpWrite,
         StartClearStopping, StartActivate, StartCheck, StartEngine, StartReady,
         StartFallback, StartBridge, StartTun, StartHev, StartFail, CatchBackend,
         CatchTun, StartFinally, AfterCheck
<1>2. UnusedAreNew'
  BY <1>1 DEF IInv, UnusedAreNew
<1>3. StopInsideCatch'
  <2>1. \A r \in Starts : r # s => stopPc'[r] = stopPc[r]
    BY StartsAreCallers
       DEF IInv, TypeOK, StartThread, StartAwait, StartBumpRead, StartBumpWrite,
           StartClearStopping, StartActivate, StartCheck, StartEngine, StartReady,
           StartFallback, StartBridge, StartTun, StartHev, StartFail, CatchBackend,
           CatchTun, StartFinally
  <2>2. stopPc'[s] = stopPc[s] \/ startPc'[s] = "catchStop"
    BY DEF IInv, TypeOK, StartThread, StartStep, StartAwait, StartBumpRead,
           StartBumpWrite, StartClearStopping, StartActivate, StartCheck, StartEngine,
           StartReady, StartFallback, StartBridge, StartTun, StartHev, StartFail,
           CatchBackend, CatchTun, StartFinally
  <2> QED
    BY <1>1, <2>1, <2>2 DEF IInv, StopInsideCatch
<1>4. StoppingIsOld'
  <2>1. /\ starting' => starting
        /\ stopping' => stopping
        /\ startPc[s] \in BeforeClear => startPc'[s] \in BeforeClear \/ ~stopping'
    BY DEF IInv, TypeOK, BeforeClear, Waiting, AfterCheck,
           StartThread, StartStep, StartAwait, StartBumpRead, StartBumpWrite,
           StartClearStopping, StartActivate, StartCheck, StartEngine, StartReady,
           StartFallback, StartBridge, StartTun, StartHev, StartFail, CatchBackend,
           CatchTun, StartFinally
  <2> QED
    BY <1>1, <2>1 DEF IInv, StoppingIsOld
<1>5. Owned'
  <2>1. CASE StartFinally(s)
    <3>1. /\ gen' = gen /\ stopPc' = stopPc
          /\ starting' => starting /\ gen # startGen[s]
          /\ startPc[s] = "finally"
      BY <2>1 DEF StartFinally, StartStep
    <3> QED
      BY <1>1, <3>1 DEF IInv, Owned, WillClear
  <2>2. CASE ~StartFinally(s)
    <3>1. startPc'[s] # "done"
      BY <2>2, AfterCheckPcs DEF IInv, TypeOK,
           StartThread, StartStep, StartAwait, StartBumpRead, StartBumpWrite,
           StartClearStopping, StartActivate, StartCheck, StartEngine, StartReady,
           StartFallback, StartBridge, StartTun, StartHev, StartFail, CatchBackend,
           CatchTun, StartFinally
    <3>2. startPc'[s] = "finally" => gen' = startGen'[s]
      BY <2>2 DEF IInv, TypeOK,
           StartThread, StartStep, StartAwait, StartBumpRead, StartBumpWrite,
           StartClearStopping, StartActivate, StartCheck, StartEngine, StartReady,
           StartFallback, StartBridge, StartTun, StartHev, StartFail, CatchBackend,
           CatchTun, StartFinally
    <3> QED
      BY <1>1, <3>1, <3>2 DEF Owned, WillClear
  <2> QED
    BY <2>1, <2>2
<1> QED
  BY <1>2, <1>3, <1>4, <1>5 DEF IInv

\* The inductive invariant is preserved by every step.
LEMMA OwnerStep == IInv /\ [Next]_vars => IInv'
<1> SUFFICES ASSUME IInv, [Next]_vars PROVE IInv'
  OBVIOUS
<1>1. TypeOK'
  BY TypeStep DEF IInv
<1>2. CASE Next
  BY <1>1, <1>2, OwnerMain, OwnerStart, OwnerStop, OwnerTeardown DEF Next
<1>3. CASE UNCHANGED vars
  BY <1>1, <1>3
     DEF vars, IInv, UnusedAreNew, StopInsideCatch, StoppingIsOld, Owned, WillClear
<1> QED
  BY <1>2, <1>3

\* `starting', which makes startTunnel refuse every START, is never TRUE without a
\* vpn-start thread alive or a stopTunnel call that is about to clear it.
THEOREM StartingOwned == Spec => []StartingHasOwner
<1>1. IInv => StartingHasOwner
  BY DEF IInv, Owned, WillClear, StartingHasOwner, Live
<1> QED
  BY <1>1, OwnerInit, OwnerStep, PTL DEF Spec

-----------------------------------------------------------------------------
(***************************************************************************)
(* A polite user: a START never meets another start, a STOP no teardown.   *)
(* A STOP may meet a start at any moment; as long as none met one in its   *)
(* wait (~earlyStop), one vpn-start thread is alive at a time, and every   *)
(* stopTunnel call that meets it has a later generation.  So every         *)
(* invariant below is preserved by each step that leaves earlyStop FALSE,  *)
(* and the theorems rest on "earlyStop or the invariant".                  *)
(***************************************************************************)
PoliteUsers == \A i \in Inputs : "any" \notin i.overlap

Busy == (Working \ {"clear", "activate"}) \cup {"catchBackend", "catchTun"}
Past(s) == startPc[s] \notin {"new", "done"} \cup Waiting
NoStop == \A p \in Callers : stopPc[p] = "no"

Polite == "any" \notin input.overlap
OneStart == \A s \in Starts : Live(s) => s = started
FreshStart == \A s \in Starts : startPc[s] \in Waiting => lastCommand = "start" /\ NoStop
Inactive == \A s \in Starts : startPc[s] \in BeforeClear \cup {"activate"} => ~tunnelActive
Later ==
    \A s \in Starts : Past(s) =>
        /\ gen >= startGen[s]
        /\ \A p \in Callers :
             /\ stopPc[p] \in {"bump", "check", "commit"} => stopGen[p] > startGen[s]
             /\ stopPc[p] \in {"check", "commit"} => gen > startGen[s]

OrderInv == IInv /\ Polite /\ OneStart /\ FreshStart /\ Inactive /\ Later

\* Nothing is in flight at the beginning.
LEMMA OrderInit == PoliteUsers => (Init => OrderInv)
<1> SUFFICES ASSUME PoliteUsers, Init PROVE OrderInv
  OBVIOUS
<1>1. IInv
  BY OwnerInit
<1>2. \A s \in Starts : startPc[s] = "new"
  BY DEF Init
<1>3. input \in Inputs
  BY DEF Init
<1> QED
  BY <1>1, <1>2, <1>3
     DEF OrderInv, PoliteUsers, Polite, OneStart, FreshStart, Inactive, Later, Live, Past, Waiting,
         BeforeClear

\* What a START and a STOP find.
LEMMA CommandFinds ==
    ASSUME OrderInv
    PROVE  /\ StartCommand => NoStop /\ NoStart /\ started + 1 \in Starts
           /\ StopCommand \/ Destroy => NoTeardown /\ (earlyStop' \/ ~SomeWaits)
<1>1. ASSUME StartCommand PROVE NoStop /\ NoStart /\ started + 1 \in Starts
  <2>1. NoStart /\ stopPc[Main] = "no"
    BY <1>1 DEF OrderInv, Polite, StartCommand, MayStart, Quiet, MainIdle
  <2>2. \A s \in Starts : stopPc[s] = "no"
    BY <2>1 DEF OrderInv, IInv, StopInsideCatch, NoStart, Live
  <2>3. \A p \in Callers : p = Main \/ p \in Starts
    BY BoundsAssumption DEF Callers, Starts, Main
  <2>4. started \in 0..MaxStarts /\ input.starts \in 0..MaxStarts /\ started < input.starts
    BY <1>1 DEF OrderInv, IInv, TypeOK, StartCommand, Input, Callers
  <2>5. started + 1 \in Starts
    BY <2>4, BoundsAssumption DEF Starts
  <2> QED
    BY <2>1, <2>2, <2>3, <2>5 DEF NoStop
<1>2. ASSUME StopCommand \/ Destroy
      PROVE  NoTeardown /\ (earlyStop' \/ ~SomeWaits)
  <2>1. MayStop /\ (earlyStop' \/ ~SomeWaits)
    BY <1>2 DEF StopCommand, Destroy
  <2> QED
    BY <2>1 DEF MayStop, OrderInv, Polite, Quiet
<1> QED
  BY <1>1, <1>2

\* A command that does not set earlyStop meets no start in its wait.
LEMMA OrderMain ==
    ASSUME OrderInv, IInv', ~earlyStop', StartCommand \/ StopCommand \/ Destroy
    PROVE  OrderInv'
<1>0. IInv /\ Polite /\ OneStart /\ FreshStart /\ Inactive /\ Later /\ TypeOK
  BY DEF OrderInv, IInv
<1>1. CASE StartCommand
  <2> DEFINE n == started + 1
  <2>1. NoStop /\ NoStart /\ n \in Starts
    BY <1>1, CommandFinds
  <2>2. /\ startPc' = [startPc EXCEPT ![n] = "await"] /\ started' = n /\ ~tunnelActive
        /\ lastCommand' = "start" /\ UNCHANGED <<stopPc, tunnelActive, input>>
    BY <1>1 DEF StartCommand
  <2> HIDE DEF n
  <2>3. startPc'[n] = "await" /\ \A s \in Starts \ {n} : startPc'[s] \in {"new", "done"}
    BY <1>0, <2>1, <2>2 DEF TypeOK, NoStart, Live
  <2>4. OneStart'
    BY <2>2, <2>3 DEF OneStart, Live
  <2>5. FreshStart'
    BY <2>1, <2>2 DEF FreshStart, NoStop
  <2>6. Inactive' /\ Polite'
    BY <1>0, <2>2 DEF Inactive, Polite
  <2>7. Later'
    BY <2>3 DEF Later, Past, Waiting
  <2> QED
    BY <2>4, <2>5, <2>6, <2>7 DEF OrderInv
<1>2. CASE StopCommand \/ Destroy
  <2>1. \A s \in Starts : startPc[s] \notin Waiting
    BY <1>2, CommandFinds DEF SomeWaits
  <2>2. /\ UNCHANGED <<flags, gen, startVars, stopGen>>
        /\ stopPc' = [stopPc EXCEPT ![Main] = "read"]
    BY <1>2 DEF StopCommand, Destroy
  <2>3. \A p \in Callers : stopPc'[p] \in {stopPc[p], "read"}
    BY <1>0, <2>2 DEF TypeOK
  <2>4. Later'
    BY <1>0, <2>2, <2>3 DEF Later, Past
  <2>5. OneStart' /\ FreshStart' /\ Inactive' /\ Polite'
    BY <1>0, <2>1, <2>2 DEF OneStart, Live, FreshStart, Inactive, Polite
  <2> QED
    BY <2>4, <2>5 DEF OrderInv
<1> QED
  BY <1>1, <1>2

\* How a stopTunnel call moves.
LEMMA StopMoves ==
    ASSUME IInv, NEW p \in Callers, StopTunnel(p)
    PROVE  /\ stopPc[p] # "no" /\ \A q \in Callers \ {p} : stopPc'[q] = stopPc[q] /\ stopGen'[q] = stopGen[q]
           /\ UNCHANGED <<started, startGen, latch, input, resources, lastCommand>>
           /\ \A s \in Starts : \/ startPc'[s] = startPc[s]
                                \/ s = p /\ startPc[s] = "catchStop" /\ startPc'[s] = "finally"
           /\ tunnelActive' \in {tunnelActive, FALSE}
<1>0. TypeOK /\ StopInsideCatch
  BY DEF IInv
<1>1. CASE StopRead(p) \/ StopBump(p)
  BY <1>0, <1>1 DEF StopRead, StopBump, TypeOK
<1>2. CASE StopCheck(p)
  <2>1. p \in Starts => startPc[p] = "catchStop"
    BY <1>0, <1>2 DEF StopInsideCatch, StopCheck
  <2> QED
    BY <1>0, <1>2, <2>1 DEF StopCheck, Return, TypeOK
<1>3. CASE StopCommit(p)
  <2>1. p \in Starts => startPc[p] = "catchStop"
    BY <1>0, <1>3 DEF StopInsideCatch, StopCommit
  <2> QED
    BY <1>0, <1>3, <2>1 DEF StopCommit, Return, TypeOK
<1> QED
  BY <1>1, <1>2, <1>3 DEF StopTunnel

\* A stopTunnel call takes a generation later than every start that is past its
\* wait.
LEMMA OrderStop ==
    ASSUME OrderInv, IInv', NEW p \in Callers, StopTunnel(p)
    PROVE  OrderInv'
<1>0. IInv /\ Polite /\ OneStart /\ FreshStart /\ Inactive /\ Later /\ TypeOK
  BY DEF OrderInv, IInv
<1>1. /\ stopPc[p] # "no"
      /\ \A q \in Callers \ {p} : stopPc'[q] = stopPc[q] /\ stopGen'[q] = stopGen[q]
      /\ UNCHANGED <<started, startGen, latch, input, resources, lastCommand>>
      /\ \A s \in Starts : \/ startPc'[s] = startPc[s]
                           \/ s = p /\ startPc[s] = "catchStop" /\ startPc'[s] = "finally"
      /\ tunnelActive' \in {tunnelActive, FALSE}
  BY <1>0, StopMoves
<1>2. \A s \in Starts : startPc[s] \notin Waiting /\ startPc'[s] \notin Waiting
  BY <1>0, <1>1 DEF FreshStart, NoStop, Waiting
<1>3. OneStart' /\ FreshStart' /\ Polite'
  BY <1>0, <1>1, <1>2 DEF OneStart, Live, FreshStart, Polite
<1>4. Inactive'
  BY <1>0, <1>1 DEF Inactive, BeforeClear, Waiting
<1>5. \A s \in Starts : Past(s)' => Past(s)
  BY <1>1, <1>2 DEF Past, Waiting
<1>6. Later'
  <2>1. CASE StopRead(p)
    <3>1. stopPc'[p] = "bump" /\ stopGen'[p] = gen + 1 /\ gen' = gen /\ gen \in Nat
      BY <1>0, <2>1 DEF StopRead, TypeOK
    <3>2. ASSUME NEW s \in Starts, Past(s)' PROVE startGen[s] \in Nat /\ gen >= startGen[s]
      BY <1>0, <1>5, <3>2 DEF Later, TypeOK
    <3>3. \A s \in Starts : Past(s)' => stopGen'[p] > startGen[s]
      BY <3>1, <3>2
    <3> QED
      BY <1>0, <1>1, <1>5, <3>1, <3>3 DEF Later
  <2>2. CASE StopBump(p)
    <3>1. /\ stopPc[p] = "bump" /\ stopPc'[p] = "check"
          /\ gen' = stopGen[p] /\ stopGen'[p] = stopGen[p] /\ stopGen[p] \in Nat
      BY <1>0, <2>2 DEF StopBump, TypeOK
    <3>2. ASSUME NEW s \in Starts, Past(s)'
          PROVE  gen' > startGen[s] /\ gen' >= startGen[s]
      <4>1. stopGen[p] > startGen[s] /\ startGen[s] \in Nat
        BY <1>0, <1>5, <3>1, <3>2 DEF Later, TypeOK
      <4> QED
        BY <3>1, <4>1
    <3> QED
      BY <1>0, <1>1, <1>5, <3>1, <3>2 DEF Later
  <2>3. CASE StopCheck(p)
    <3>1. /\ stopPc[p] = "check" /\ stopPc'[p] \in {"no", "commit"}
          /\ gen' = gen /\ stopGen' = stopGen
      BY <1>0, <2>3 DEF StopCheck, Return, TypeOK
    <3> QED
      BY <1>0, <1>1, <1>5, <3>1 DEF Later
  <2>4. CASE StopCommit(p)
    <3>1. stopPc'[p] = "no" /\ gen' = gen /\ stopGen' = stopGen
      BY <1>0, <2>4 DEF StopCommit, Return, TypeOK
    <3> QED
      BY <1>0, <1>1, <1>5, <3>1 DEF Later
  <2> QED
    BY <2>1, <2>2, <2>3, <2>4 DEF StopTunnel
<1> QED
  BY <1>3, <1>4, <1>6 DEF OrderInv

\* A cleanup thread takes no generation.
LEMMA OrderTeardown ==
    ASSUME OrderInv, IInv', NEW t \in DOMAIN teardowns, TeardownThread(t)
    PROVE  OrderInv'
<1>1. UNCHANGED <<starting, tunnelActive, gen, startVars, stopVars, lastCommand>>
  BY DEF TeardownThread, TeardownCheck, TeardownBackend, TeardownTun, TeardownHev,
         TeardownSignal, TeardownPost
<1> QED
  BY <1>1 DEF OrderInv, Polite, OneStart, FreshStart, Inactive, Later, Live, Past, NoStop

\* The steps of a worker, from its first resource to its end.
WorkerStep(s) ==
    \/ StartCheck(s) \/ StartEngine(s) \/ StartReady(s) \/ StartFallback(s) \/ StartBridge(s)
    \/ StartTun(s) \/ StartHev(s) \/ StartFail(s)
    \/ CatchBackend(s) \/ CatchTun(s) \/ StartFinally(s)

\* What a step of a worker, its catch block or its finally may change.
LEMMA WorkerMoves ==
    ASSUME IInv, NEW s \in Starts, WorkerStep(s)
    PROVE  /\ startPc[s] \in Busy \cup {"finally"}
           /\ startPc'[s] \in Busy \cup {"catchStop", "finally", "done"}
           /\ \A r \in Starts \ {s} : startPc'[r] = startPc[r]
           /\ UNCHANGED <<gen, started, startGen, latch, input, stopGen, teardowns, lastCommand, stopping>>
           /\ tunnelActive' \in {tunnelActive, FALSE}
           /\ startPc'[s] \in Busy => tunnelActive' = tunnelActive
           /\ \A p \in Callers : stopPc'[p] \in {stopPc[p], "read"}
           /\ \A p \in Callers \ {s} : stopPc'[p] = stopPc[p]
<1>0. TypeOK
  BY DEF IInv
<1> USE DEF Busy, Working, AfterCheck, StartStep
<1>1. CASE StartCheck(s)
  BY <1>0, <1>1 DEF StartCheck, TypeOK
<1>2. CASE StartEngine(s) \/ StartReady(s) \/ StartFallback(s)
  BY <1>0, <1>2 DEF StartEngine, StartReady, StartFallback, TypeOK
<1>3. CASE StartBridge(s) \/ StartTun(s) \/ StartHev(s) \/ StartFail(s)
  BY <1>0, <1>3 DEF StartBridge, StartTun, StartHev, StartFail, TypeOK
<1>4. CASE CatchBackend(s) \/ StartFinally(s)
  BY <1>0, <1>4 DEF CatchBackend, StartFinally, TypeOK
<1>5. CASE CatchTun(s)
  BY <1>0, <1>5 DEF CatchTun, TypeOK
<1> QED
  BY <1>1, <1>2, <1>3, <1>4, <1>5 DEF WorkerStep

\* The steps before that.
LEMMA EarlyMoves ==
    ASSUME IInv, NEW s \in Starts,
           \/ StartAwait(s) \/ StartBumpRead(s) \/ StartBumpWrite(s)
           \/ StartClearStopping(s) \/ StartActivate(s)
    PROVE  /\ startPc[s] \in BeforeClear \cup {"activate"}
           /\ startPc'[s] \in Waiting \cup {"clear", "activate", "cEngine", "engine"}
           /\ startPc'[s] \in BeforeClear \cup {"activate"} => tunnelActive' = tunnelActive
           /\ startPc'[s] \in Waiting => startPc[s] \in Waiting
           /\ \A r \in Starts \ {s} : startPc'[r] = startPc[r] /\ startGen'[r] = startGen[r]
           /\ UNCHANGED <<started, latch, input, stopPc, stopGen, teardowns, lastCommand, resources>>
<1>0. TypeOK
  BY DEF IInv
<1> USE DEF BeforeClear, Waiting, StartStep
<1>1. CASE StartAwait(s) \/ StartBumpRead(s) \/ StartBumpWrite(s)
  BY <1>0, <1>1 DEF StartAwait, StartBumpRead, StartBumpWrite, TypeOK
<1>2. CASE StartClearStopping(s) \/ StartActivate(s)
  BY <1>0, <1>2 DEF StartClearStopping, StartActivate, TypeOK
<1> QED
  BY <1>1, <1>2

\* A step of a start thread is one of its first five or a step of the worker.
LEMMA StartCases ==
    ASSUME NEW s, StartThread(s)
    PROVE  \/ StartAwait(s) \/ StartBumpRead(s) \/ StartBumpWrite(s)
           \/ StartClearStopping(s) \/ StartActivate(s) \/ WorkerStep(s)
BY DEF StartThread, WorkerStep

\* A start takes its generation when no stopTunnel call is under way.
LEMMA OrderStart ==
    ASSUME OrderInv, IInv', NEW s \in Starts, StartThread(s)
    PROVE  OrderInv'
<1>0. IInv /\ Polite /\ OneStart /\ FreshStart /\ Inactive /\ Later /\ TypeOK
  BY DEF OrderInv, IInv
<1>1. CASE WorkerStep(s)
  <2>1. /\ startPc[s] \in Busy \cup {"finally"}
        /\ startPc'[s] \in Busy \cup {"catchStop", "finally", "done"}
        /\ \A r \in Starts \ {s} : startPc'[r] = startPc[r]
        /\ UNCHANGED <<gen, started, startGen, latch, input, stopGen, teardowns, lastCommand, stopping>>
        /\ tunnelActive' \in {tunnelActive, FALSE}
        /\ \A p \in Callers : stopPc'[p] \in {stopPc[p], "read"}
    BY <1>0, <1>1, WorkerMoves
  <2>2. startPc'[s] \notin BeforeClear \cup {"activate"} /\ startPc'[s] \notin Waiting
    BY <2>1 DEF Busy, Working, AfterCheck, BeforeClear, Waiting
  <2>3. Past(s) /\ Live(s)
    BY <2>1 DEF Past, Live, Busy, Working, AfterCheck, Waiting
  <2>4. OneStart' /\ Polite'
    BY <1>0, <2>1, <2>3 DEF OneStart, Live, Polite
  <2>5. \A r \in Starts \ {s} : startPc'[r] \in {"new", "done"}
    BY <1>0, <2>1, <2>3 DEF OneStart, Live
  <2>6. FreshStart' /\ Inactive'
    BY <2>2, <2>5 DEF FreshStart, Inactive, BeforeClear, Waiting
  <2>7. Later'
    BY <1>0, <2>1, <2>3, <2>5 DEF Later, Past
  <2> QED
    BY <2>4, <2>6, <2>7 DEF OrderInv
<1>2. CASE \/ StartAwait(s) \/ StartBumpRead(s) \/ StartBumpWrite(s)
           \/ StartClearStopping(s) \/ StartActivate(s)
  <2>1. /\ startPc[s] \in BeforeClear \cup {"activate"}
        /\ startPc'[s] \in Waiting \cup {"clear", "activate", "cEngine", "engine"}
        /\ startPc'[s] \in BeforeClear \cup {"activate"} => tunnelActive' = tunnelActive
        /\ startPc'[s] \in Waiting => startPc[s] \in Waiting
        /\ \A r \in Starts \ {s} : startPc'[r] = startPc[r] /\ startGen'[r] = startGen[r]
        /\ UNCHANGED <<started, latch, input, stopPc, stopGen, teardowns, lastCommand, resources>>
    BY <1>0, <1>2, EarlyMoves
  <2>2. Live(s)
    BY <2>1 DEF Live, BeforeClear, Waiting
  <2>3. \A r \in Starts \ {s} : startPc'[r] \in {"new", "done"}
    BY <1>0, <2>1, <2>2 DEF OneStart, Live
  <2>4. OneStart' /\ Polite'
    BY <1>0, <2>1, <2>2, <2>3 DEF OneStart, Live, Polite
  <2>5. FreshStart'
    BY <1>0, <2>1, <2>3 DEF FreshStart, NoStop, Waiting
  <2>6. Inactive'
    BY <1>0, <2>1, <2>3 DEF Inactive, BeforeClear, Waiting
  <2>7. ASSUME Past(s)' PROVE Later'
    <3>1. CASE StartBumpWrite(s)
      <4>1. gen' = startGen[s] /\ startGen' = startGen /\ startGen[s] \in Nat /\ startPc[s] \in Waiting
        BY <1>0, <3>1 DEF StartBumpWrite, StartStep, TypeOK, Waiting
      <4>2. NoStop /\ gen' >= startGen[s]
        BY <1>0, <4>1 DEF FreshStart
      <4>3. \A p \in Callers : stopPc'[p] = "no"
        BY <2>1, <4>2 DEF NoStop
      <4> QED
        BY <2>3, <4>1, <4>2, <4>3 DEF Later, Past
    <3>2. CASE StartClearStopping(s) \/ StartActivate(s)
      <4>1. Past(s) /\ gen' = gen /\ startGen' = startGen
        BY <3>2 DEF StartClearStopping, StartActivate, StartStep, Past, Waiting
      <4> QED
        BY <1>0, <2>1, <2>3, <4>1 DEF Later, Past
    <3>3. CASE StartAwait(s) \/ StartBumpRead(s)
      <4>1. startPc'[s] \in Waiting
        BY <1>0, <3>3 DEF StartAwait, StartBumpRead, StartStep, TypeOK, Waiting
      <4> QED
        BY <2>7, <4>1 DEF Past
    <3> QED
      BY <1>2, <3>1, <3>2, <3>3
  <2>8. ASSUME ~Past(s)' PROVE Later'
    BY <2>3, <2>8 DEF Later, Past
  <2> QED
    BY <2>4, <2>5, <2>6, <2>7, <2>8 DEF OrderInv
<1> QED
  BY <1>1, <1>2, StartCases

\* Once set, the history flag stays set.
LEMMA EarlyStays == earlyStop /\ [Next]_vars => earlyStop'
<1> SUFFICES ASSUME earlyStop, [Next]_vars PROVE earlyStop'
  OBVIOUS
<1>1. ASSUME NEW s \in Starts, StartThread(s) PROVE earlyStop'
  BY <1>1 DEF StartThread, StartAwait, StartBumpRead, StartBumpWrite, StartClearStopping,
         StartActivate, StartCheck, StartEngine, StartReady, StartFallback, StartBridge,
         StartTun, StartHev, StartFail, CatchBackend, CatchTun, StartFinally
<1>2. ASSUME NEW p \in Callers, StopTunnel(p) PROVE earlyStop'
  BY <1>2 DEF StopTunnel, StopRead, StopBump, StopCheck, StopCommit
<1>3. ASSUME NEW t \in DOMAIN teardowns, TeardownThread(t) PROVE earlyStop'
  BY <1>3 DEF TeardownThread, TeardownCheck, TeardownBackend, TeardownTun, TeardownHev,
         TeardownSignal, TeardownPost
<1>4. StartCommand \/ StopCommand \/ Destroy => earlyStop'
  BY DEF StartCommand, StopCommand, Destroy
<1> QED
  BY <1>1, <1>2, <1>3, <1>4 DEF Next, vars

\* Every step that leaves it FALSE keeps the order.
LEMMA OrderStep == OrderInv /\ [Next]_vars /\ ~earlyStop' => OrderInv'
<1> SUFFICES ASSUME OrderInv, [Next]_vars, ~earlyStop' PROVE OrderInv'
  OBVIOUS
<1>1. IInv'
  BY OwnerStep DEF OrderInv
<1>2. CASE Next
  BY <1>1, <1>2, OrderMain, OrderStart, OrderStop, OrderTeardown DEF Next
<1>3. CASE UNCHANGED vars
  BY <1>1, <1>3
     DEF vars, OrderInv, Polite, OneStart, FreshStart, Inactive, Later, Live, Past, NoStop
<1> QED
  BY <1>2, <1>3

-----------------------------------------------------------------------------
(***************************************************************************)
(* The last STOP wins.  A start that a stop has overtaken is doomed: its   *)
(* next check sends it to its catch block.  As long as tunnelActive is     *)
(* TRUE after a STOP, the stop is still at work or such a start is.        *)
(***************************************************************************)
Doomed(s) == startPc[s] \in Busy /\ gen > startGen[s]

Told ==
    lastCommand = "stop" /\ stopPc[Main] \notin {"read", "bump"} =>
        \A s \in Starts : Live(s) => gen > startGen[s]
Obeyed ==
    lastCommand = "stop" /\ tunnelActive => stopPc[Main] # "no" \/ \E s \in Starts : Doomed(s)
Halted == stopping /\ tunnelActive => \E s \in Starts : Doomed(s)
Halting == \A s \in Starts : startPc[s] = "activate" /\ stopping => gen > startGen[s]

StopInv == OrderInv /\ Told /\ Obeyed /\ Halted /\ Halting

\* Nothing is to be stopped at the beginning.
LEMMA StopInit == PoliteUsers => (Init => StopInv)
<1> SUFFICES ASSUME PoliteUsers, Init PROVE StopInv
  OBVIOUS
<1>1. OrderInv
  BY OrderInit
<1>2. lastCommand = "none" /\ stopping = FALSE
  BY DEF Init
<1> QED
  BY <1>1, <1>2 DEF StopInv, Told, Obeyed, Halted, Halting

\* A STOP is on its way until its stopTunnel call has bumped the generation.
LEMMA StopMain ==
    ASSUME StopInv, OrderInv', StartCommand \/ StopCommand \/ Destroy
    PROVE  StopInv'
<1>0. OrderInv /\ IInv /\ TypeOK /\ Told /\ Obeyed /\ Halted /\ Halting
  BY DEF StopInv, OrderInv, IInv
<1>1. CASE StartCommand
  <2> DEFINE n == started + 1
  <2>1. NoStop /\ NoStart /\ n \in Starts
    BY <1>0, <1>1, CommandFinds
  <2>2. /\ startPc' = [startPc EXCEPT ![n] = "await"] /\ ~tunnelActive
        /\ lastCommand' = "start" /\ UNCHANGED tunnelActive
    BY <1>1 DEF StartCommand
  <2> HIDE DEF n
  <2>3. startPc'[n] = "await" /\ \A s \in Starts \ {n} : startPc'[s] \in {"new", "done"}
    BY <1>0, <2>1, <2>2 DEF TypeOK, NoStart, Live
  <2>4. \A s \in Starts : startPc'[s] # "activate"
    BY <2>3
  <2> QED
    BY <2>2, <2>4 DEF StopInv, Told, Obeyed, Halted, Halting
<1>2. CASE StopCommand \/ Destroy
  <2>1. /\ UNCHANGED <<flags, gen, startVars>>
        /\ stopPc' = [stopPc EXCEPT ![Main] = "read"]
    BY <1>2 DEF StopCommand, Destroy
  <2>2. stopPc'[Main] = "read"
    BY <1>0, <2>1, StartsAreCallers DEF TypeOK
  <2> QED
    BY <1>0, <2>1, <2>2 DEF StopInv, Told, Obeyed, Halted, Halting, Doomed
<1> QED
  BY <1>1, <1>2

\* A stopTunnel call that returns early, or commits, leaves the tunnel inactive
\* or a start that is doomed.
LEMMA StopStop ==
    ASSUME StopInv, OrderInv', NEW p \in Callers, StopTunnel(p)
    PROVE  StopInv'
<1>0. /\ OrderInv /\ IInv /\ TypeOK /\ Told /\ Obeyed /\ Halted /\ Halting
      /\ FreshStart /\ Later /\ Main \in Callers
  BY StartsAreCallers DEF StopInv, OrderInv, IInv
<1>1. /\ stopPc[p] # "no"
      /\ \A q \in Callers \ {p} : stopPc'[q] = stopPc[q] /\ stopGen'[q] = stopGen[q]
      /\ UNCHANGED <<started, startGen, latch, input, resources, lastCommand>>
      /\ \A s \in Starts : \/ startPc'[s] = startPc[s]
                           \/ s = p /\ startPc[s] = "catchStop" /\ startPc'[s] = "finally"
      /\ tunnelActive' \in {tunnelActive, FALSE}
  BY <1>0, StopMoves
<1>2. \A s \in Starts : Live(s) => Past(s)
  BY <1>0, <1>1 DEF FreshStart, NoStop, Past, Live
<1>3. "catchStop" \notin Busy /\ "finally" \notin Busy
  BY DEF Busy, Working, AfterCheck
<1>4. \A s \in Starts : /\ Live(s)' => Live(s)
                        /\ startPc'[s] = "activate" => startPc[s] = "activate"
                        /\ startPc[s] \in Busy => startPc'[s] \in Busy
  BY <1>1, <1>3 DEF Live
<1>5. \A s \in Starts : Live(s) /\ gen > startGen[s] => gen' > startGen'[s]
  <2>1. CASE StopBump(p)
    BY <1>0, <1>1, <1>2, <2>1 DEF StopBump, Later
  <2>2. CASE ~StopBump(p)
    BY <1>1, <2>2 DEF StopTunnel, StopRead, StopCheck, StopCommit
  <2> QED
    BY <2>1, <2>2
<1>6. \A s \in Starts : startPc[s] \in Busy \cup {"activate"} => Live(s)
  BY DEF Busy, Working, AfterCheck, Live
<1>7. \A s \in Starts : Doomed(s) => Doomed(s)'
  BY <1>4, <1>5, <1>6 DEF Doomed
<1>8. Told'
  <2>1. CASE p = Main /\ StopBump(p)
    <3>1. gen' = stopGen[Main] /\ stopPc[Main] = "bump"
      BY <2>1 DEF StopBump
    <3>2. ASSUME NEW s \in Starts, Live(s)' PROVE gen' > startGen'[s]
      BY <1>0, <1>1, <1>2, <1>4, <3>1, <3>2 DEF Later
    <3> QED
      BY <3>2 DEF Told
  <2>2. CASE ~(p = Main /\ StopBump(p))
    <3>1. stopPc'[Main] \notin {"read", "bump"} => stopPc[Main] \notin {"read", "bump"}
      BY <1>0, <1>1, <2>2 DEF StopTunnel, StopRead, StopCheck, StopCommit, Return, TypeOK
    <3> QED
      BY <1>0, <1>1, <1>4, <1>5, <3>1 DEF Told
  <2> QED
    BY <2>1, <2>2
<1>9. CASE StopRead(p) \/ StopBump(p)
  <2>1. UNCHANGED flags /\ (p = Main => stopPc'[Main] # "no")
    BY <1>0, <1>9 DEF StopRead, StopBump, TypeOK
  <2>2. Halted' /\ Halting'
    BY <1>0, <1>4, <1>5, <1>6, <1>7, <2>1 DEF Halted, Halting
  <2>3. Obeyed'
    BY <1>0, <1>1, <1>7, <2>1 DEF Obeyed
  <2> QED
    BY <1>8, <2>2, <2>3 DEF StopInv
<1>10. CASE StopCheck(p)
  <2>1. UNCHANGED flags /\ stopPc'[p] \in {"no", "commit"} /\ stopPc[p] = "check"
    BY <1>0, <1>10 DEF StopCheck, Return, TypeOK
  <2>2. Halted' /\ Halting'
    BY <1>0, <1>4, <1>5, <1>6, <1>7, <2>1 DEF Halted, Halting
  <2>3. Obeyed'
    <3>1. CASE p = Main /\ stopPc'[p] = "no"
      <4>1. AlreadyStopped \/ stopping
        BY <1>0, <1>10, <3>1 DEF StopCheck, TypeOK
      <4>2. tunnelActive => \E s \in Starts : Doomed(s)
        BY <1>0, <4>1 DEF AlreadyStopped, Halted
      <4> QED
        BY <1>7, <2>1, <4>2 DEF Obeyed
    <3>2. CASE ~(p = Main /\ stopPc'[p] = "no")
      <4>1. stopPc[Main] # "no" => stopPc'[Main] # "no"
        BY <1>0, <1>1, <2>1, <3>2
      <4> QED
        BY <1>0, <1>1, <1>7, <2>1, <4>1 DEF Obeyed
    <3> QED
      BY <3>1, <3>2
  <2> QED
    BY <1>8, <2>2, <2>3 DEF StopInv
<1>11. CASE StopCommit(p)
  <2>1. tunnelActive' = FALSE /\ gen' = gen /\ stopPc[p] = "commit"
    BY <1>11 DEF StopCommit
  <2>2. ASSUME NEW s \in Starts, startPc'[s] = "activate" PROVE gen' > startGen'[s]
    <3>1. Past(s)
      BY <1>2, <1>4, <1>6, <2>2
    <3> QED
      BY <1>0, <1>1, <2>1, <3>1 DEF Later
  <2> QED
    BY <1>8, <2>1, <2>2 DEF StopInv, Obeyed, Halted, Halting
<1> QED
  BY <1>9, <1>10, <1>11 DEF StopTunnel

\* A cleanup thread does not touch tunnelActive.
LEMMA StopTeardown ==
    ASSUME StopInv, OrderInv', NEW t \in DOMAIN teardowns, TeardownThread(t)
    PROVE  StopInv'
<1>1. /\ UNCHANGED <<starting, tunnelActive, gen, startVars, stopVars, lastCommand>>
      /\ stopping' => stopping
  BY DEF TeardownThread, TeardownCheck, TeardownBackend, TeardownTun, TeardownHev,
         TeardownSignal, TeardownPost
<1> QED
  BY <1>1 DEF StopInv, Told, Obeyed, Halted, Halting, Doomed, Live

\* A start that was overtaken does not reach its end: a check is still before
\* it.
LEMMA StopStart ==
    ASSUME StopInv, OrderInv', NEW s \in Starts, StartThread(s)
    PROVE  StopInv'
<1>0. /\ OrderInv /\ IInv /\ TypeOK /\ Told /\ Obeyed /\ Halted /\ Halting
      /\ OneStart /\ FreshStart /\ Inactive /\ Main \in Callers /\ Main \notin Starts
  <2>1. Main \notin Starts
    BY BoundsAssumption DEF Main, Starts
  <2> QED
    BY <2>1, StartsAreCallers DEF StopInv, OrderInv, IInv
<1>1. CASE WorkerStep(s)
  <2>1. /\ startPc[s] \in Busy \cup {"finally"}
        /\ startPc'[s] \in Busy \cup {"catchStop", "finally", "done"}
        /\ \A r \in Starts \ {s} : startPc'[r] = startPc[r]
        /\ UNCHANGED <<gen, started, startGen, latch, input, stopGen, teardowns, lastCommand, stopping>>
        /\ tunnelActive' \in {tunnelActive, FALSE}
        /\ \A p \in Callers \ {s} : stopPc'[p] = stopPc[p]
    BY <1>0, <1>1, WorkerMoves
  <2>2. stopPc'[Main] = stopPc[Main]
    BY <1>0, <2>1
  <2>3. Live(s)
    BY <2>1 DEF Live, Busy, Working, AfterCheck
  <2>4. \A r \in Starts \ {s} : ~Live(r) /\ ~Live(r)' /\ startPc[r] \notin Busy
    BY <1>0, <2>1, <2>3 DEF OneStart, Live, Busy, Working, AfterCheck
  <2>5. Told'
    BY <1>0, <2>1, <2>2, <2>3, <2>4 DEF Told
  <2>6. Halting'
    <3>1. startPc'[s] # "activate"
      BY <2>1 DEF Busy, Working, AfterCheck
    <3> QED
      BY <2>4, <3>1 DEF Halting, Live
  <2>7. ASSUME Doomed(s) PROVE Doomed(s)' \/ tunnelActive' = FALSE
    <3>1. gen # startGen[s] /\ startPc[s] # "finally"
      BY <1>0, <2>7 DEF Doomed, TypeOK, Busy, Working, AfterCheck
    <3>2. CASE CatchTun(s)
      BY <3>2 DEF CatchTun
    <3>3. CASE ~CatchTun(s)
      <4>1. startPc'[s] \in Busy
        BY <1>0, <1>1, <3>1, <3>3 DEF WorkerStep, StartCheck, StartEngine, StartReady, StartFallback,
             StartBridge, StartTun, StartHev, StartFail, CatchBackend, StartFinally, StartStep,
             TypeOK, Busy, Working, AfterCheck
      <4> QED
        BY <2>1, <2>7, <4>1 DEF Doomed
    <3> QED
      BY <3>2, <3>3
  <2>8. \A r \in Starts : Doomed(r) => r = s
    BY <2>4 DEF Doomed
  <2>9. Obeyed'
    BY <1>0, <2>1, <2>2, <2>7, <2>8 DEF Obeyed
  <2>10. Halted'
    BY <1>0, <2>1, <2>7, <2>8 DEF Halted
  <2> QED
    BY <2>5, <2>6, <2>9, <2>10 DEF StopInv
<1>2. CASE \/ StartAwait(s) \/ StartBumpRead(s) \/ StartBumpWrite(s)
           \/ StartClearStopping(s) \/ StartActivate(s)
  <2>1. /\ startPc[s] \in BeforeClear \cup {"activate"}
        /\ startPc'[s] \in Waiting \cup {"clear", "activate", "cEngine", "engine"}
        /\ \A r \in Starts \ {s} : startPc'[r] = startPc[r] /\ startGen'[r] = startGen[r]
        /\ UNCHANGED <<started, latch, input, stopPc, stopGen, teardowns, lastCommand, resources>>
    BY <1>0, <1>2, EarlyMoves
  <2>2. Live(s)
    BY <2>1 DEF Live, BeforeClear, Waiting
  <2>3. \A r \in Starts \ {s} : startPc'[r] \in {"new", "done"}
    BY <1>0, <2>1, <2>2 DEF OneStart, Live
  <2>4. CASE StartAwait(s) \/ StartBumpRead(s) \/ StartBumpWrite(s)
    <3>1. /\ startPc[s] \in Waiting /\ startPc'[s] # "activate" /\ UNCHANGED flags
      BY <1>0, <2>4 DEF StartAwait, StartBumpRead, StartBumpWrite, StartStep, TypeOK, Waiting
    <3>2. lastCommand' = "start" /\ ~tunnelActive'
      BY <1>0, <2>1, <3>1 DEF FreshStart, Inactive, BeforeClear
    <3>3. \A r \in Starts : startPc'[r] # "activate"
      BY <2>3, <3>1
    <3> QED
      BY <3>2, <3>3 DEF StopInv, Told, Obeyed, Halted, Halting
  <2>5. CASE StartClearStopping(s)
    <3>1. /\ stopping' = FALSE /\ tunnelActive' = tunnelActive /\ gen' = gen /\ startGen' = startGen
      BY <2>5 DEF StartClearStopping
    <3>2. ~tunnelActive'
      BY <1>0, <2>1, <3>1 DEF Inactive
    <3>3. Told'
      BY <1>0, <2>1, <2>2, <2>3, <3>1 DEF Told, Live
    <3> QED
      BY <3>1, <3>2, <3>3 DEF StopInv, Obeyed, Halted, Halting
  <2>6. CASE StartActivate(s)
    <3>1. /\ startPc[s] = "activate" /\ startPc'[s] \in {"cEngine", "engine"}
          /\ stopping' = stopping /\ gen' = gen /\ startGen' = startGen
      BY <1>0, <2>6 DEF StartActivate, StartStep, TypeOK
    <3>2. startPc'[s] \in Busy
      BY <3>1 DEF Busy, Working, AfterCheck
    <3>3. Told'
      BY <1>0, <2>1, <2>2, <2>3, <3>1 DEF Told, Live
    <3>4. gen > startGen[s] => Doomed(s)'
      BY <3>1, <3>2 DEF Doomed
    <3>5. Halted'
      BY <1>0, <3>1, <3>4 DEF Halted, Halting
    <3>6. Obeyed'
      BY <1>0, <2>1, <2>2, <3>4 DEF Obeyed, Told
    <3>7. \A r \in Starts : startPc'[r] # "activate"
      BY <2>3, <3>1
    <3> QED
      BY <3>3, <3>5, <3>6, <3>7 DEF StopInv, Halting
  <2> QED
    BY <1>2, <2>4, <2>5, <2>6
<1> QED
  BY <1>1, <1>2, StartCases

\* Every step preserves it.
LEMMA StopStep == StopInv /\ [Next]_vars /\ ~earlyStop' => StopInv'
<1> SUFFICES ASSUME StopInv, [Next]_vars, ~earlyStop' PROVE StopInv'
  OBVIOUS
<1>1. OrderInv'
  BY OrderStep DEF StopInv
<1>2. CASE Next
  BY <1>1, <1>2, StopMain, StopStart, StopStop, StopTeardown DEF Next
<1>3. CASE UNCHANGED vars
  BY <1>1, <1>3 DEF vars, StopInv, Told, Obeyed, Halted, Halting, Doomed, Live
<1> QED
  BY <1>2, <1>3

\* After a STOP no tunnel is left active, unless some stop met a start before it
\* took its generation: however late a start past that point notices the STOP, the
\* check-then-activate of startTunnelWorker, the early returns of stopTunnel and
\* lost generation updates included.
THEOREM StopHasTheLastWord == PoliteUsers => (Spec => []LastStopWins)
<1> SUFFICES ASSUME PoliteUsers PROVE Spec => []LastStopWins
  OBVIOUS
<1> DEFINE J == earlyStop \/ StopInv
<1>1. J => LastStopWins
  <2> SUFFICES ASSUME StopInv, Quiet, lastCommand = "stop", tunnelActive PROVE FALSE
    BY DEF LastStopWins
  <2>1. stopPc[Main] = "no" /\ \A s \in Starts : startPc[s] \in {"new", "done"}
    BY StartsAreCallers DEF Quiet, NoStart, Live
  <2>2. \A s \in Starts : ~Doomed(s)
    BY <2>1 DEF Doomed, Busy, Working, AfterCheck
  <2> QED
    BY <2>1, <2>2 DEF StopInv, Obeyed
<1>2. Init => J
  BY StopInit
<1>3. J /\ [Next]_vars => J'
  BY StopStep, EarlyStays
<1> QED
  BY <1>1, <1>2, <1>3, PTL DEF Spec

-----------------------------------------------------------------------------
(***************************************************************************)
(* Nothing leaks.  What is up belongs to the last start.  While that start *)
(* works, its catch block will take all of it down; once it is through and *)
(* the tunnel is not active, the newest cleanup thread is on its way to    *)
(* take the rest down, no stopTunnel call can make it skip, and the next   *)
(* start waits for that very thread.                                       *)
(***************************************************************************)
Clean == running = {} /\ tunFd = 0
Idle == \A s \in Starts : startPc[s] \in {"new", "await", "finally", "done"}
Own(s) == {input.engine[s], "hev"} \cup IF input.engine[s] = "slipstream" THEN {"bridge"} ELSE {}

CleanGround ==
    \A s \in Starts :
        startPc[s] \in {"bumpRead", "bumpWrite", "clear", "activate", "catchStop"} => Clean
OwnGround ==
    \A s \in Starts : /\ startPc[s] \in Busy => running \subseteq Own(s)
                      /\ startPc[s] = "catchTun" => running = {}
                      /\ startPc[s] \in {"cBridge", "bridge"} => input.engine[s] = "slipstream"

Cleaning(t) ==
    /\ t # 0 /\ NoStop
    /\ \/ teardowns[t].pc = "check" /\ gen = teardowns[t].gen
       \/ teardowns[t].pc = "backend"
       \/ teardowns[t].pc = "tun" /\ running \subseteq {"hev"}
       \/ teardowns[t].pc = "hev" /\ running \subseteq {"hev"} /\ tunFd = 0
Swept == Idle /\ ~Clean /\ ~tunnelActive => Cleaning(Len(teardowns))

\* The generation a stopTunnel call of the main thread will hand to its cleanup
\* thread is the current one, unless a start's own stop came in between.
Current ==
    stopPc[Main] \in {"check", "commit"} =>
        \/ gen = stopGen[Main]
        \/ Clean /\ \A r \in Starts : startPc[r] \in {"new", "catchStop", "finally", "done"}
Latched == \A s \in Starts : startPc[s] = "await" => latch[s] = Len(teardowns)

CleanInv == OrderInv /\ CleanGround /\ OwnGround /\ Swept /\ Current /\ Latched

\* The parts of the invariant, and the numbers of threads.
LEMMA CleanParts ==
    CleanInv => /\ OrderInv /\ IInv /\ TypeOK /\ CleanGround /\ OwnGround /\ Swept /\ Current
                /\ Latched /\ OneStart /\ FreshStart /\ StopInsideCatch
                /\ Len(teardowns) \in Nat /\ DOMAIN teardowns = 1 .. Len(teardowns)
                /\ Main \in Callers /\ Main \notin Starts /\ Starts \subseteq Callers
<1> SUFFICES ASSUME CleanInv
             PROVE  /\ OrderInv /\ IInv /\ TypeOK /\ CleanGround /\ OwnGround /\ Swept /\ Current
                    /\ Latched /\ OneStart /\ FreshStart /\ StopInsideCatch
                    /\ Len(teardowns) \in Nat /\ DOMAIN teardowns = 1 .. Len(teardowns)
                    /\ Main \in Callers /\ Main \notin Starts /\ Starts \subseteq Callers
  OBVIOUS
<1>1. /\ OrderInv /\ IInv /\ TypeOK /\ CleanGround /\ OwnGround /\ Swept /\ Current
      /\ Latched /\ OneStart /\ FreshStart /\ StopInsideCatch
  BY DEF CleanInv, OrderInv, IInv
<1>2. teardowns \in Seq(Teardown)
  BY <1>1 DEF TypeOK
<1>3. Len(teardowns) \in Nat /\ DOMAIN teardowns = 1 .. Len(teardowns)
  BY <1>2, LenProperties
<1>4. Main \in Callers /\ Main \notin Starts /\ Starts \subseteq Callers
  BY BoundsAssumption DEF Main, Starts, Callers
<1> QED
  BY <1>1, <1>3, <1>4

\* Nothing is up at the beginning.
LEMMA CleanInit == PoliteUsers => (Init => CleanInv)
<1> SUFFICES ASSUME PoliteUsers, Init PROVE CleanInv
  OBVIOUS
<1>1. OrderInv
  BY OrderInit
<1>2. /\ \A s \in Starts : startPc[s] = "new"
      /\ running = {} /\ tunFd = 0 /\ \A p \in Callers : stopPc[p] = "no"
  BY DEF Init
<1>3. "new" \notin Busy
  BY DEF Busy, Working, AfterCheck
<1> QED
  BY <1>1, <1>2, <1>3, StartsAreCallers
     DEF CleanInv, CleanGround, OwnGround, Swept, Current, Latched, Clean

\* A new start remembers the newest cleanup; a STOP finds no cleanup at work.
LEMMA CleanMain ==
    ASSUME CleanInv, OrderInv', StartCommand \/ StopCommand \/ Destroy
    PROVE  CleanInv'
<1>0. /\ OrderInv /\ IInv /\ TypeOK /\ CleanGround /\ OwnGround /\ Swept /\ Current
      /\ Latched /\ OneStart /\ FreshStart
      /\ Len(teardowns) \in Nat /\ DOMAIN teardowns = 1 .. Len(teardowns) /\ Main \in Callers
  BY CleanParts
<1>1. CASE StartCommand
  <2> DEFINE n == started + 1
  <2>1. NoStop /\ NoStart /\ n \in Starts
    BY <1>0, <1>1, CommandFinds
  <2>2. /\ startPc' = [startPc EXCEPT ![n] = "await"] /\ latch' = [latch EXCEPT ![n] = Len(teardowns)]
        /\ UNCHANGED <<stopPc, stopGen, gen, tunnelActive, input, teardowns, running, tunFd>>
    BY <1>1 DEF StartCommand
  <2> HIDE DEF n
  <2>3. startPc'[n] = "await" /\ \A s \in Starts \ {n} : startPc'[s] \in {"new", "done"}
    BY <1>0, <2>1, <2>2 DEF TypeOK, NoStart, Live
  <2>4. Latched'
    BY <1>0, <2>1, <2>2, <2>3 DEF Latched, TypeOK
  <2>5. CleanGround' /\ OwnGround'
    BY <2>3 DEF CleanGround, OwnGround, Busy, Working, AfterCheck
  <2>6. Current'
    BY <1>0, <2>1, <2>2 DEF Current, NoStop
  <2>7. Swept'
    <3>1. Idle
      BY <2>1 DEF Idle, NoStart, Live
    <3> QED
      BY <1>0, <2>2, <3>1 DEF Swept, Cleaning, NoStop, Clean
  <2> QED
    BY <2>4, <2>5, <2>6, <2>7 DEF CleanInv
<1>2. CASE StopCommand \/ Destroy
  <2>1. NoTeardown
    BY <1>0, <1>2, CommandFinds
  <2>2. /\ UNCHANGED <<flags, gen, startVars, stopGen, teardowns, resources>>
        /\ stopPc' = [stopPc EXCEPT ![Main] = "read"]
    BY <1>2 DEF StopCommand, Destroy
  <2>3. stopPc'[Main] = "read"
    BY <1>0, <2>2 DEF TypeOK
  <2>4. ~Cleaning(Len(teardowns))
    <3>1. Len(teardowns) # 0 => teardowns[Len(teardowns)].pc = "done"
      BY <1>0, <2>1 DEF NoTeardown
    <3> QED
      BY <3>1 DEF Cleaning
  <2>5. ~(Idle /\ ~Clean /\ ~tunnelActive)
    BY <1>0, <2>4 DEF Swept
  <2>6. Swept'
    BY <2>2, <2>5 DEF Swept, Idle, Clean
  <2> QED
    BY <1>0, <2>2, <2>3, <2>6
       DEF CleanInv, CleanGround, OwnGround, Current, Latched, Clean, Own
<1> QED
  BY <1>1, <1>2

\* A stopTunnel call that commits starts the cleanup of what is up, with the
\* current generation.
LEMMA CleanStop ==
    ASSUME CleanInv, OrderInv', NEW p \in Callers, StopTunnel(p)
    PROVE  CleanInv'
<1>0. /\ OrderInv /\ IInv /\ TypeOK /\ CleanGround /\ OwnGround /\ Swept /\ Current
      /\ Latched /\ OneStart /\ FreshStart /\ StopInsideCatch
      /\ Len(teardowns) \in Nat /\ DOMAIN teardowns = 1 .. Len(teardowns)
      /\ Main \in Callers /\ Main \notin Starts /\ Starts \subseteq Callers
  BY CleanParts
<1>1. /\ stopPc[p] # "no"
      /\ \A q \in Callers \ {p} : stopPc'[q] = stopPc[q] /\ stopGen'[q] = stopGen[q]
      /\ UNCHANGED <<started, startGen, latch, input, resources, lastCommand>>
      /\ \A s \in Starts : \/ startPc'[s] = startPc[s]
                           \/ s = p /\ startPc[s] = "catchStop" /\ startPc'[s] = "finally"
      /\ tunnelActive' \in {tunnelActive, FALSE}
  BY <1>0, StopMoves
<1>2. \A s \in Starts : startPc[s] \notin Waiting /\ startPc'[s] \notin Waiting
  BY <1>0, <1>1 DEF FreshStart, NoStop, Waiting
<1>3. p = Main \/ p \in Starts
  BY BoundsAssumption DEF Callers, Starts, Main
<1>4. p \in Starts => startPc[p] = "catchStop" /\ Clean
  BY <1>0, <1>1 DEF StopInsideCatch, CleanGround
<1>5. Clean' <=> Clean
  BY <1>1 DEF Clean
<1>6. Latched'
  BY <1>2 DEF Latched, Waiting
<1>7. CleanGround' /\ OwnGround'
  <2>1. "finally" \notin Busy
    BY DEF Busy, Working, AfterCheck
  <2>2. \A s \in Starts : startPc'[s] = startPc[s] \/ startPc'[s] = "finally"
    BY <1>1
  <2>3. CleanGround'
    BY <1>0, <1>5, <2>2 DEF CleanGround
  <2>4. running' = running /\ input' = input
    BY <1>1
  <2>5. OwnGround'
    BY <1>0, <2>1, <2>2, <2>4 DEF OwnGround, Own
  <2> QED
    BY <2>3, <2>5
<1>8. Current'
  <2>1. CASE p = Main
    <3>1. CASE StopRead(p) \/ StopCommit(p)
      <4>1. stopPc'[Main] \notin {"check", "commit"}
        BY <1>0, <2>1, <3>1 DEF StopRead, StopCommit, Return, TypeOK
      <4> QED
        BY <4>1 DEF Current
    <3>2. CASE StopBump(p)
      <4>1. gen' = stopGen'[Main]
        BY <2>1, <3>2 DEF StopBump
      <4> QED
        BY <4>1 DEF Current
    <3>3. CASE StopCheck(p)
      <4>1. stopPc[Main] = "check" /\ UNCHANGED <<gen, stopGen, running, tunFd>>
        BY <2>1, <3>3 DEF StopCheck
      <4>2. \A s \in Starts : startPc'[s] = startPc[s]
        BY <1>0, <1>1, <2>1
      <4> QED
        BY <1>0, <4>1, <4>2 DEF Current, Clean
    <3> QED
      BY <3>1, <3>2, <3>3 DEF StopTunnel
  <2>2. CASE p \in Starts
    <3>1. startPc[p] = "catchStop" /\ Clean /\ Live(p)
      BY <1>4, <2>2 DEF Live
    <3>2. \A r \in Starts \ {p} : startPc[r] \in {"new", "done"}
      BY <1>0, <2>2, <3>1 DEF OneStart, Live
    <3>3. \A r \in Starts : startPc'[r] \in {"new", "catchStop", "finally", "done"}
      BY <1>1, <2>2, <3>1, <3>2
    <3> QED
      BY <1>5, <3>1, <3>3 DEF Current
  <2> QED
    BY <1>3, <2>1, <2>2
<1>9. Swept'
  <2>1. CASE p \in Starts
    BY <1>4, <1>5, <2>1 DEF Swept
  <2>2. CASE p = Main
    <3>1. \A s \in Starts : startPc'[s] = startPc[s]
      BY <1>0, <1>1, <2>2
    <3>2. Idle' <=> Idle
      BY <3>1 DEF Idle
    <3>3. ~Cleaning(Len(teardowns))
      BY <1>1 DEF Cleaning, NoStop
    <3>4. Idle /\ ~Clean => tunnelActive
      BY <1>0, <3>3 DEF Swept
    <3>5. CASE ~StopCommit(p)
      <4>1. tunnelActive' = tunnelActive
        BY <3>5 DEF StopTunnel, StopRead, StopBump, StopCheck
      <4> QED
        BY <1>5, <3>2, <3>4, <4>1 DEF Swept
    <3>6. CASE StopCommit(p)
      <4> SUFFICES ASSUME Idle', ~Clean' PROVE Cleaning(Len(teardowns))'
        BY DEF Swept
      <4> DEFINE r == [gen |-> stopGen[Main], pc |-> "check"]
      <4>1. gen = stopGen[Main]
        BY <1>0, <1>5, <2>2, <3>6 DEF Current, StopCommit
      <4>2. teardowns' = Append(teardowns, r) /\ gen' = gen
        BY <2>2, <3>6 DEF StopCommit
      <4>3. r \in Teardown
        BY <1>0 DEF TypeOK, Teardown, TeardownPcs
      <4>4. Len(teardowns') = Len(teardowns) + 1 /\ teardowns'[Len(teardowns) + 1] = r
        BY <1>0, <4>2, <4>3, AppendProperties DEF TypeOK
      <4>5. \A s \in Starts : stopPc[s] = "no"
        BY <1>0, <3>1 DEF StopInsideCatch, Idle
      <4>6. stopPc' = [stopPc EXCEPT ![Main] = "no"]
        BY <2>2, <3>6 DEF StopCommit, Return
      <4>7. \A q \in Callers : q = Main \/ q \in Starts
        BY BoundsAssumption DEF Callers, Starts, Main
      <4>8. NoStop'
        BY <1>0, <4>5, <4>6, <4>7 DEF NoStop, TypeOK
      <4>9. r.pc = "check" /\ r.gen = gen
        BY <4>1
      <4>10. Len(teardowns') # 0
        BY <1>0, <4>4
      <4> HIDE DEF r
      <4>11. teardowns'[Len(teardowns')] = r
        BY <4>4
      <4> QED
        BY <4>2, <4>8, <4>9, <4>10, <4>11 DEF Cleaning
    <3> QED
      BY <3>5, <3>6
  <2> QED
    BY <1>3, <2>1, <2>2
<1> QED
  BY <1>6, <1>7, <1>8, <1>9 DEF CleanInv

\* The steps of a cleanup thread, as the one that counts sees them.
LEMMA CleanTeardown ==
    ASSUME CleanInv, OrderInv', NEW t \in DOMAIN teardowns, TeardownThread(t)
    PROVE  CleanInv'
<1>0. /\ OrderInv /\ IInv /\ TypeOK /\ CleanGround /\ OwnGround /\ Swept /\ Current
      /\ Latched
      /\ Len(teardowns) \in Nat /\ DOMAIN teardowns = 1 .. Len(teardowns)
      /\ teardowns \in Seq(Teardown)
  BY CleanParts DEF TypeOK
<1>1. UNCHANGED <<tunnelActive, gen, startVars, stopVars>>
  BY DEF TeardownThread, TeardownCheck, TeardownBackend, TeardownTun, TeardownHev,
         TeardownSignal, TeardownPost
<1>2. running' \subseteq running /\ tunFd' \in {tunFd, 0}
  BY DEF TeardownThread, TeardownCheck, TeardownBackend, TeardownTun, TeardownHev,
         TeardownSignal, TeardownPost
<1>3. Clean => Clean'
  BY <1>2 DEF Clean
<1>4. PICK to \in TeardownPcs : teardowns' = [teardowns EXCEPT ![t].pc = to]
  BY DEF TeardownThread, TeardownCheck, TeardownBackend, TeardownTun, TeardownHev,
         TeardownSignal, TeardownPost, TeardownPcs, Goto
<1>5. /\ Len(teardowns') = Len(teardowns)
      /\ \A i \in DOMAIN teardowns \ {t} : teardowns'[i] = teardowns[i]
      /\ teardowns'[t].gen = teardowns[t].gen /\ teardowns'[t].pc = to
  <2>1. teardowns[t] \in Teardown
    BY <1>0, ElementOfSeq
  <2>2. teardowns'[t] = [teardowns[t] EXCEPT !.pc = to] /\ DOMAIN teardowns' = DOMAIN teardowns
    BY <1>4
  <2>3. Len(teardowns') = Len(teardowns)
    <3> DEFINE r == [teardowns[t] EXCEPT !.pc = to]
    <3>1. r \in Teardown
      BY <2>1 DEF Teardown
    <3>2. teardowns' = [teardowns EXCEPT ![t] = r] /\ t \in 1 .. Len(teardowns)
      BY <1>0, <1>4
    <3> HIDE DEF r
    <3> QED
      BY <1>0, <3>1, <3>2, ExceptSeq
  <2> QED
    BY <1>4, <2>1, <2>2, <2>3 DEF Teardown
<1>6. CleanGround' /\ OwnGround' /\ Current' /\ Latched'
  <2>1. CleanGround' /\ Current' /\ Latched'
    BY <1>0, <1>1, <1>3, <1>5 DEF CleanGround, Current, Latched
  <2>2. OwnGround'
    BY <1>0, <1>1, <1>2 DEF OwnGround, Own
  <2> QED
    BY <2>1, <2>2
<1>7. Swept'
  <2> SUFFICES ASSUME Idle', ~Clean', ~tunnelActive' PROVE Cleaning(Len(teardowns))'
    BY DEF Swept
  <2> DEFINE n == Len(teardowns)
  <2>1. Cleaning(n)
    BY <1>0, <1>1, <1>3 DEF Swept, Idle
  <2>2. n # 0 /\ n \in DOMAIN teardowns
    BY <1>0, <2>1 DEF Cleaning
  <2>3. NoStop'
    BY <1>1, <2>1 DEF Cleaning, NoStop
  <2>4. CASE t # n
    <3>1. teardowns'[n] = teardowns[n]
      BY <1>5, <2>2, <2>4
    <3> QED
      BY <1>1, <1>2, <1>5, <2>1, <2>2, <2>3, <3>1 DEF Cleaning
  <2>5. CASE t = n
    <3>1. CASE TeardownCheck(t)
      <4>1. gen = teardowns[t].gen /\ teardowns' = [teardowns EXCEPT ![t].pc = "backend"]
        BY <2>1, <2>5, <3>1 DEF TeardownCheck, Cleaning, Goto
      <4>2. teardowns'[t].pc = "backend"
        BY <1>0, <4>1, ElementOfSeq DEF Teardown
      <4> QED
        BY <1>5, <2>2, <2>3, <2>5, <4>2 DEF Cleaning
    <3>2. CASE TeardownBackend(t)
      <4>1. running' \subseteq {"hev"} /\ teardowns' = [teardowns EXCEPT ![t].pc = "tun"]
        BY <3>2 DEF TeardownBackend, Goto
      <4>2. teardowns'[t].pc = "tun"
        BY <1>0, <4>1, ElementOfSeq DEF Teardown
      <4> QED
        BY <1>5, <2>2, <2>3, <2>5, <4>1, <4>2 DEF Cleaning
    <3>3. CASE TeardownTun(t)
      <4>1. running \subseteq {"hev"}
        BY <2>1, <2>5, <3>3 DEF TeardownTun, Cleaning
      <4>2. /\ running' = running /\ tunFd' = 0
            /\ teardowns' = [teardowns EXCEPT ![t].pc = "hev"]
        BY <3>3 DEF TeardownTun, Goto
      <4>3. teardowns'[t].pc = "hev"
        BY <1>0, <4>2, ElementOfSeq DEF Teardown
      <4> QED
        BY <1>5, <2>2, <2>3, <2>5, <4>1, <4>2, <4>3 DEF Cleaning
    <3>4. CASE TeardownHev(t)
      <4>1. running \subseteq {"hev"} /\ tunFd = 0
        BY <2>1, <2>5, <3>4 DEF TeardownHev, Cleaning
      <4>2. running' = {} /\ tunFd' = 0
        BY <3>4, <4>1 DEF TeardownHev
      <4> QED
        BY <4>2 DEF Clean
    <3>5. CASE TeardownSignal(t) \/ TeardownPost(t)
      BY <2>1, <2>5, <3>5 DEF TeardownSignal, TeardownPost, Cleaning
    <3> QED
      BY <3>1, <3>2, <3>3, <3>4, <3>5 DEF TeardownThread
  <2> QED
    BY <2>4, <2>5
<1> QED
  BY <1>6, <1>7 DEF CleanInv

\* The early steps of a start: it leaves the latch only when the newest cleanup
\* has finished, and so finds nothing of the previous tunnel.
LEMMA CleanEarly ==
    ASSUME ~TeardownSlow, CleanInv, OrderInv', NEW s \in Starts,
           \/ StartAwait(s) \/ StartBumpRead(s) \/ StartBumpWrite(s)
           \/ StartClearStopping(s) \/ StartActivate(s)
    PROVE  CleanInv'
<1>0. /\ OrderInv /\ IInv /\ TypeOK /\ CleanGround /\ OwnGround /\ Swept /\ Current
      /\ Latched /\ OneStart /\ FreshStart /\ Inactive
  BY CleanParts DEF OrderInv
<1>1. /\ startPc[s] \in BeforeClear \cup {"activate"}
      /\ startPc'[s] \in Waiting \cup {"clear", "activate", "cEngine", "engine"}
      /\ startPc'[s] \in Waiting => startPc[s] \in Waiting
      /\ \A r \in Starts \ {s} : startPc'[r] = startPc[r] /\ startGen'[r] = startGen[r]
      /\ UNCHANGED <<started, latch, input, stopPc, stopGen, teardowns, lastCommand, resources>>
  BY <1>0, EarlyMoves
<1>2. Live(s)
  BY <1>1 DEF Live, BeforeClear, Waiting
<1>3. \A r \in Starts \ {s} : startPc[r] \in {"new", "done"} /\ startPc'[r] \in {"new", "done"}
  BY <1>0, <1>1, <1>2 DEF OneStart, Live
<1>4. startPc'[s] # "await" /\ (startPc[s] = "await" => StartAwait(s))
  BY <1>0 DEF StartAwait, StartBumpRead, StartBumpWrite, StartClearStopping, StartActivate,
              StartStep, TypeOK
<1>5. Latched'
  BY <1>3, <1>4 DEF Latched
<1>6. Swept'
  <2>1. startPc'[s] \notin {"new", "await", "finally", "done"}
    BY <1>1, <1>4 DEF Waiting
  <2> QED
    BY <2>1 DEF Swept, Idle
<1>7. Clean
  <2>1. CASE startPc[s] = "await"
    <3>1. StartAwait(s) /\ latch[s] = Len(teardowns)
      BY <1>0, <1>4, <2>1 DEF Latched
    <3>2. Idle /\ ~tunnelActive
      BY <1>0, <1>3, <2>1 DEF Idle, Inactive, BeforeClear, Waiting
    <3>3. latch[s] # 0 => teardowns[Len(teardowns)].pc \in {"post", "done"}
      BY <3>1 DEF StartAwait, Signalled
    <3> QED
      BY <1>0, <3>1, <3>2, <3>3 DEF Swept, Cleaning
  <2>2. CASE startPc[s] # "await"
    BY <1>0, <1>1, <2>2 DEF CleanGround, BeforeClear, Waiting
  <2> QED
    BY <2>1, <2>2
<1>8. Clean'
  BY <1>1, <1>7 DEF Clean
<1>9. CleanGround'
  BY <1>8 DEF CleanGround
<1>10. OwnGround'
  <2>1. running' = {}
    BY <1>8 DEF Clean
  <2> QED
    BY <1>1, <1>3, <2>1 DEF OwnGround, Waiting
<1>11. Current'
  <2>1. CASE startPc[s] \in Waiting
    <3>1. stopPc'[Main] = "no"
      BY <1>0, <1>1, <2>1, CleanParts DEF FreshStart, NoStop
    <3> QED
      BY <3>1 DEF Current
  <2>2. CASE startPc[s] \notin Waiting
    <3>1. gen' = gen
      BY <2>2 DEF StartAwait, StartBumpRead, StartBumpWrite, StartClearStopping,
                  StartActivate, StartStep, Waiting
    <3>2. startPc[s] \in {"clear", "activate"}
      BY <1>1, <2>2 DEF BeforeClear, Waiting
    <3> QED
      BY <1>0, <1>1, <3>1, <3>2 DEF Current
  <2> QED
    BY <2>1, <2>2
<1> QED
  BY <1>5, <1>6, <1>9, <1>10, <1>11 DEF CleanInv

\* What a working start puts up is its own, and its catch block takes down all of it.
LEMMA CleanWorker ==
    ASSUME CleanInv, OrderInv', NEW s \in Starts, WorkerStep(s)
    PROVE  CleanInv'
<1>0. /\ OrderInv /\ IInv /\ TypeOK /\ CleanGround /\ OwnGround /\ Swept /\ Current
      /\ Latched /\ OneStart
      /\ Main \in Callers /\ Main \notin Starts
  BY CleanParts
<1>1. /\ startPc[s] \in Busy \cup {"finally"}
      /\ startPc'[s] \in Busy \cup {"catchStop", "finally", "done"}
      /\ \A r \in Starts \ {s} : startPc'[r] = startPc[r]
      /\ UNCHANGED <<gen, started, startGen, latch, input, stopGen, teardowns, lastCommand, stopping>>
      /\ \A p \in Callers \ {s} : stopPc'[p] = stopPc[p]
  BY <1>0, WorkerMoves
<1>2. Live(s)
  BY <1>1 DEF Live, Busy, Working, AfterCheck
<1>3. \A r \in Starts \ {s} : startPc[r] \in {"new", "done"} /\ startPc'[r] \in {"new", "done"}
  BY <1>0, <1>1, <1>2 DEF OneStart, Live
<1>4. /\ {"new", "done", "finally", "catchStop", "await", "bumpRead", "bumpWrite",
          "clear", "activate"} \cap Busy = {}
      /\ {"catchTun", "cBridge", "bridge"} \subseteq Busy
  BY DEF Busy, Working, AfterCheck
<1>5. Latched'
  BY <1>1, <1>3, <1>4 DEF Latched
<1>6. /\ startPc'[s] = "catchStop" => Clean'
      /\ startPc'[s] \in Busy => running' \subseteq Own(s)
      /\ startPc'[s] = "catchTun" => running' = {}
      /\ startPc'[s] \in {"cBridge", "bridge"} => input.engine[s] = "slipstream"
      /\ startPc[s] = "finally" => startPc'[s] = "done" /\ UNCHANGED <<resources, tunnelActive, stopPc>>
      /\ startPc'[s] = "done" => startPc[s] = "finally"
      /\ startPc'[s] = "finally" => tunnelActive'
  <2>0. /\ startPc \in [Starts -> StartPcs]
        /\ startPc[s] \in Busy => running \subseteq Own(s)
        /\ startPc[s] = "catchTun" => running = {}
        /\ startPc[s] \in {"cBridge", "bridge"} => input.engine[s] = "slipstream"
    BY <1>0 DEF TypeOK, OwnGround
  <2> USE DEF StartStep, resources
  <2>1. CASE StartCheck(s) \/ StartFail(s)
    <3>1. startPc[s] \in Busy /\ startPc[s] # "finally"
      BY <2>1 DEF StartCheck, StartFail, Busy, Working, AfterCheck
    <3>2. running' = running /\ tunFd' = tunFd /\ tunnelActive' = tunnelActive
      BY <2>1 DEF StartCheck, StartFail
    <3>3. /\ startPc'[s] \notin {"catchStop", "catchTun", "done", "cBridge"}
          /\ startPc'[s] = "bridge" => startPc[s] = "cBridge"
          /\ startPc'[s] = "finally" => tunnelActive
      BY <2>0, <2>1 DEF StartCheck, StartFail, AfterCheck
    <3> QED
      BY <2>0, <3>1, <3>2, <3>3
  <2>2. CASE StartEngine(s)
    <3>1. startPc[s] \in {"engine", "engine2"} /\ startPc'[s] \in {"cReady", "cReady2"}
      BY <2>0, <2>2 DEF StartEngine
    <3>2. running' = running \cup {input.engine[s]}
      BY <2>2 DEF StartEngine
    <3>3. startPc[s] \in Busy
      BY <3>1 DEF Busy, Working, AfterCheck
    <3>4. running' \subseteq Own(s)
      BY <2>0, <3>2, <3>3 DEF Own
    <3> QED
      BY <3>1, <3>4
  <2>3. CASE StartReady(s)
    <3>1. startPc[s] \in {"ready", "ready2"} /\ startPc'[s] \in {"cBridge", "cTun"}
      BY <2>0, <2>3 DEF StartReady
    <3>2. running' = running /\ (startPc'[s] = "cBridge" => input.engine[s] = "slipstream")
      BY <2>0, <2>3 DEF StartReady
    <3>3. startPc[s] \in Busy
      BY <3>1 DEF Busy, Working, AfterCheck
    <3> QED
      BY <2>0, <3>1, <3>2, <3>3
  <2>4. CASE StartFallback(s)
    <3>1. startPc[s] = "ready" /\ startPc'[s] = "cEngine2" /\ running' \subseteq running
      BY <2>0, <2>4 DEF StartFallback
    <3>2. startPc[s] \in Busy
      BY <3>1 DEF Busy, Working, AfterCheck
    <3> QED
      BY <2>0, <3>1, <3>2
  <2>5. CASE StartBridge(s)
    <3>1. startPc[s] = "bridge" /\ startPc'[s] = "cTun" /\ running' = running \cup {"bridge"}
      BY <2>0, <2>5 DEF StartBridge
    <3>2. running \subseteq Own(s) /\ "bridge" \in Own(s)
      BY <1>4, <2>0, <3>1 DEF Own
    <3> QED
      BY <3>1, <3>2
  <2>6. CASE StartTun(s)
    <3>1. startPc[s] = "tun" /\ startPc'[s] = "hev" /\ running' = running
      BY <2>0, <2>6 DEF StartTun
    <3>2. startPc[s] \in Busy
      BY <3>1 DEF Busy, Working, AfterCheck
    <3> QED
      BY <2>0, <3>1, <3>2
  <2>7. CASE StartHev(s)
    <3>1. startPc[s] = "hev" /\ startPc'[s] = "cDone" /\ running' = running \cup {"hev"}
      BY <2>0, <2>7 DEF StartHev
    <3>2. startPc[s] \in Busy
      BY <3>1 DEF Busy, Working, AfterCheck
    <3>3. running' \subseteq Own(s)
      BY <2>0, <3>1, <3>2 DEF Own
    <3> QED
      BY <3>1, <3>3
  <2>8. CASE CatchBackend(s)
    <3>1. startPc[s] = "catchBackend" /\ startPc'[s] = "catchTun" /\ running' = running \ Own(s)
      BY <2>0, <2>8 DEF CatchBackend, Own
    <3>2. startPc[s] \in Busy
      BY <3>1 DEF Busy
    <3>3. running' = {}
      BY <2>0, <3>1, <3>2
    <3> QED
      BY <3>1, <3>3
  <2>9. CASE CatchTun(s)
    <3>1. /\ startPc[s] = "catchTun" /\ startPc'[s] = "catchStop"
          /\ running' = running /\ tunFd' = 0
      BY <2>0, <2>9 DEF CatchTun
    <3>2. Clean'
      BY <2>0, <3>1 DEF Clean
    <3> QED
      BY <1>4, <3>1, <3>2
  <2>10. CASE StartFinally(s)
    BY <1>4, <2>0, <2>10 DEF StartFinally
  <2> QED
    BY <2>1, <2>2, <2>3, <2>4, <2>5, <2>6, <2>7, <2>8, <2>9, <2>10 DEF WorkerStep
<1>7. CleanGround'
  BY <1>1, <1>3, <1>4, <1>6 DEF CleanGround
<1>8. Own(s)' = Own(s)
  BY <1>1 DEF Own
<1>9. OwnGround'
  <2> SUFFICES ASSUME NEW r \in Starts
               PROVE  /\ startPc'[r] \in Busy => running' \subseteq Own(r)'
                      /\ startPc'[r] = "catchTun" => running' = {}
                      /\ startPc'[r] \in {"cBridge", "bridge"} => input'.engine[r] = "slipstream"
    BY DEF OwnGround
  <2>1. CASE r = s
    BY <1>1, <1>6, <1>8, <2>1
  <2>2. CASE r # s
    BY <1>3, <1>4, <2>2
  <2> QED
    BY <2>1, <2>2
<1>10. Current'
  <2>1. stopPc'[Main] = stopPc[Main] /\ gen' = gen /\ stopGen' = stopGen
    BY <1>0, <1>1
  <2>2. CASE startPc[s] = "finally"
    <3>1. startPc'[s] = "done" /\ UNCHANGED <<running, tunFd>>
      BY <1>6, <2>2 DEF resources
    <3>2. Clean' <=> Clean
      BY <3>1 DEF Clean
    <3>3. \A r \in Starts : startPc'[r] \in {"new", "catchStop", "finally", "done"}
      BY <1>3, <3>1
    <3> QED
      BY <1>0, <2>1, <3>2, <3>3 DEF Current
  <2>3. CASE startPc[s] # "finally"
    <3>1. startPc[s] \notin {"new", "catchStop", "finally", "done"}
      BY <1>1, <1>4, <2>3
    <3> QED
      BY <1>0, <2>1, <3>1 DEF Current
  <2> QED
    BY <2>2, <2>3
<1>11. Swept'
  <2>1. CASE startPc[s] = "finally"
    <3>1. startPc'[s] = "done" /\ UNCHANGED <<running, tunFd, tunnelActive, stopPc, gen, teardowns>>
      BY <1>1, <1>6, <2>1 DEF resources
    <3>2. Idle
      BY <1>3, <2>1 DEF Idle
    <3> QED
      BY <1>0, <3>1, <3>2 DEF Swept, Clean, Cleaning, NoStop
  <2>2. CASE startPc[s] # "finally"
    <3>1. startPc'[s] \in Busy \cup {"catchStop"} \/ tunnelActive'
      BY <1>1, <1>6, <2>2
    <3>2. startPc'[s] \in Busy \cup {"catchStop"} => ~Idle'
      BY <1>4 DEF Idle
    <3> QED
      BY <3>1, <3>2 DEF Swept
  <2> QED
    BY <2>1, <2>2
<1> QED
  BY <1>5, <1>7, <1>9, <1>10, <1>11 DEF CleanInv

\* Every step keeps the ground clean, provided no teardown outlasts the wait.
LEMMA CleanStep == ~TeardownSlow => (CleanInv /\ [Next]_vars /\ ~earlyStop' => CleanInv')
<1> SUFFICES ASSUME ~TeardownSlow, CleanInv, [Next]_vars, ~earlyStop' PROVE CleanInv'
  OBVIOUS
<1>1. OrderInv'
  BY OrderStep DEF CleanInv
<1>2. CASE Next
  <2>1. ASSUME NEW s \in Starts, StartThread(s) PROVE CleanInv'
    BY <1>1, <2>1, StartCases, CleanEarly, CleanWorker
  <2> QED
    BY <1>1, <1>2, <2>1, CleanMain, CleanStop, CleanTeardown DEF Next
<1>3. CASE UNCHANGED vars
  BY <1>1, <1>3
     DEF vars, CleanInv, CleanGround, OwnGround, Swept, Current, Latched, Clean, Idle, Own,
         Cleaning, NoStop
<1> QED
  BY <1>2, <1>3

\* When the service is at rest and the tunnel is not active, no engine, bridge, TUN
\* or hev is left: for users who do not command at every moment, as long as no stop
\* met a start before its generation, and when teardowns are faster than
\* TEARDOWN_WAIT_MS.
THEOREM RestIsClean == PoliteUsers /\ ~TeardownSlow => (Spec => []NothingLeaks)
<1> SUFFICES ASSUME PoliteUsers, ~TeardownSlow PROVE Spec => []NothingLeaks
  OBVIOUS
<1> DEFINE J == earlyStop \/ CleanInv
<1>1. J => NothingLeaks
  <2> SUFFICES ASSUME CleanInv, Quiet, ~tunnelActive PROVE Clean
    BY DEF NothingLeaks, Clean
  <2>1. Idle
    BY DEF Quiet, NoStart, Live, Idle
  <2>2. Len(teardowns) # 0 => teardowns[Len(teardowns)].pc = "done"
    BY CleanParts DEF Quiet, NoTeardown
  <2> QED
    BY <2>1, <2>2, CleanParts DEF Swept, Cleaning
<1>2. Init => J
  BY CleanInit
<1>3. J /\ [Next]_vars => J'
  BY CleanStep, EarlyStays
<1> QED
  BY <1>1, <1>2, <1>3, PTL DEF Spec

\* A start that waited for the previous teardown begins its work with no engine,
\* bridge, TUN or hev of an earlier tunnel around ("wait first, bump after"), as long
\* as no stop met a start before its generation.
THEOREM GroundIsClean == PoliteUsers /\ ~TeardownSlow => (Spec => StartsOnCleanGround)
<1> SUFFICES ASSUME PoliteUsers, ~TeardownSlow PROVE Spec => StartsOnCleanGround
  OBVIOUS
<1> DEFINE J == earlyStop \/ CleanInv
           A == \A s \in Starts : startPc[s] = "activate" /\ startPc'[s] # "activate" /\ ~earlyStop
                                    => running = {} /\ tunFd = 0
<1>1. J => A
  BY DEF CleanInv, CleanGround, Clean
<1>2. Init => J
  BY CleanInit
<1>3. J /\ [Next]_vars => J'
  BY CleanStep, EarlyStays
<1>4. J /\ [Next]_vars => [A]_vars
  BY <1>1
<1> HIDE DEF A
<1> HIDE DEF J
<1>5. Spec => [][A]_vars
  BY <1>2, <1>3, <1>4, PTL DEF Spec
<1> QED
  BY <1>5 DEF StartsOnCleanGround, A

-----------------------------------------------------------------------------
(***************************************************************************)
(* The tunnel at rest is whole.  A user who cancels starts, or switches    *)
(* during teardowns, but not both, never has a cleanup thread at work      *)
(* beside a start that is not overtaken: what that start puts up stays up. *)
(***************************************************************************)
OneOverlap ==
    ~({"cancel", "switch"} \subseteq input.overlap) /\ ~({"early", "switch"} \subseteq input.overlap)
Switching == "switch" \in input.overlap
Harmless == \A t \in DOMAIN teardowns : Signalled(t)
AtWork == Busy \cup {"clear", "activate"}

CalmStart ==
    \A s \in Starts : \/ startPc[s] \in {"bumpRead", "bumpWrite"}
                      \/ startPc[s] \in AtWork /\ gen = startGen[s]
                      => Harmless
CalmRest == Idle /\ tunnelActive => Harmless
CalmPast ==
    Switching \/ (\E s \in Starts : startPc[s] = "await") =>
        \A t \in DOMAIN teardowns : t # Len(teardowns) => Signalled(t)
CalmSwitch ==
    Switching =>
        /\ ~NoStop \/ (\E s \in Starts : Past(s) /\ startPc[s] # "finally") => Harmless
        /\ stopPc[Main] # "no" => NoStart
Caught == \A s \in Starts : startPc[s] = "catchStop" => ~tunnelActive

\* What a start that is not overtaken has put up so far.
Built ==
    \A s \in Starts : gen = startGen[s] =>
        /\ startPc[s] \in {"cReady", "ready", "cReady2", "ready2", "cBridge", "bridge"} =>
             input.engine[s] \in running
        /\ startPc[s] \in {"cTun", "tun", "hev", "cDone"} => Own(s) \ {"hev"} \subseteq running
        /\ startPc[s] \in {"hev", "cDone"} => tunFd # 0
        /\ startPc[s] = "cDone" => "hev" \in running
Whole == Idle /\ tunnelActive => started \in Starts /\ running = Own(started) /\ tunFd # 0

WholeParts == CalmStart /\ CalmRest /\ CalmPast /\ CalmSwitch /\ Caught /\ Built /\ Whole
WholeInv == CleanInv /\ (OneOverlap => WholeParts)

\* Where the progress of a start matters it is at work, and past its wait.
LEMMA AtWorkIs ==
    /\ \A s \in Starts : startPc[s] \in AtWork => Past(s) /\ Live(s) /\ startPc[s] # "finally"
    /\ {"cReady", "ready", "cReady2", "ready2", "cBridge", "bridge", "cTun", "tun", "hev",
        "cDone", "clear", "activate"} \subseteq AtWork
    /\ {"new", "await", "bumpRead", "bumpWrite", "finally", "done", "catchStop"} \cap AtWork = {}
BY DEF AtWork, Busy, Working, AfterCheck, Past, Live, Waiting

\* At the beginning there is nothing.
LEMMA WholeInit == PoliteUsers => (Init => WholeInv)
<1> SUFFICES ASSUME PoliteUsers, Init PROVE WholeInv
  OBVIOUS
<1>1. CleanInv
  BY CleanInit
<1>2. /\ \A s \in Starts : startPc[s] = "new"
      /\ \A p \in Callers : stopPc[p] = "no"
      /\ ~tunnelActive /\ teardowns = <<>>
  BY DEF Init
<1>3. Harmless
  BY <1>2 DEF Harmless
<1>4. CalmStart /\ CalmRest /\ Caught /\ Built /\ Whole
  BY <1>2, <1>3 DEF CalmStart, CalmRest, Caught, Built, Whole
<1>5. CalmPast
  BY <1>2 DEF CalmPast
<1>6. CalmSwitch
  <2>1. NoStart /\ Main \in Callers
    BY <1>1, <1>2, CleanParts DEF NoStart, Live
  <2> QED
    BY <1>3, <2>1 DEF CalmSwitch
<1> QED
  BY <1>1, <1>4, <1>5, <1>6 DEF WholeInv, WholeParts

\* A command meets cleanup threads that are past their work, or starts that wait
\* for them.
LEMMA WholeMain ==
    ASSUME CleanInv, OneOverlap, WholeParts, StartCommand \/ StopCommand \/ Destroy
    PROVE  WholeParts'
<1>0. /\ OrderInv /\ TypeOK /\ CalmStart /\ CalmRest /\ CalmPast /\ CalmSwitch /\ Caught /\ Built /\ Whole
      /\ Len(teardowns) \in Nat /\ DOMAIN teardowns = 1 .. Len(teardowns) /\ Main \in Callers /\ Polite
  BY CleanParts DEF WholeParts, OrderInv
<1>1. CASE StartCommand
  <2> DEFINE n == started + 1
  <2>1. NoStop /\ NoStart /\ n \in Starts
    BY <1>0, <1>1, CommandFinds
  <2>2. /\ startPc' = [startPc EXCEPT ![n] = "await"] /\ ~tunnelActive /\ MayStart
        /\ UNCHANGED <<stopPc, stopGen, gen, tunnelActive, input, teardowns, running, tunFd>>
    BY <1>1 DEF StartCommand
  <2> HIDE DEF n
  <2>3. startPc'[n] = "await" /\ \A s \in Starts \ {n} : startPc'[s] \in {"new", "done"}
    BY <1>0, <2>1, <2>2 DEF TypeOK, NoStart, Live
  <2>4. \A s \in Starts : startPc'[s] \in {"await", "new", "done"}
    BY <2>3
  <2>5. CalmStart'
    BY <2>4, AtWorkIs DEF CalmStart
  <2>6. CalmRest' /\ Whole'
    BY <2>2 DEF CalmRest, Whole
  <2>7. CalmPast'
    <3>1. CASE Switching
      BY <1>0, <2>2, <3>1 DEF CalmPast, Signalled
    <3>2. CASE ~Switching
      <4>1. NoTeardown
        BY <1>0, <2>2, <3>2 DEF MayStart, Polite, Switching, Quiet
      <4> QED
        BY <2>2, <4>1 DEF CalmPast, NoTeardown, Signalled
    <3> QED
      BY <3>1, <3>2
  <2>8. CalmSwitch'
    <3>1. NoStop' /\ stopPc'[Main] = "no"
      BY <1>0, <2>1, <2>2 DEF NoStop
    <3> QED
      BY <2>4, <3>1 DEF CalmSwitch, Past, Waiting
  <2>9. Caught' /\ Built'
    BY <2>4 DEF Caught, Built
  <2> QED
    BY <2>5, <2>6, <2>7, <2>8, <2>9 DEF WholeParts
<1>2. CASE StopCommand \/ Destroy
  <2>1. UNCHANGED <<flags, gen, startVars, stopGen, teardowns, resources>> /\ MayStop
    BY <1>2 DEF StopCommand, Destroy
  <2>2. CalmStart' /\ CalmRest' /\ CalmPast' /\ Caught' /\ Built' /\ Whole'
    BY <1>0, <2>1 DEF CalmStart, CalmRest, CalmPast, Caught, Built, Whole, Harmless, Signalled,
                      Idle, Own, Switching
  <2>3. CalmSwitch'
    <3> SUFFICES ASSUME Switching PROVE Harmless' /\ NoStart'
      BY <2>1 DEF CalmSwitch, Switching
    <3>1. Quiet
      BY <1>0, <2>1 DEF MayStop, Polite, Switching, OneOverlap
    <3>2. Harmless
      BY <3>1 DEF Quiet, NoTeardown, Harmless, Signalled
    <3>3. NoStart
      BY <3>1 DEF Quiet
    <3> QED
      BY <2>1, <3>2, <3>3 DEF Harmless, Signalled, NoStart, Live
  <2> QED
    BY <2>2, <2>3 DEF WholeParts
<1> QED
  BY <1>1, <1>2

\* A stopTunnel call overtakes every start at work before it starts a cleanup.
LEMMA WholeStop ==
    ASSUME CleanInv, OneOverlap, WholeParts, NEW p \in Callers, StopTunnel(p)
    PROVE  WholeParts'
<1>0. /\ OrderInv /\ IInv /\ TypeOK /\ CalmStart /\ CalmRest /\ CalmPast /\ CalmSwitch /\ Caught
      /\ Built /\ Whole /\ Len(teardowns) \in Nat /\ DOMAIN teardowns = 1 .. Len(teardowns)
      /\ Main \in Callers /\ Main \notin Starts /\ Starts \subseteq Callers
      /\ OneStart /\ FreshStart /\ StopInsideCatch /\ Later
  BY CleanParts DEF WholeParts, OrderInv
<1>1. /\ stopPc[p] # "no"
      /\ \A q \in Callers \ {p} : stopPc'[q] = stopPc[q] /\ stopGen'[q] = stopGen[q]
      /\ UNCHANGED <<started, startGen, latch, input, resources, lastCommand>>
      /\ \A s \in Starts : \/ startPc'[s] = startPc[s]
                           \/ s = p /\ startPc[s] = "catchStop" /\ startPc'[s] = "finally"
      /\ tunnelActive' \in {tunnelActive, FALSE}
  BY <1>0, StopMoves
<1>2. \A s \in Starts : startPc[s] \notin Waiting /\ startPc'[s] \notin Waiting
  BY <1>0, <1>1 DEF FreshStart, NoStop, Waiting
<1>3. ~NoStop /\ (p = Main \/ p \in Starts)
  BY <1>1, BoundsAssumption DEF NoStop, Callers, Starts, Main
<1>4. \A s \in Starts : startPc'[s] \in AtWork => startPc[s] = startPc'[s]
  BY <1>1, AtWorkIs
<1>5. \A s \in Starts : startPc[s] \in AtWork /\ gen' = startGen[s] => gen' = gen /\ ~StopCommit(p)
  <2> SUFFICES ASSUME NEW s \in Starts, startPc[s] \in AtWork, gen' = startGen[s]
               PROVE  gen' = gen /\ ~StopCommit(p)
    OBVIOUS
  <2>1. Past(s) /\ startGen[s] \in Nat /\ stopGen[p] \in Nat /\ gen \in Nat
    BY <1>0, AtWorkIs DEF TypeOK
  <2>2. ~StopBump(p)
    <3> SUFFICES ASSUME StopBump(p) PROVE FALSE
      OBVIOUS
    <3>1. stopPc[p] = "bump" /\ gen' = stopGen[p]
      BY DEF StopBump
    <3>2. stopGen[p] > startGen[s]
      BY <1>0, <2>1, <3>1 DEF Later
    <3> QED
      BY <2>1, <3>1, <3>2
  <2>3. gen' = gen
    BY <2>2 DEF StopTunnel, StopRead, StopCheck, StopCommit
  <2>4. ~StopCommit(p)
    <3> SUFFICES ASSUME StopCommit(p) PROVE FALSE
      OBVIOUS
    <3>1. stopPc[p] = "commit"
      BY DEF StopCommit
    <3>2. gen > startGen[s]
      BY <1>0, <2>1, <3>1 DEF Later
    <3> QED
      BY <2>1, <2>3, <3>2
  <2> QED
    BY <2>3, <2>4
<1>6. ~StopCommit(p) => teardowns' = teardowns /\ tunnelActive' = tunnelActive
  BY DEF StopTunnel, StopRead, StopBump, StopCheck
<1>7. StopCommit(p) => ~tunnelActive'
  BY DEF StopCommit
<1>8. Idle' /\ tunnelActive' => Idle /\ tunnelActive /\ ~StopCommit(p)
  <2> SUFFICES ASSUME Idle', tunnelActive' PROVE Idle /\ tunnelActive /\ ~StopCommit(p)
    OBVIOUS
  <2>1. tunnelActive /\ ~StopCommit(p)
    BY <1>6, <1>7
  <2>2. \A s \in Starts : startPc[s] # "catchStop"
    BY <1>0, <2>1 DEF Caught
  <2>3. \A s \in Starts : startPc'[s] = startPc[s]
    BY <1>1, <2>2
  <2> QED
    BY <2>1, <2>3 DEF Idle
<1>9. CalmStart'
  <2> SUFFICES ASSUME NEW s \in Starts, startPc'[s] \in AtWork, gen' = startGen'[s] PROVE Harmless'
    BY <1>2 DEF CalmStart, Waiting
  <2>1. startPc[s] \in AtWork /\ gen = startGen[s] /\ teardowns' = teardowns
    BY <1>1, <1>4, <1>5, <1>6
  <2> QED
    BY <1>0, <2>1 DEF CalmStart, Harmless, Signalled
<1>10. CalmRest' /\ Whole'
  <2> SUFFICES ASSUME Idle', tunnelActive'
               PROVE  Harmless' /\ (started \in Starts /\ running = Own(started) /\ tunFd # 0)'
    BY DEF CalmRest, Whole
  <2>1. Idle /\ tunnelActive /\ teardowns' = teardowns
    BY <1>6, <1>8
  <2>2. Harmless'
    BY <1>0, <2>1 DEF CalmRest, Harmless, Signalled
  <2> QED
    BY <1>0, <1>1, <2>1, <2>2 DEF Whole, Own
<1>11. Caught'
  BY <1>0, <1>1 DEF Caught
<1>12. Built'
  <2> SUFFICES ASSUME NEW s \in Starts, gen' = startGen'[s], startPc'[s] \in AtWork
               PROVE  /\ startPc'[s] \in {"cReady", "ready", "cReady2", "ready2", "cBridge", "bridge"} =>
                           input'.engine[s] \in running'
                      /\ startPc'[s] \in {"cTun", "tun", "hev", "cDone"} => Own(s)' \ {"hev"} \subseteq running'
                      /\ startPc'[s] \in {"hev", "cDone"} => tunFd' # 0
                      /\ startPc'[s] = "cDone" => "hev" \in running'
    BY AtWorkIs DEF Built
  <2>1. startPc'[s] = startPc[s] /\ gen = startGen[s]
    BY <1>1, <1>4, <1>5
  <2>2. Own(s)' = Own(s) /\ input' = input /\ running' = running /\ tunFd' = tunFd
    BY <1>1 DEF Own
  <2> QED
    BY <1>0, <2>1, <2>2 DEF Built
<1>13. CASE ~StopCommit(p)
  <2>1. teardowns' = teardowns
    BY <1>6, <1>13
  <2>2. CalmPast'
    BY <1>0, <1>1, <1>2, <2>1 DEF CalmPast, Switching, Signalled, Waiting
  <2>3. CalmSwitch'
    <3> SUFFICES ASSUME Switching PROVE Harmless' /\ (stopPc'[Main] # "no" => NoStart')
      BY <1>1 DEF CalmSwitch, Switching
    <3>1. Harmless'
      BY <1>0, <1>3, <2>1 DEF CalmSwitch, Harmless, Signalled
    <3>2. stopPc'[Main] # "no" => stopPc[Main] # "no"
      BY <1>0, <1>1
    <3>3. NoStart => NoStart'
      BY <1>1 DEF NoStart, Live
    <3> QED
      BY <1>0, <3>1, <3>2, <3>3 DEF CalmSwitch
  <2> QED
    BY <1>9, <1>10, <1>11, <1>12, <2>2, <2>3 DEF WholeParts
<1>14. CASE StopCommit(p)
  <2> DEFINE r == [gen |-> stopGen[p], pc |-> "check"]
  <2>1. teardowns' = Append(teardowns, r) /\ stopPc' = [stopPc EXCEPT ![p] = "no"]
    BY <1>14 DEF StopCommit, Return
  <2>2. r \in Teardown /\ teardowns \in Seq(Teardown)
    BY <1>0 DEF TypeOK, Teardown, TeardownPcs
  <2> HIDE DEF r
  <2>3. /\ Len(teardowns') = Len(teardowns) + 1 /\ DOMAIN teardowns' = 1 .. Len(teardowns) + 1
        /\ \A t \in 1 .. Len(teardowns) : teardowns'[t] = teardowns[t]
    BY <2>1, <2>2, AppendProperties
  <2>4. CalmPast'
    <3> SUFFICES ASSUME Switching
                 PROVE  \A t \in DOMAIN teardowns' : t # Len(teardowns') => Signalled(t)'
      BY <1>1, <1>2 DEF CalmPast, Switching, Waiting
    <3>1. Harmless
      BY <1>0, <1>3 DEF CalmSwitch
    <3> QED
      BY <1>0, <2>3, <3>1 DEF Harmless, Signalled
  <2>5. CalmSwitch'
    <3> SUFFICES ASSUME Switching
                 PROVE  /\ NoStop' /\ ~(\E s \in Starts : Past(s)' /\ startPc'[s] # "finally")
      <4>1. Main \in Callers
        BY <1>0
      <4> QED
        BY <1>1, <4>1 DEF CalmSwitch, Switching, NoStop
    <3>1. CASE p = Main
      <4>1. NoStart
        BY <1>0, <1>1, <3>1 DEF CalmSwitch
      <4>2. \A s \in Starts : startPc'[s] = startPc[s] /\ startPc[s] \in {"new", "done"} /\ stopPc[s] = "no"
        BY <1>0, <1>1, <4>1 DEF NoStart, Live, StopInsideCatch
      <4>3. \A q \in Callers : q = Main \/ q \in Starts
        BY BoundsAssumption DEF Callers, Starts, Main
      <4>4. NoStop'
        BY <1>0, <2>1, <3>1, <4>2, <4>3 DEF NoStop, TypeOK
      <4> QED
        BY <4>2, <4>4 DEF Past
    <3>2. CASE p \in Starts
      <4>1. startPc[p] = "catchStop" /\ Live(p)
        BY <1>0, <1>1, <3>2 DEF StopInsideCatch, Live
      <4>2. \A s \in Starts \ {p} : startPc[s] \in {"new", "done"}
        BY <1>0, <3>2, <4>1 DEF OneStart, Live
      <4>3. \A s \in Starts \ {p} : stopPc[s] = "no" /\ startPc'[s] \in {"new", "done"}
        BY <1>0, <1>1, <4>2 DEF StopInsideCatch
      <4>4. stopPc[Main] = "no"
        BY <1>0, <3>2, <4>1 DEF CalmSwitch, NoStart
      <4>5. startPc'[p] = "finally"
        BY <1>0, <1>14, <3>2 DEF StopCommit, Return, TypeOK
      <4>6. \A q \in Callers : q = Main \/ q \in Starts
        BY BoundsAssumption DEF Callers, Starts, Main
      <4>7. NoStop'
        BY <1>0, <2>1, <4>3, <4>4, <4>6 DEF NoStop, TypeOK
      <4> QED
        BY <4>3, <4>5, <4>7 DEF Past
    <3> QED
      BY <1>3, <3>1, <3>2
  <2> QED
    BY <1>9, <1>10, <1>11, <1>12, <2>4, <2>5 DEF WholeParts
<1> QED
  BY <1>13, <1>14

\* A cleanup thread that has released its latch touches nothing any more.
LEMMA WholeTeardown ==
    ASSUME CleanInv, OneOverlap, WholeParts, NEW t \in DOMAIN teardowns, TeardownThread(t)
    PROVE  WholeParts'
<1>0. /\ TypeOK /\ CalmStart /\ CalmRest /\ CalmPast /\ CalmSwitch /\ Caught /\ Built /\ Whole
      /\ teardowns \in Seq(Teardown) /\ DOMAIN teardowns = 1 .. Len(teardowns)
  BY CleanParts DEF WholeParts, TypeOK
<1>1. UNCHANGED <<tunnelActive, gen, startVars, stopVars>>
  BY DEF TeardownThread, TeardownCheck, TeardownBackend, TeardownTun, TeardownHev,
         TeardownSignal, TeardownPost
<1>2. PICK to \in TeardownPcs : /\ teardowns' = [teardowns EXCEPT ![t].pc = to]
                                /\ Signalled(t) => to = "done" /\ UNCHANGED <<running, tunFd>>
  BY DEF TeardownThread, TeardownCheck, TeardownBackend, TeardownTun, TeardownHev,
         TeardownSignal, TeardownPost, TeardownPcs, Goto, Signalled
<1>3. /\ Len(teardowns') = Len(teardowns) /\ DOMAIN teardowns' = DOMAIN teardowns
      /\ \A i \in DOMAIN teardowns \ {t} : teardowns'[i] = teardowns[i]
      /\ teardowns'[t].pc = to
  <2> DEFINE r == [teardowns[t] EXCEPT !.pc = to]
  <2>1. teardowns[t] \in Teardown
    BY <1>0, ElementOfSeq
  <2>2. r \in Teardown /\ r.pc = to
    BY <2>1 DEF Teardown
  <2>3. teardowns' = [teardowns EXCEPT ![t] = r] /\ t \in 1 .. Len(teardowns)
    BY <1>0, <1>2
  <2> HIDE DEF r
  <2> QED
    BY <1>0, <2>2, <2>3, ExceptSeq
<1>4. \A i \in DOMAIN teardowns : Signalled(i) => Signalled(i)'
  BY <1>2, <1>3 DEF Signalled
<1>5. Harmless => Harmless' /\ UNCHANGED <<running, tunFd>>
  BY <1>2, <1>3, <1>4 DEF Harmless
<1>6. CalmStart' /\ CalmRest' /\ CalmPast' /\ Caught'
  BY <1>0, <1>1, <1>3, <1>4, <1>5 DEF CalmStart, CalmRest, CalmPast, Caught, Idle, Switching
<1>7. CalmSwitch'
  BY <1>0, <1>1, <1>5 DEF CalmSwitch, Switching, NoStop, Past, NoStart, Live
<1>8. Built'
  <2> SUFFICES ASSUME NEW s \in Starts, gen' = startGen'[s], startPc'[s] \in AtWork
               PROVE  /\ startPc'[s] \in {"cReady", "ready", "cReady2", "ready2", "cBridge", "bridge"} =>
                           input'.engine[s] \in running'
                      /\ startPc'[s] \in {"cTun", "tun", "hev", "cDone"} => Own(s)' \ {"hev"} \subseteq running'
                      /\ startPc'[s] \in {"hev", "cDone"} => tunFd' # 0
                      /\ startPc'[s] = "cDone" => "hev" \in running'
    BY AtWorkIs DEF Built
  <2>1. Harmless /\ Own(s)' = Own(s)
    BY <1>0, <1>1 DEF CalmStart, Own
  <2> QED
    BY <1>0, <1>1, <1>5, <2>1 DEF Built
<1>9. Whole'
  BY <1>0, <1>1, <1>5 DEF Whole, CalmRest, Idle, Own
<1> QED
  BY <1>6, <1>7, <1>8, <1>9 DEF WholeParts

\* A start leaves its wait when the newest cleanup thread, the only one that may
\* still be at work, has released the latch.
LEMMA WholeEarly ==
    ASSUME ~TeardownSlow, CleanInv, OneOverlap, WholeParts, NEW s \in Starts,
           \/ StartAwait(s) \/ StartBumpRead(s) \/ StartBumpWrite(s)
           \/ StartClearStopping(s) \/ StartActivate(s)
    PROVE  WholeParts'
<1>0. /\ IInv /\ TypeOK /\ CalmStart /\ CalmPast /\ CalmSwitch /\ Latched /\ OneStart
      /\ Len(teardowns) \in Nat /\ DOMAIN teardowns = 1 .. Len(teardowns) /\ Main \in Callers
  BY CleanParts DEF WholeParts
<1>1. /\ startPc[s] \in BeforeClear \cup {"activate"}
      /\ startPc'[s] \in Waiting \cup {"clear", "activate", "cEngine", "engine"}
      /\ \A r \in Starts \ {s} : startPc'[r] = startPc[r] /\ startGen'[r] = startGen[r]
      /\ UNCHANGED <<started, latch, input, stopPc, stopGen, teardowns, lastCommand, resources>>
  BY <1>0, EarlyMoves
<1>2. Live(s)
  BY <1>1 DEF Live, BeforeClear, Waiting
<1>3. \A r \in Starts \ {s} : startPc'[r] \in {"new", "done"}
  BY <1>0, <1>1, <1>2 DEF OneStart, Live
<1>4. startPc'[s] # "await" /\ (startPc[s] = "await" => StartAwait(s))
  BY <1>0 DEF StartAwait, StartBumpRead, StartBumpWrite, StartClearStopping, StartActivate,
              StartStep, TypeOK
<1>5. startPc[s] \in Waiting => Harmless
  <2>1. CASE startPc[s] = "await"
    <3>1. latch[s] = Len(teardowns) /\ StartAwait(s)
      BY <1>0, <1>4, <2>1 DEF Latched
    <3>2. Len(teardowns) # 0 => Signalled(Len(teardowns))
      BY <3>1 DEF StartAwait
    <3> QED
      BY <1>0, <2>1, <3>2 DEF CalmPast, Harmless
  <2>2. CASE startPc[s] \in {"bumpRead", "bumpWrite"}
    BY <1>0, <2>2 DEF CalmStart
  <2> QED
    BY <2>1, <2>2 DEF Waiting
<1>6. Harmless => Harmless'
  BY <1>1 DEF Harmless, Signalled
<1>7. startPc[s] \notin Waiting => startPc[s] \in {"clear", "activate"} /\ gen' = gen /\ startGen' = startGen
  BY <1>1 DEF StartAwait, StartBumpRead, StartBumpWrite, StartClearStopping, StartActivate,
              StartStep, Waiting, BeforeClear
<1>8. CalmStart'
  <2> SUFFICES ASSUME \/ startPc'[s] \in {"bumpRead", "bumpWrite"}
                      \/ startPc'[s] \in AtWork /\ gen' = startGen'[s]
               PROVE  Harmless'
    BY <1>3, AtWorkIs DEF CalmStart
  <2>1. CASE startPc[s] \in Waiting
    BY <1>5, <1>6, <2>1
  <2>2. CASE startPc[s] \notin Waiting
    <3>1. startPc'[s] \notin {"bumpRead", "bumpWrite"}
      BY <1>0, <2>2 DEF StartAwait, StartBumpRead, StartBumpWrite, StartClearStopping,
                        StartActivate, StartStep, TypeOK, Waiting
    <3> QED
      BY <1>0, <1>6, <1>7, <2>2, <3>1, AtWorkIs DEF CalmStart
  <2> QED
    BY <2>1, <2>2
<1>9. CalmRest' /\ Whole'
  <2>1. ~Idle'
    BY <1>1, <1>4 DEF Idle, Waiting
  <2> QED
    BY <2>1 DEF CalmRest, Whole
<1>10. CalmPast'
  BY <1>0, <1>1, <1>3, <1>4 DEF CalmPast, Switching, Signalled
<1>11. CalmSwitch'
  <2> SUFFICES ASSUME Switching PROVE Harmless' /\ stopPc'[Main] = "no"
    BY <1>1 DEF CalmSwitch, Switching
  <2>1. stopPc[Main] = "no"
    BY <1>0, <1>2 DEF CalmSwitch, NoStart
  <2>2. startPc[s] \notin Waiting => Past(s) /\ startPc[s] # "finally"
    BY <1>7 DEF Past
  <2> QED
    BY <1>0, <1>1, <1>5, <1>6, <2>1, <2>2 DEF CalmSwitch
<1>12. Caught' /\ Built'
  BY <1>1, <1>3 DEF Caught, Built, Waiting
<1> QED
  BY <1>8, <1>9, <1>10, <1>11, <1>12 DEF WholeParts

\* What each step of a worker adds to the tunnel it is building.
LEMMA WorkerBuilds ==
    ASSUME TypeOK, Built, NEW s \in Starts, WorkerStep(s)
    PROVE  /\ startPc'[s] = "finally" => /\ startPc[s] = "cDone" /\ gen = startGen[s]
                                         /\ UNCHANGED <<running, tunFd>>
           /\ startPc'[s] = "catchStop" => startPc[s] = "catchTun" /\ ~tunnelActive'
           /\ startPc[s] = "finally" => /\ startPc'[s] = "done"
                                        /\ UNCHANGED <<running, tunFd, tunnelActive, stopPc>>
           /\ startPc'[s] = "done" => startPc[s] = "finally"
           /\ gen = startGen[s] =>
                /\ startPc'[s] \in {"cReady", "ready", "cReady2", "ready2", "cBridge", "bridge"} =>
                     input.engine[s] \in running'
                /\ startPc'[s] \in {"cTun", "tun", "hev", "cDone"} => Own(s) \ {"hev"} \subseteq running'
                /\ startPc'[s] \in {"hev", "cDone"} => tunFd' # 0
                /\ startPc'[s] = "cDone" => "hev" \in running'
<1> DEFINE early == {"cReady", "ready", "cReady2", "ready2", "cBridge", "bridge"}
           late  == {"cTun", "tun", "hev", "cDone"}
           mine  == gen = startGen[s]
<1>0. /\ startPc \in [Starts -> StartPcs] /\ s # 0
      /\ mine /\ startPc[s] \in early => input.engine[s] \in running
      /\ mine /\ startPc[s] \in late => Own(s) \ {"hev"} \subseteq running
      /\ mine /\ startPc[s] \in {"hev", "cDone"} => tunFd # 0
      /\ mine /\ startPc[s] = "cDone" => "hev" \in running
  BY BoundsAssumption DEF TypeOK, Built, Starts
<1> HIDE DEF mine
<1> USE DEF StartStep
<1>1. CASE StartCheck(s)
  <2>1. UNCHANGED <<running, tunFd>>
    BY <1>1 DEF StartCheck
  <2>2. /\ startPc'[s] \notin {"catchStop", "done", "hev", "cDone", "cReady", "cReady2", "cBridge", "cTun"}
        /\ startPc'[s] = "finally" => startPc[s] = "cDone" /\ mine
        /\ startPc'[s] = "ready" => startPc[s] = "cReady"
        /\ startPc'[s] = "ready2" => startPc[s] = "cReady2"
        /\ startPc'[s] = "bridge" => startPc[s] = "cBridge"
        /\ startPc'[s] = "tun" => startPc[s] = "cTun"
        /\ startPc[s] # "finally"
    BY <1>0, <1>1 DEF StartCheck, AfterCheck, mine
  <2> QED
    BY <1>0, <2>1, <2>2 DEF mine
<1>2. CASE StartFail(s)
  <2>1. startPc'[s] = "catchBackend" /\ startPc[s] # "finally"
    BY <1>0, <1>2 DEF StartFail
  <2> QED
    BY <2>1
<1>3. CASE StartEngine(s)
  <2>1. startPc'[s] \in {"cReady", "cReady2"} /\ startPc[s] # "finally" /\ input.engine[s] \in running'
    BY <1>0, <1>3 DEF StartEngine
  <2> QED
    BY <2>1
<1>4. CASE StartReady(s)
  <2>1. /\ startPc[s] \in {"ready", "ready2"} /\ running' = running
        /\ startPc'[s] = IF input.engine[s] = "slipstream" THEN "cBridge" ELSE "cTun"
    BY <1>0, <1>4 DEF StartReady
  <2>2. mine => input.engine[s] \in running
    BY <1>0, <2>1
  <2>3. startPc'[s] = "cTun" => Own(s) \ {"hev"} \subseteq {input.engine[s]}
    BY <2>1 DEF Own
  <2> QED
    BY <2>1, <2>2, <2>3 DEF mine
<1>5. CASE StartFallback(s)
  <2>1. startPc[s] = "ready" /\ startPc'[s] = "cEngine2"
    BY <1>0, <1>5 DEF StartFallback
  <2> QED
    BY <2>1
<1>6. CASE StartBridge(s)
  <2>1. startPc[s] = "bridge" /\ startPc'[s] = "cTun" /\ running' = running \cup {"bridge"}
    BY <1>0, <1>6 DEF StartBridge
  <2>2. mine => input.engine[s] \in running
    BY <1>0, <2>1
  <2>3. Own(s) \ {"hev"} \subseteq {input.engine[s], "bridge"}
    BY DEF Own
  <2>4. mine => Own(s) \ {"hev"} \subseteq running'
    BY <2>1, <2>2, <2>3
  <2> QED
    BY <2>1, <2>4 DEF mine
<1>7. CASE StartTun(s)
  <2>1. startPc[s] = "tun" /\ startPc'[s] = "hev" /\ running' = running /\ tunFd' = s
    BY <1>0, <1>7 DEF StartTun
  <2> QED
    BY <1>0, <2>1 DEF mine
<1>8. CASE StartHev(s)
  <2>1. startPc[s] = "hev" /\ startPc'[s] = "cDone" /\ running' = running \cup {"hev"} /\ tunFd' = tunFd /\ tunFd # 0
    BY <1>0, <1>8 DEF StartHev
  <2>2. mine => Own(s) \ {"hev"} \subseteq running'
    BY <1>0, <2>1
  <2> QED
    BY <2>1, <2>2 DEF mine
<1>9. CASE CatchBackend(s) \/ CatchTun(s)
  <2>1. /\ startPc[s] \in {"catchBackend", "catchTun"} /\ startPc'[s] \in {"catchTun", "catchStop"}
        /\ startPc'[s] = "catchStop" => startPc[s] = "catchTun" /\ ~tunnelActive'
    BY <1>0, <1>9 DEF CatchBackend, CatchTun
  <2> QED
    BY <2>1
<1>10. CASE StartFinally(s)
  <2>1. startPc[s] = "finally" /\ startPc'[s] = "done" /\ UNCHANGED <<running, tunFd, tunnelActive, stopPc>>
    BY <1>0, <1>10 DEF StartFinally
  <2> QED
    BY <2>1
<1> QED
  BY <1>1, <1>2, <1>3, <1>4, <1>5, <1>6, <1>7, <1>8, <1>9, <1>10 DEF WorkerStep

\* A worker that reaches the end without being overtaken has put up its own tunnel.
LEMMA WholeWorker ==
    ASSUME CleanInv, OneOverlap, WholeParts, NEW s \in Starts, WorkerStep(s)
    PROVE  WholeParts'
<1>0. /\ IInv /\ TypeOK /\ CalmStart /\ CalmRest /\ CalmPast /\ CalmSwitch /\ Built /\ Whole
      /\ OneStart /\ OwnGround /\ Main \in Callers /\ Main \notin Starts
  BY CleanParts DEF WholeParts
<1>1. /\ startPc[s] \in Busy \cup {"finally"}
      /\ startPc'[s] \in Busy \cup {"catchStop", "finally", "done"}
      /\ \A r \in Starts \ {s} : startPc'[r] = startPc[r]
      /\ UNCHANGED <<gen, started, startGen, latch, input, stopGen, teardowns, lastCommand, stopping>>
      /\ \A p \in Callers \ {s} : stopPc'[p] = stopPc[p]
  BY <1>0, WorkerMoves
<1>2. Live(s)
  BY <1>1 DEF Live, Busy, Working, AfterCheck
<1>3. \A r \in Starts \ {s} : startPc[r] \in {"new", "done"} /\ startPc'[r] \in {"new", "done"}
  BY <1>0, <1>1, <1>2 DEF OneStart, Live
<1>4. /\ startPc'[s] = "finally" => /\ startPc[s] = "cDone" /\ gen = startGen[s]
                                    /\ UNCHANGED <<running, tunFd>>
      /\ startPc'[s] = "catchStop" => startPc[s] = "catchTun" /\ ~tunnelActive'
      /\ startPc[s] = "finally" => /\ startPc'[s] = "done"
                                   /\ UNCHANGED <<running, tunFd, tunnelActive, stopPc>>
      /\ startPc'[s] = "done" => startPc[s] = "finally"
  BY <1>0, WorkerBuilds
<1>5. Harmless => Harmless'
  BY <1>1 DEF Harmless, Signalled
<1>6. /\ Busy \subseteq AtWork
      /\ {"new", "await", "finally", "done", "catchStop"} \cap Busy = {}
  BY DEF AtWork, Busy, Working, AfterCheck
<1>7. CalmStart'
  <2> SUFFICES ASSUME startPc'[s] \in AtWork, gen' = startGen'[s] PROVE Harmless'
    <3>1. startPc'[s] \notin {"bumpRead", "bumpWrite"}
      BY <1>1 DEF Busy, Working, AfterCheck
    <3> QED
      BY <1>3, <3>1, AtWorkIs DEF CalmStart
  <2>1. startPc[s] \in Busy
    BY <1>1, <1>4, AtWorkIs
  <2> QED
    BY <1>0, <1>1, <1>5, <1>6, <2>1 DEF CalmStart
<1>8. CalmRest' /\ Whole'
  <2> SUFFICES ASSUME Idle', tunnelActive'
               PROVE  Harmless' /\ (started \in Starts /\ running = Own(started) /\ tunFd # 0)'
    BY DEF CalmRest, Whole
  <2>1. CASE startPc[s] = "finally"
    <3>1. Idle /\ tunnelActive /\ UNCHANGED <<running, tunFd, started, input>>
      BY <1>1, <1>3, <1>4, <2>1 DEF Idle
    <3> QED
      BY <1>0, <1>5, <3>1 DEF CalmRest, Whole, Own
  <2>2. CASE startPc[s] # "finally"
    <3>1. startPc'[s] = "finally"
      BY <1>1, <1>4, <1>6, <2>2 DEF Idle
    <3>2. startPc[s] = "cDone" /\ gen = startGen[s] /\ UNCHANGED <<running, tunFd, started, input>>
      BY <1>1, <1>4, <3>1
    <3>3. startPc[s] \in Busy
      BY <1>1, <2>2
    <3>4. running \subseteq Own(s)
      BY <1>0, <3>3 DEF OwnGround
    <3>5. Own(s) \ {"hev"} \subseteq running /\ tunFd # 0 /\ "hev" \in running
      BY <1>0, <3>2 DEF Built
    <3>6. running = Own(s) /\ s = started
      BY <1>0, <1>2, <3>4, <3>5 DEF OneStart
    <3>7. Harmless
      BY <1>0, <1>6, <3>2, <3>3 DEF CalmStart
    <3> QED
      BY <1>5, <3>2, <3>5, <3>6, <3>7 DEF Own
  <2> QED
    BY <2>1, <2>2
<1>9. CalmPast'
  <2>1. \A r \in Starts : startPc'[r] # "await"
    BY <1>1, <1>3, <1>6
  <2> QED
    BY <1>0, <1>1, <2>1 DEF CalmPast, Switching, Signalled
<1>10. CalmSwitch'
  <2> SUFFICES ASSUME Switching
               PROVE  /\ ~NoStop' \/ (\E r \in Starts : Past(r)' /\ startPc'[r] # "finally") => Harmless'
                      /\ stopPc'[Main] = "no"
    BY <1>1 DEF CalmSwitch, Switching
  <2>1. stopPc'[Main] = "no"
    BY <1>0, <1>1, <1>2 DEF CalmSwitch, NoStart
  <2>2. CASE startPc[s] = "finally"
    <3>1. \A r \in Starts : startPc'[r] \in {"new", "done"}
      BY <1>3, <1>4, <2>2
    <3>2. NoStop' <=> NoStop
      BY <1>4, <2>2 DEF NoStop
    <3> QED
      BY <1>0, <1>5, <2>1, <3>1, <3>2 DEF CalmSwitch, Past
  <2>3. CASE startPc[s] # "finally"
    <3>1. Past(s)
      BY <1>1, <2>3 DEF Past, Busy, Working, AfterCheck, Waiting
    <3> QED
      BY <1>0, <1>5, <2>1, <2>3, <3>1 DEF CalmSwitch
  <2> QED
    BY <2>2, <2>3
<1>11. Caught'
  BY <1>3, <1>4 DEF Caught
<1>12. Built'
  <2>1. input' = input /\ Own(s)' = Own(s) /\ gen' = gen /\ startGen' = startGen
    BY <1>1 DEF Own
  <2>2. gen = startGen[s] =>
          /\ startPc'[s] \in {"cReady", "ready", "cReady2", "ready2", "cBridge", "bridge"} =>
               input.engine[s] \in running'
          /\ startPc'[s] \in {"cTun", "tun", "hev", "cDone"} => Own(s) \ {"hev"} \subseteq running'
          /\ startPc'[s] \in {"hev", "cDone"} => tunFd' # 0
          /\ startPc'[s] = "cDone" => "hev" \in running'
    BY <1>0, WorkerBuilds
  <2> SUFFICES ASSUME NEW r \in Starts, gen' = startGen'[r]
               PROVE  /\ startPc'[r] \in {"cReady", "ready", "cReady2", "ready2", "cBridge", "bridge"} =>
                           input'.engine[r] \in running'
                      /\ startPc'[r] \in {"cTun", "tun", "hev", "cDone"} => Own(r)' \ {"hev"} \subseteq running'
                      /\ startPc'[r] \in {"hev", "cDone"} => tunFd' # 0
                      /\ startPc'[r] = "cDone" => "hev" \in running'
    BY DEF Built
  <2>3. CASE r = s
    BY <2>1, <2>2, <2>3
  <2>4. CASE r # s
    BY <1>3, <2>4
  <2> QED
    BY <2>3, <2>4
<1> QED
  BY <1>7, <1>8, <1>9, <1>10, <1>11, <1>12 DEF WholeParts

\* Every step keeps the tunnel whole, provided no teardown outlasts the wait.
LEMMA WholeStep == ~TeardownSlow => (WholeInv /\ [Next]_vars /\ ~earlyStop' => WholeInv')
<1> SUFFICES ASSUME ~TeardownSlow, WholeInv, [Next]_vars, ~earlyStop' PROVE WholeInv'
  OBVIOUS
<1>1. CleanInv /\ CleanInv'
  BY CleanStep DEF WholeInv
<1>2. input' = input
  <2>1. CASE Next
    <3>1. ASSUME NEW s \in Starts, StartThread(s) PROVE input' = input
      BY <3>1 DEF StartThread, StartAwait, StartBumpRead, StartBumpWrite, StartClearStopping,
             StartActivate, StartCheck, StartEngine, StartReady, StartFallback, StartBridge,
             StartTun, StartHev, StartFail, CatchBackend, CatchTun, StartFinally
    <3>2. ASSUME NEW p \in Callers, StopTunnel(p) PROVE input' = input
      BY <3>2 DEF StopTunnel, StopRead, StopBump, StopCheck, StopCommit
    <3>3. ASSUME NEW t \in DOMAIN teardowns, TeardownThread(t) PROVE input' = input
      BY <3>3 DEF TeardownThread, TeardownCheck, TeardownBackend, TeardownTun, TeardownHev,
             TeardownSignal, TeardownPost
    <3>4. StartCommand \/ StopCommand \/ Destroy => input' = input
      BY DEF StartCommand, StopCommand, Destroy
    <3> QED
      BY <2>1, <3>1, <3>2, <3>3, <3>4 DEF Next
  <2>2. CASE UNCHANGED vars
    BY <2>2 DEF vars
  <2> QED
    BY <2>1, <2>2
<1> SUFFICES ASSUME OneOverlap PROVE WholeParts'
  BY <1>1, <1>2 DEF WholeInv, OneOverlap
<1>3. WholeParts
  BY DEF WholeInv
<1>4. CASE Next
  <2>1. ASSUME NEW s \in Starts, StartThread(s) PROVE WholeParts'
    BY <1>1, <1>3, <2>1, StartCases, WholeEarly, WholeWorker
  <2> QED
    BY <1>1, <1>3, <1>4, <2>1, WholeMain, WholeStop, WholeTeardown DEF Next
<1>5. CASE UNCHANGED vars
  <2>1. CalmStart' /\ CalmRest' /\ CalmPast' /\ Caught'
    BY <1>3, <1>5 DEF vars, WholeParts, CalmStart, CalmRest, CalmPast, Caught, Harmless,
                      Signalled, Idle, Switching
  <2>2. CalmSwitch'
    BY <1>3, <1>5 DEF vars, WholeParts, CalmSwitch, Harmless, Signalled, Switching, Past,
                      NoStop, NoStart, Live
  <2>3. Built' /\ Whole'
    BY <1>3, <1>5 DEF vars, WholeParts, Built, Whole, Idle, Own
  <2> QED
    BY <2>1, <2>2, <2>3 DEF WholeParts
<1> QED
  BY <1>4, <1>5

\* A set with at most one element does not hold two.
LEMMA OneKind == ASSUME NEW S, IsFiniteSet(S), Cardinality(S) <= 1, NEW a, NEW b, a # b
                 PROVE  ~({a, b} \subseteq S)
<1> SUFFICES ASSUME {a, b} \subseteq S PROVE FALSE
  OBVIOUS
<1>1. IsFiniteSet({b}) /\ Cardinality({b}) = 1
  BY FS_Singleton
<1>2. Cardinality({b} \cup {a}) = Cardinality({b}) + 1
  BY <1>1, FS_AddElement
<1>3. {b} \cup {a} \subseteq S
  OBVIOUS
<1>4. Cardinality({b} \cup {a}) <= Cardinality(S) /\ Cardinality(S) \in Nat
  BY <1>3, FS_Subset, FS_CardinalityType
<1> QED
  BY <1>1, <1>2, <1>4

\* At rest and active, the tunnel is whole, for a user who cancels starts or switches
\* during teardowns but not both, as long as no stop met a start before its
\* generation: TUN and hev are up, on the one engine of the last
\* start, with the SOCKS bridge exactly when that is the DNS engine.
THEOREM TunnelIsWhole == PoliteUsers /\ ~TeardownSlow => (Spec => []TunnelWhole)
<1> SUFFICES ASSUME PoliteUsers, ~TeardownSlow PROVE Spec => []TunnelWhole
  OBVIOUS
<1> DEFINE J == earlyStop \/ WholeInv
<1>1. J => TunnelWhole
  <2> SUFFICES ASSUME WholeInv, Quiet, tunnelActive, Cardinality(input.overlap) <= 1
               PROVE  /\ tunFd # 0 /\ "hev" \in running
                      /\ Cardinality(running \cap Engines) = 1
                      /\ ("slipstream" \in running) = ("bridge" \in running)
    BY DEF TunnelWhole
  <2>1. TypeOK
    BY CleanParts DEF WholeInv
  <2>2. input.overlap \subseteq OverlapKinds
    BY <2>1 DEF TypeOK, Input
  <2>3. IsFiniteSet(OverlapKinds)
    <3>1. IsFiniteSet({} \cup {"any"})
      BY FS_EmptySet, FS_AddElement
    <3>2. IsFiniteSet(({} \cup {"any"}) \cup {"switch"})
      BY <3>1, FS_AddElement
    <3>3. IsFiniteSet((({} \cup {"any"}) \cup {"switch"}) \cup {"cancel"})
      BY <3>2, FS_AddElement
    <3>4. IsFiniteSet(((({} \cup {"any"}) \cup {"switch"}) \cup {"cancel"}) \cup {"early"})
      BY <3>3, FS_AddElement
    <3>5. ((({} \cup {"any"}) \cup {"switch"}) \cup {"cancel"}) \cup {"early"} = OverlapKinds
      BY DEF OverlapKinds
    <3> QED
      BY <3>4, <3>5
  <2>4. OneOverlap
    <3>1. IsFiniteSet(input.overlap)
      BY <2>2, <2>3, FS_Subset
    <3>2. ~({"cancel", "switch"} \subseteq input.overlap)
      BY <3>1, OneKind
    <3>3. ~({"early", "switch"} \subseteq input.overlap)
      BY <3>1, OneKind
    <3> QED
      BY <3>2, <3>3 DEF OneOverlap
  <2>5. Idle
    BY DEF Quiet, NoStart, Live, Idle
  <2>6. started \in Starts /\ running = Own(started) /\ tunFd # 0
    BY <2>4, <2>5 DEF WholeInv, WholeParts, Whole
  <2> DEFINE e == input.engine[started]
  <2>7. e \in Engines
    BY <2>1, <2>6 DEF TypeOK, Input
  <2>8. running = {e, "hev"} \cup (IF e = "slipstream" THEN {"bridge"} ELSE {})
    BY <2>6 DEF Own
  <2> HIDE DEF e
  <2>9. e # "hev" /\ e # "bridge" /\ "hev" \notin Engines /\ "bridge" \notin Engines
    BY <2>7, EnginesAssumption
  <2>10. running \cap Engines = {e}
    BY <2>7, <2>8, <2>9
  <2>11. Cardinality(running \cap Engines) = 1
    BY <2>10, FS_Singleton
  <2>12. "hev" \in running /\ ("slipstream" \in running <=> "bridge" \in running)
    BY <2>8, <2>9
  <2> QED
    BY <2>6, <2>11, <2>12
<1>2. Init => J
  BY WholeInit
<1>3. J /\ [Next]_vars => J'
  BY WholeStep, EarlyStays
<1> QED
  BY <1>1, <1>2, <1>3, PTL DEF Spec
=============================================================================
