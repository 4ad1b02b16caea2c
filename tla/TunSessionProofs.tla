-------------------------- MODULE TunSessionProofs --------------------------
(***************************************************************************)
(* One TCP session of tun2socks, for any number of bytes, any sizes of the *)
(* windows, buffers and sockets, any handshake and any faults: the app's   *)
(* window is given back, the ring's accounts agree with lwIP's, the task   *)
(* never sleeps on work it could do, no byte of either stream is lost,     *)
(* repeated or reordered, and the session implements ByteStream in each    *)
(* direction.                                                              *)
(***************************************************************************)
EXTENDS TunSession, SeqFilterProofs

TaskType == [state : {"RUNNING", "WAITING", "STOPPED"}, cpu : BOOLEAN, pc : Pcs,
             fail : {"destruct", "drain"}, step : Int, armed : BOOLEAN,
             expired : BOOLEAN, timeout : {-1, 0, 1}]
ResType == [f : {-1, 0, 1}, b : {-1, 0, 1}]
Slots == 0 .. MaxSize - 1
PcbType == [ref : BOOLEAN, eof : BOOLEAN, queue : Seq(Int), segs : Seq(Slots),
            wnd : Int, lw : States]
RingType == [data : [Slots -> Int], rp : Slots, wp : Slots, rda : Int, use : Int]
FdType == [state : {"none", "connecting", "up", "refused", "closed"}, in : Seq(Int),
           out : Seq(Int), eof : BOOLEAN, rst : BOOLEAN, shut : BOOLEAN,
           nospace : BOOLEAN, edge : BOOLEAN]
AppType == [sent : Int, got : Seq(Int), end : {"open", "fin", "cut"},
            cut : {"no", "server", "reset", "tun", "full", "short", "hole"},
            terminated : BOOLEAN]
SrvType == [got : Seq(Int), end : {"open", "fin", "cut"}, todo : Seq(Int)]

Types == /\ mode \in Cases /\ task \in TaskType /\ res \in ResType /\ pcb \in PcbType
         /\ ring \in RingType /\ fd \in FdType /\ app \in AppType /\ srv \in SrvType

\* The ring holds what lwIP has not seen acknowledged and what lwIP was not given
\* yet; more than that only when memory refused a write, and then the direction is over.
Ledger ==
  /\ 0 <= ring.rda /\ Len(pcb.segs) + ring.rda <= ring.use /\ ring.use <= MaxSize
  /\ ~pcb.ref => pcb.segs = <<>>
  /\ app.cut # "full"
  /\ app.cut \in {"short", "hole"} => res.b = -1
  /\ pcb.ref /\ app.cut \notin {"short", "hole"} => ring.use = Len(pcb.segs) + ring.rda

\* What keeps each direction from going on.
BlockedF == IF pcb.queue = <<>> THEN ~pcb.eof
            ELSE Len(fd.out) = FdSnd /\ ~fd.rst /\ fd.nospace
BlockedB == \/ ring.use = MaxSize /\ Len(pcb.segs) > 0
            \/ fd.in = <<>> /\ ~fd.eof /\ ~fd.rst

\* The task: callbacks find it off the CPU, it sleeps off the CPU, the socket is up
\* while it works, and when it looks at the second direction, or sleeps, nothing has
\* happened to the first that no edge will tell it.
Scheduled ==
  /\ task.cpu => task.state = "RUNNING"
  /\ task.pc = "splice_b" => task.cpu
  /\ task.pc \in {"handshake", "splice", "splice_b"} /\ task.state # "STOPPED" => fd.state = "up"
  /\ task.state # "STOPPED" => fd.state # "closed"
  /\ Len(fd.out) <= FdSnd
Alert ==
  ~fd.edge =>
    /\ task.pc = "splice_b" \/ (task.state = "WAITING" /\ task.pc = "splice") =>
         (res.f = 0 => BlockedF)
    /\ task.state = "WAITING" =>
         /\ task.pc = "splice" => (res.b = 0 => BlockedB)
         /\ task.pc = "handshake" /\ Handshake(mode)[task.step] \notin Written =>
              fd.in = <<>> /\ ~fd.eof /\ ~fd.rst
Draining == task.state = "WAITING" /\ task.pc = "drain" => ring.use > 0

SessionInv == /\ Types /\ WindowCredit /\ Ledger
              /\ Scheduled /\ Alert /\ Draining

-----------------------------------------------------------------------------
(* The constants and the helpers. *)

\* The sizes are numbers, and the ring is no larger than the send buffer.
LEMMA SizeFacts ==
  /\ MaxSize \in Nat \ {0} /\ MaxSize <= SndBuf /\ MaxSize <= BufferSize
  /\ SndBuf \in Nat /\ TcpWnd \in Nat /\ FdSnd \in Nat \ {0} /\ Iov \in Nat \ {0} /\ FdRcv \in Nat
BY SessionConstants DEF MaxSize, Least

\* A wakeup makes a sleeping task runnable and changes nothing else of it.
LEMMA WakeGives ==
  ASSUME NEW t \in TaskType
  PROVE  /\ Wake(t) \in TaskType /\ Wake(t).state # "WAITING"
         /\ Wake(t).pc = t.pc /\ Wake(t).cpu = t.cpu /\ Wake(t).step = t.step
         /\ (Wake(t).state = "STOPPED") = (t.state = "STOPPED")
BY DEF Wake, TaskType

\* Terminating does the same, and takes away the timeout.
LEMMA TerminateGives ==
  ASSUME NEW t \in TaskType
  PROVE  /\ Terminate(t) \in TaskType /\ Terminate(t).state # "WAITING"
         /\ Terminate(t).pc = t.pc /\ Terminate(t).cpu = t.cpu /\ Terminate(t).step = t.step
         /\ (Terminate(t).state = "STOPPED") = (t.state = "STOPPED")
<1> DEFINE w == Wake(t)
<1>1. /\ w \in TaskType /\ w.state # "WAITING" /\ w.pc = t.pc /\ w.cpu = t.cpu /\ w.step = t.step
      /\ (w.state = "STOPPED") = (t.state = "STOPPED")
  BY WakeGives
<1>2. Terminate(t) = [w EXCEPT !.timeout = 0]
  BY DEF Terminate
<1> HIDE DEF w
<1>3. /\ Terminate(t) \in TaskType /\ Terminate(t).state = w.state
      /\ Terminate(t).pc = w.pc /\ Terminate(t).cpu = w.cpu /\ Terminate(t).step = w.step
  BY <1>1, <1>2 DEF TaskType
<1> QED
  BY <1>1, <1>3

\* Waiting for an event sleeps at pc, or goes on at once where it fails.
LEMMA WaitIOGives ==
  ASSUME NEW t \in TaskType, NEW pc \in Pcs, NEW fail \in {"destruct", "drain"}
  PROVE  /\ WaitIO(t, pc, fail) \in TaskType /\ WaitIO(t, pc, fail).step = t.step
         /\ \/ /\ WaitIO(t, pc, fail).pc = fail /\ WaitIO(t, pc, fail).state = t.state
               /\ WaitIO(t, pc, fail).cpu = t.cpu
            \/ /\ WaitIO(t, pc, fail).pc = pc /\ WaitIO(t, pc, fail).state = "WAITING"
               /\ WaitIO(t, pc, fail).cpu = FALSE
<1>1. CASE t.timeout = 0
  BY <1>1 DEF WaitIO, TaskType, Pcs
<1>2. CASE t.timeout # 0
  BY <1>2 DEF WaitIO, TaskType, Pcs
<1> QED
  BY <1>1, <1>2

\* The parts of the invariant.
LEMMA Parts ==
  SessionInv => /\ Types /\ WindowCredit /\ Ledger /\ Scheduled /\ Alert /\ Draining
                /\ mode \in Cases /\ task \in TaskType /\ res \in ResType /\ pcb \in PcbType
                /\ ring \in RingType /\ fd \in FdType /\ app \in AppType /\ srv \in SrvType
BY DEF SessionInv, Types

\* A step that leaves the streams alone has only the task's sleep to answer for.
LEMMA TaskMoves ==
  ASSUME SessionInv, task' \in TaskType, fd' \in FdType,
         UNCHANGED <<mode, res, pcb, ring, srv>>,
         app' \in AppType, app'.cut = app.cut,
         Scheduled', Alert', Draining'
  PROVE  SessionInv'
<1>1. Types'
  BY Parts DEF Types
<1>2. WindowCredit' /\ Ledger'
  BY Parts DEF WindowCredit, Ledger
<1> QED
  BY <1>1, <1>2 DEF SessionInv

-----------------------------------------------------------------------------
(* The beginning. *)

\* A session that has just been accepted satisfies the invariant.
LEMMA SessionInit == Init => SessionInv
<1> SUFFICES ASSUME Init PROVE SessionInv
  OBVIOUS
<1>1. Handshake(mode) \in Seq(Int)
  BY DEF Handshake, METHODS, CREDS, REQUEST, METHOD, GRANTED, REPLY, ADDR
<1>2. mode.down \in Nat
  BY SessionConstants DEF Init
<1>3. Bytes(mode.down) \in Seq(Int)
  BY <1>2 DEF Bytes
<1>4. Strip(Handshake(mode), Written) \in Seq(Int)
  BY <1>1, StripType
<1>5. Strip(Handshake(mode), Written) \o Bytes(mode.down) \in Seq(Int)
  BY <1>3, <1>4
<1>6. ring \in RingType /\ ring.rda = 0 /\ ring.use = 0
  BY SizeFacts DEF Init, RingInit, RingType, Slots
<1>7. mode \in Cases /\ task \in TaskType /\ res \in ResType
  BY DEF Init, TaskType, ResType, Pcs
<1>8. /\ pcb \in PcbType /\ pcb.wnd = TcpWnd /\ pcb.queue = <<>> /\ pcb.segs = <<>>
      /\ pcb.lw # "FREED" /\ pcb.ref
  BY SizeFacts DEF Init, PcbType, States
<1>9. fd \in FdType /\ fd.out = <<>> /\ fd.state = "none"
  BY DEF Init, FdType
<1>10. app \in AppType /\ app.cut = "no"
  BY DEF Init, AppType
<1>11. srv \in SrvType
  BY <1>5 DEF Init, SrvType
<1>12. task.state = "RUNNING" /\ task.pc = "connect" /\ ~task.cpu
  BY DEF Init
<1>13. Types
  BY <1>6, <1>7, <1>8, <1>9, <1>10, <1>11 DEF Types
<1>14. WindowCredit
  BY <1>8, SizeFacts DEF WindowCredit
<1>15. Ledger
  BY <1>6, <1>8, <1>10, SizeFacts DEF Ledger
<1>16. Scheduled /\ Alert /\ Draining
  BY <1>9, <1>12, SizeFacts DEF Scheduled, Alert, Draining
<1> QED
  BY <1>13, <1>14, <1>15, <1>16 DEF SessionInv

-----------------------------------------------------------------------------
(* The scheduler. *)

\* The scheduler gives the processor to the task.
LEMMA ResumeKeeps == ASSUME SessionInv, Resume PROVE SessionInv'
<1>0. task \in TaskType /\ fd \in FdType /\ app \in AppType /\ Scheduled
  BY Parts
<1>1. /\ task' \in TaskType /\ task'.state = "RUNNING" /\ task'.cpu
      /\ task'.pc \in {task.pc, "destruct", "drain"} /\ task.pc # "splice_b"
  BY <1>0 DEF Resume, TaskType, Pcs, Scheduled
<1>2. UNCHANGED <<mode, res, pcb, ring, fd, app, srv>> /\ task.state = "RUNNING"
  BY DEF Resume
<1>3. Scheduled' /\ Alert' /\ Draining'
  BY <1>0, <1>1, <1>2 DEF Scheduled, Alert, Draining
<1> QED
  BY <1>0, <1>1, <1>2, <1>3, TaskMoves

\* A timeout wakes a task that sleeps.
LEMMA ExpireKeeps == ASSUME SessionInv, Expire PROVE SessionInv'
<1>0. task \in TaskType /\ fd \in FdType /\ app \in AppType /\ Scheduled /\ Alert
  BY Parts
<1> DEFINE w == Wake(task)
<1>1. /\ w \in TaskType /\ w.state # "WAITING" /\ w.pc = task.pc /\ w.cpu = task.cpu
      /\ (w.state = "STOPPED") = (task.state = "STOPPED")
  BY <1>0, WakeGives
<1>2. task' = [w EXCEPT !.expired = TRUE] /\ UNCHANGED <<mode, res, pcb, ring, fd, app, srv>>
  BY DEF Expire
<1> HIDE DEF w
<1>3. task' \in TaskType /\ task'.state = w.state /\ task'.pc = w.pc /\ task'.cpu = w.cpu
  BY <1>1, <1>2 DEF TaskType
<1>4. task'.state \in {"RUNNING", "STOPPED"} /\ task.state \in {"RUNNING", "STOPPED", "WAITING"}
  BY <1>0, <1>1, <1>3 DEF TaskType
<1>5. Scheduled' /\ Alert' /\ Draining'
  BY <1>0, <1>1, <1>2, <1>3, <1>4 DEF Scheduled, Alert, Draining, BlockedF
<1> QED
  BY <1>0, <1>2, <1>3, <1>5, TaskMoves

\* epoll reports an edge and wakes the task.
LEMMA IoPollKeeps == ASSUME SessionInv, IoPoll PROVE SessionInv'
<1>0. task \in TaskType /\ fd \in FdType /\ app \in AppType /\ Scheduled
  BY Parts
<1>1. /\ task' \in TaskType /\ task'.state # "WAITING" /\ task'.pc = task.pc /\ task'.cpu = task.cpu
      /\ task.state # "STOPPED" /\ ~task.cpu
  BY <1>0, WakeGives DEF IoPoll
<1>2. /\ fd' \in FdType /\ fd'.state = fd.state /\ fd'.out = fd.out
      /\ UNCHANGED <<mode, res, pcb, ring, app, srv>>
  BY <1>0 DEF IoPoll, FdType
<1>3. task'.pc # "splice_b"
  BY <1>0, <1>1 DEF Scheduled
<1>4. Scheduled' /\ Alert' /\ Draining'
  BY <1>0, <1>1, <1>2, <1>3 DEF Scheduled, Alert, Draining
<1> QED
  BY <1>0, <1>1, <1>2, <1>4, TaskMoves

\* hev_socks5_session_terminate wakes the task.
LEMMA TerminateKeeps == ASSUME SessionInv, TerminateSession PROVE SessionInv'
<1>0. task \in TaskType /\ fd \in FdType /\ app \in AppType /\ Scheduled
  BY Parts
<1>1. /\ task' \in TaskType /\ task'.state # "WAITING" /\ task'.pc = task.pc /\ task'.cpu = task.cpu
      /\ task.state # "STOPPED" /\ ~task.cpu
  BY <1>0, TerminateGives DEF TerminateSession
<1>2. /\ app' \in AppType /\ app'.cut = app.cut
      /\ UNCHANGED <<mode, res, pcb, ring, fd, srv>>
  BY <1>0 DEF TerminateSession, AppType
<1>3. task'.pc # "splice_b"
  BY <1>0, <1>1 DEF Scheduled
<1>4. Scheduled' /\ Alert' /\ Draining'
  BY <1>0, <1>1, <1>2, <1>3 DEF Scheduled, Alert, Draining
<1> QED
  BY <1>0, <1>1, <1>2, <1>4, TaskMoves

-----------------------------------------------------------------------------
(* Connecting and the handshake. *)

\* The connect to the proxy.
LEMMA ConnectKeeps == ASSUME SessionInv, Connect PROVE SessionInv'
<1>0. task \in TaskType /\ fd \in FdType /\ app \in AppType /\ Scheduled
  BY Parts
<1>1. /\ task.cpu /\ task.pc = "connect" /\ task.state = "RUNNING"
      /\ UNCHANGED <<mode, res, pcb, ring, app, srv>>
  BY <1>0 DEF Connect, At, Scheduled
<1>2. fd.state \in {"none", "connecting", "refused", "up"}
  BY <1>0, <1>1 DEF Scheduled, FdType
<1> DEFINE t == [task EXCEPT !.timeout = 1]
           v == WaitIO(t, "connect", "destruct")
           w == WaitIO(task, "connect", "destruct")
<1>3. t \in TaskType /\ t.state = "RUNNING" /\ t.cpu
  BY <1>0, <1>1 DEF TaskType
<1>4. "connect" \in Pcs
  BY DEF Pcs
<1>5. /\ w \in TaskType
      /\ \/ w.pc = "destruct" /\ w.state = task.state /\ w.cpu = task.cpu
         \/ w.pc = "connect" /\ w.state = "WAITING" /\ w.cpu = FALSE
  BY <1>0, <1>4, WaitIOGives
<1>6. /\ v \in TaskType
      /\ \/ v.pc = "destruct" /\ v.state = t.state /\ v.cpu = t.cpu
         \/ v.pc = "connect" /\ v.state = "WAITING" /\ v.cpu = FALSE
  <2> HIDE DEF t
  <2> QED
    BY <1>3, <1>4, WaitIOGives
<1>7. \/ fd.state = "none" /\ task' = v /\ fd' = [fd EXCEPT !.state = "connecting"]
      \/ fd.state = "connecting" /\ task' = w /\ fd' = fd
      \/ fd.state = "refused" /\ task' = [task EXCEPT !.pc = "destruct"] /\ fd' = fd
      \/ fd.state = "up" /\ task' = [task EXCEPT !.pc = "handshake", !.timeout = 1] /\ fd' = fd
  BY <1>2 DEF Connect
<1> HIDE DEF t, v, w
<1>8. /\ fd' \in FdType /\ fd'.out = fd.out /\ fd'.state # "closed"
  BY <1>0, <1>2, <1>7 DEF FdType
<1>9. /\ task' \in TaskType
      /\ \/ task'.pc = "connect" /\ task'.state = "WAITING" /\ ~task'.cpu
         \/ task'.pc = "destruct" /\ task'.state = "RUNNING" /\ task'.cpu
         \/ task'.pc = "handshake" /\ task'.state = "RUNNING" /\ task'.cpu /\ fd'.state = "up"
  <2>1. CASE task' = v
    BY <1>3, <1>6, <2>1
  <2>2. CASE task' = w
    BY <1>1, <1>5, <2>2
  <2>3. CASE task' = [task EXCEPT !.pc = "destruct"]
    BY <1>0, <1>1, <2>3 DEF TaskType, Pcs
  <2>4. CASE task' = [task EXCEPT !.pc = "handshake", !.timeout = 1] /\ fd.state = "up" /\ fd' = fd
    BY <1>0, <1>1, <2>4 DEF TaskType, Pcs
  <2> QED
    BY <1>7, <2>1, <2>2, <2>3, <2>4
<1>10. Scheduled' /\ Alert' /\ Draining'
  BY <1>0, <1>8, <1>9 DEF Scheduled, Alert, Draining
<1> QED
  BY <1>0, <1>1, <1>8, <1>9, <1>10, TaskMoves

\* A step of the handshake goes on, waits or fails.
LEMMA HandshakeKeeps == ASSUME SessionInv, HandshakeStep PROVE SessionInv'
<1>0. task \in TaskType /\ fd \in FdType /\ app \in AppType /\ pcb \in PcbType /\ Scheduled
  BY Parts
<1> DEFINE msg == Handshake(mode)[task.step]
           last == task.step = Len(Handshake(mode))
           next == [task EXCEPT !.step = @ + 1,
                                !.pc = IF ~last THEN @
                                       ELSE IF pcb.ref THEN "splice" ELSE "destruct"]
           failed == [task EXCEPT !.pc = "destruct"]
           again == WaitIO(task, "handshake", "destruct")
<1>1. /\ task.cpu /\ task.pc = "handshake" /\ task.state = "RUNNING" /\ fd.state = "up"
      /\ UNCHANGED <<mode, res, pcb, ring, app, srv>>
  BY <1>0 DEF HandshakeStep, At, Scheduled
<1>2. /\ next \in TaskType /\ next.cpu /\ next.state = "RUNNING"
      /\ next.pc \in {"handshake", "splice", "destruct"}
  <2> DEFINE q == IF ~last THEN task.pc ELSE IF pcb.ref THEN "splice" ELSE "destruct"
  <2>1. q \in {"handshake", "splice", "destruct"} /\ task.step + 1 \in Int
    BY <1>0, <1>1 DEF TaskType
  <2>2. next = [task EXCEPT !.step = task.step + 1, !.pc = q]
    BY <1>0 DEF TaskType
  <2> HIDE DEF last, q, next
  <2> QED
    BY <1>0, <1>1, <2>1, <2>2 DEF TaskType, Pcs
<1>3. failed \in TaskType /\ failed.cpu /\ failed.state = "RUNNING" /\ failed.pc = "destruct"
  BY <1>0, <1>1 DEF TaskType, Pcs
<1>4. "handshake" \in Pcs
  BY DEF Pcs
<1>5. /\ again \in TaskType /\ again.step = task.step
      /\ \/ again.pc = "destruct" /\ again.state = task.state /\ again.cpu = task.cpu
         \/ again.pc = "handshake" /\ again.state = "WAITING" /\ again.cpu = FALSE
  BY <1>0, <1>4, WaitIOGives
<1>6. \/ /\ msg \in Written
         /\ \/ task' = failed /\ fd' = fd
            \/ task' = again /\ fd' = [fd EXCEPT !.nospace = TRUE]
            \/ /\ task' = next /\ fd' = [fd EXCEPT !.out = Append(@, msg)]
               /\ ~fd.rst /\ Len(fd.out) # FdSnd
      \/ /\ msg \notin Written
         /\ \/ task' = failed /\ fd' = fd
            \/ task' = again /\ fd' = fd /\ ~fd.rst /\ fd.in = <<>> /\ ~fd.eof
            \/ task' \in {next, failed} /\ fd' = [fd EXCEPT !.in = Tail(@)] /\ fd.in # <<>>
  <2> HIDE DEF next, failed, again, msg
  <2> QED
    BY <1>0 DEF HandshakeStep, next, failed, again, msg, last, FdType
<1>7. msg \in Written => msg \in Int
  BY DEF Written, METHODS, CREDS, REQUEST
<1> HIDE DEF msg, next, failed, again, last
<1>8. /\ fd' \in FdType /\ fd'.state = "up" /\ Len(fd'.out) <= FdSnd
  <2>1. fd.in \in Seq(Int) /\ fd.out \in Seq(Int) /\ Len(fd.out) \in Nat /\ Len(fd.out) <= FdSnd
    BY <1>0 DEF FdType, Scheduled
  <2>2. fd.in # <<>> => Tail(fd.in) \in Seq(Int)
    BY <2>1
  <2>3. msg \in Written => Append(fd.out, msg) \in Seq(Int) /\ Len(Append(fd.out, msg)) = Len(fd.out) + 1
    BY <1>7, <2>1
  <2>4. CASE fd' = fd \/ fd' = [fd EXCEPT !.nospace = TRUE]
    BY <1>0, <1>1, <2>1, <2>4 DEF FdType
  <2>5. CASE fd' = [fd EXCEPT !.in = Tail(@)] /\ fd.in # <<>>
    BY <1>0, <1>1, <2>1, <2>2, <2>5 DEF FdType
  <2>6. CASE fd' = [fd EXCEPT !.out = Append(@, msg)] /\ msg \in Written /\ Len(fd.out) # FdSnd
    <3>1. Len(fd.out) + 1 <= FdSnd
      BY <2>1, <2>6, SizeFacts
    <3>2. fd' \in FdType /\ fd'.state = "up" /\ fd'.out = Append(fd.out, msg)
      BY <1>0, <1>1, <2>3, <2>6 DEF FdType
    <3> QED
      BY <2>3, <2>6, <3>1, <3>2
  <2> QED
    BY <1>6, <2>4, <2>5, <2>6
<1>9. /\ task' \in TaskType
      /\ \/ task'.cpu /\ task'.state = "RUNNING" /\ task'.pc \in {"handshake", "splice", "destruct"}
         \/ task' = again /\ ~task'.cpu /\ task'.state = "WAITING" /\ task'.pc = "handshake"
  BY <1>1, <1>2, <1>3, <1>5, <1>6
<1>10. Scheduled' /\ Draining'
  BY <1>8, <1>9 DEF Scheduled, Draining
<1>11. Alert'
  <2>1. CASE task'.state = "RUNNING"
    BY <1>9, <2>1 DEF Alert
  <2>2. CASE task'.state = "WAITING"
    <3>1. task' = again /\ task'.pc = "handshake" /\ task'.step = task.step
      BY <1>5, <1>9, <2>2
    <3>2. Handshake(mode')[task'.step] = msg
      BY <1>1, <3>1 DEF msg
    <3>3. task' # failed /\ task' # next
      BY <1>2, <1>3, <2>2
    <3>4. msg \notin Written => fd' = fd /\ ~fd.rst /\ fd.in = <<>> /\ ~fd.eof
      BY <1>6, <3>3
    <3> QED
      BY <3>1, <3>2, <3>4 DEF Alert
  <2> QED
    BY <1>9, <2>1, <2>2
<1> QED
  BY <1>0, <1>1, <1>8, <1>9, <1>10, <1>11, TaskMoves

-----------------------------------------------------------------------------
(* The splice loop. *)

\* Taking n bytes off the front of the queue.
LEMMA Cut ==
  ASSUME NEW T, NEW s \in Seq(T), NEW n \in 0 .. Len(s)
  PROVE  /\ Take(s, n) \in Seq(T) /\ Len(Take(s, n)) = n
         /\ Drop(s, n) \in Seq(T) /\ Len(Drop(s, n)) = Len(s) - n
<1>1. Len(s) \in Nat
  BY LenProperties
<1>2. 1 \in 1 .. Len(s) + 1 /\ n \in 1 - 1 .. Len(s) /\ n + 1 \in 1 .. Len(s) + 1
      /\ Len(s) \in (n + 1) - 1 .. Len(s)
  BY <1>1
<1>3. Take(s, n) \in Seq(T) /\ Len(Take(s, n)) = n
  BY <1>1, <1>2, SubSeqProperties DEF Take
<1>4. Drop(s, n) \in Seq(T) /\ Len(Drop(s, n)) = Len(s) - n
  BY <1>1, <1>2, SubSeqProperties DEF Drop
<1> QED
  BY <1>3, <1>4

\* App to server.  What leaves the queue opens the window again, and a direction
\* that could not go on is blocked by the queue or by the socket.
LEMMA SpliceFDoes ==
  ASSUME SessionInv, tcp_splice_f, fd.state = "up"
  PROVE  /\ res' \in ResType /\ res'.b = res.b
         /\ fd' \in FdType /\ fd'.state = fd.state /\ fd'.edge = fd.edge
         /\ Len(fd'.out) <= FdSnd
         /\ pcb' \in PcbType /\ pcb'.ref = pcb.ref /\ pcb'.lw = pcb.lw /\ pcb'.segs = pcb.segs
         /\ pcb'.ref => pcb'.wnd + Len(pcb'.queue) = TcpWnd
         /\ res'.f = 0 => BlockedF'
<1>0. /\ res \in ResType /\ fd \in FdType /\ pcb \in PcbType
      /\ Len(fd.out) <= FdSnd /\ WindowCredit
  BY Parts DEF Scheduled
<1> DEFINE want == Least(Len(pcb.queue), Iov)
           n == Least(want, FdSnd - Len(fd.out))
<1>1. /\ pcb.queue \in Seq(Int) /\ fd.out \in Seq(Int)
      /\ Len(pcb.queue) \in Nat /\ Len(fd.out) \in Nat
      /\ (pcb.queue = <<>>) = (Len(pcb.queue) = 0)
  BY <1>0 DEF PcbType, FdType
<1>2. /\ n \in 0 .. Len(pcb.queue) /\ n <= FdSnd - Len(fd.out)
      /\ pcb.queue # <<>> /\ n = 0 => Len(fd.out) = FdSnd
  <2> DEFINE q == Len(pcb.queue)
             o == Len(fd.out)
  <2>1. q \in Nat /\ o \in Nat /\ o <= FdSnd /\ FdSnd \in Nat /\ Iov \in Nat \ {0}
        /\ (pcb.queue = <<>>) = (q = 0) /\ want = Least(q, Iov) /\ n = Least(want, FdSnd - o)
    BY <1>0, <1>1, SizeFacts
  <2> HIDE DEF q, o, n, want
  <2>2. want \in 0 .. q /\ (q # 0 => want # 0)
    BY <2>1 DEF Least
  <2>3. n \in 0 .. want /\ n <= FdSnd - o /\ (n = 0 => want = 0 \/ o = FdSnd)
    BY <2>1, <2>2 DEF Least
  <2> QED
    BY <2>1, <2>2, <2>3 DEF q, o
<1>3. \/ /\ pcb.queue = <<>> /\ pcb.eof
         /\ res' = [res EXCEPT !.f = -1] /\ fd' = [fd EXCEPT !.shut = TRUE] /\ pcb' = pcb
      \/ /\ pcb.queue = <<>> /\ ~pcb.eof
         /\ res' = [res EXCEPT !.f = 0] /\ fd' = fd /\ pcb' = pcb
      \/ /\ pcb.queue # <<>> /\ fd.rst
         /\ res' = [res EXCEPT !.f = -1] /\ fd' = fd /\ pcb' = pcb
      \/ /\ pcb.queue # <<>> /\ ~fd.rst /\ n = 0
         /\ res' = [res EXCEPT !.f = 0] /\ fd' = [fd EXCEPT !.nospace = TRUE] /\ pcb' = pcb
      \/ /\ pcb.queue # <<>> /\ ~fd.rst /\ n # 0
         /\ res' = [res EXCEPT !.f = 1]
         /\ fd' = [fd EXCEPT !.out = @ \o Take(pcb.queue, n), !.nospace = n < want]
         /\ pcb' = tcp_recved([pcb EXCEPT !.queue = Drop(@, n)], n)
  <2> HIDE DEF n, want
  <2> QED
    BY <1>0 DEF tcp_splice_f, n, want, FdType, PcbType
<1> HIDE DEF n, want
<1>4. CASE ~(pcb.queue # <<>> /\ ~fd.rst /\ n # 0)
  <2>0. pcb' = pcb
    BY <1>3, <1>4
  <2>1. /\ res' \in ResType /\ res'.b = res.b
    BY <1>0, <1>3, <1>4 DEF ResType
  <2>2. /\ fd' \in FdType /\ fd'.state = fd.state /\ fd'.edge = fd.edge /\ fd'.out = fd.out
        /\ fd'.rst = fd.rst
    BY <1>0, <1>3, <1>4 DEF FdType
  <2>3. res'.f = 0 => BlockedF'
    <3>1. CASE pcb.queue = <<>>
      BY <1>0, <1>3, <2>0, <3>1 DEF ResType, BlockedF
    <3>2. CASE pcb.queue # <<>> /\ fd.rst
      BY <1>0, <1>3, <3>2 DEF ResType
    <3>3. CASE pcb.queue # <<>> /\ ~fd.rst
      <4>1. fd' = [fd EXCEPT !.nospace = TRUE] /\ n = 0
        BY <1>3, <1>4, <3>3
      <4>2. fd'.nospace
        BY <1>0, <4>1 DEF FdType
      <4> QED
        BY <1>2, <2>0, <2>2, <3>3, <4>1, <4>2 DEF BlockedF
    <3> QED
      BY <3>1, <3>2, <3>3
  <2> QED
    BY <1>0, <2>0, <2>1, <2>2, <2>3 DEF WindowCredit
<1>5. CASE pcb.queue # <<>> /\ ~fd.rst /\ n # 0
  <2> DEFINE t == Take(pcb.queue, n)
             d == Drop(pcb.queue, n)
             p == [pcb EXCEPT !.queue = d]
             b == n < want
  <2>1. /\ res' = [res EXCEPT !.f = 1]
        /\ fd' = [fd EXCEPT !.out = fd.out \o t, !.nospace = b]
        /\ pcb' = tcp_recved(p, n)
    BY <1>0, <1>3, <1>5 DEF FdType, PcbType
  <2>2. /\ t \in Seq(Int) /\ Len(t) = n /\ d \in Seq(Int) /\ Len(d) = Len(pcb.queue) - n
    BY <1>1, <1>2, Cut
  <2>3. /\ p \in PcbType /\ p.ref = pcb.ref /\ p.lw = pcb.lw /\ p.segs = pcb.segs
        /\ p.queue = d /\ p.wnd = pcb.wnd
    <3> HIDE DEF d
    <3> QED
      BY <1>0, <2>2 DEF PcbType
  <2>4. fd.out \o t \in Seq(Int) /\ Len(fd.out \o t) = Len(fd.out) + n
    <3> HIDE DEF t
    <3> QED
      BY <1>1, <2>2, ConcatProperties
  <2>5. b \in BOOLEAN
    OBVIOUS
  <2> HIDE DEF t, d, p, b
  <2>6. res' \in ResType /\ res'.b = res.b /\ res'.f = 1
    BY <1>0, <2>1 DEF ResType
  <2>7. /\ fd' \in FdType /\ fd'.state = fd.state /\ fd'.edge = fd.edge /\ fd'.out = fd.out \o t
    BY <1>0, <2>1, <2>4, <2>5 DEF FdType
  <2>8. Len(fd'.out) <= FdSnd
    BY <1>1, <1>2, <2>4, <2>7, SizeFacts
  <2>9. CASE ~pcb.ref
    <3>1. pcb' = p
      BY <2>1, <2>3, <2>9 DEF tcp_recved
    <3> QED
      BY <2>3, <2>6, <2>7, <2>8, <2>9, <3>1
  <2>10. CASE pcb.ref
    <3> DEFINE w == Least(pcb.wnd + n, TcpWnd)
    <3>1. pcb' = [p EXCEPT !.wnd = w]
      BY <2>1, <2>3, <2>10 DEF tcp_recved
    <3>2. pcb.wnd \in Int /\ pcb.wnd + Len(pcb.queue) = TcpWnd
      BY <1>0, <2>10 DEF PcbType, WindowCredit
    <3>3. w \in Int /\ w = pcb.wnd + n
      BY <1>1, <1>2, <3>2, SizeFacts DEF Least
    <3> HIDE DEF w
    <3>4. /\ pcb' \in PcbType /\ pcb'.ref = pcb.ref /\ pcb'.lw = pcb.lw /\ pcb'.segs = pcb.segs
          /\ pcb'.queue = d /\ pcb'.wnd = w
      BY <2>3, <3>1, <3>3 DEF PcbType
    <3>5. w + Len(d) = TcpWnd
      BY <1>1, <1>2, <2>2, <3>2, <3>3, SizeFacts
    <3> QED
      BY <2>6, <2>7, <2>8, <3>4, <3>5
  <2> QED
    BY <2>9, <2>10
<1> QED
  BY <1>4, <1>5

\* tcp_splice_f gives back the window for each byte it writes, and sleeps only
\* with nothing to do.
LEMMA SpliceFKeeps == ASSUME SessionInv, SpliceF PROVE SessionInv'
<1>0. /\ task \in TaskType /\ res \in ResType /\ fd \in FdType /\ pcb \in PcbType /\ app \in AppType
      /\ Scheduled /\ Ledger /\ WindowCredit /\ Types
  BY Parts
<1>1. /\ task.cpu /\ task.pc = "splice" /\ task.state = "RUNNING" /\ fd.state = "up"
      /\ UNCHANGED <<mode, ring, app, srv>>
      /\ task' = [task EXCEPT !.pc = "splice_b"]
  BY <1>0 DEF SpliceF, At, Scheduled
<1>2. task' \in TaskType /\ task'.cpu /\ task'.pc = "splice_b" /\ task'.state = "RUNNING"
  BY <1>0, <1>1 DEF TaskType, Pcs
<1>3. /\ res' \in ResType /\ res'.b = res.b
      /\ fd' \in FdType /\ fd'.state = fd.state
      /\ Len(fd'.out) <= FdSnd
      /\ pcb' \in PcbType /\ pcb'.ref = pcb.ref /\ pcb'.lw = pcb.lw /\ pcb'.segs = pcb.segs
      /\ pcb'.ref => pcb'.wnd + Len(pcb'.queue) = TcpWnd
      /\ res'.f = 0 => BlockedF'
  <2>1. CASE res.f >= 0
    <3>1. tcp_splice_f
      BY <2>1 DEF SpliceF
    <3> QED
      BY <1>1, <3>1, SpliceFDoes
  <2>2. CASE ~(res.f >= 0)
    <3>1. UNCHANGED <<res, fd, pcb>>
      BY <2>2 DEF SpliceF
    <3>2. res.f # 0
      BY <2>2
    <3> QED
      BY <1>0, <3>1, <3>2 DEF WindowCredit, Scheduled
  <2> QED
    BY <2>1, <2>2
<1>4. Types'
  BY <1>0, <1>1, <1>2, <1>3 DEF Types
<1>5. WindowCredit' /\ Ledger'
  BY <1>0, <1>1, <1>3 DEF WindowCredit, Ledger
<1>6. Scheduled' /\ Alert' /\ Draining'
  BY <1>1, <1>2, <1>3 DEF Scheduled, Alert, Draining
<1> QED
  BY <1>4, <1>5, <1>6 DEF SessionInv

\* The last loop waits for what lwIP still sends from the ring.
LEMMA DrainKeeps == ASSUME SessionInv, SpliceDrain PROVE SessionInv'
<1>0. task \in TaskType /\ fd \in FdType /\ app \in AppType /\ ring \in RingType /\ Scheduled /\ Ledger
  BY Parts
<1> DEFINE w == WaitIO(task, "drain", "destruct")
<1>1. /\ task.cpu /\ task.pc = "drain" /\ task.state = "RUNNING"
      /\ UNCHANGED <<mode, res, pcb, ring, fd, app, srv>>
  BY <1>0 DEF SpliceDrain, At, Scheduled
<1>2. "drain" \in Pcs /\ "destruct" \in Pcs
  BY DEF Pcs
<1>3. /\ w \in TaskType
      /\ \/ w.pc = "destruct" /\ w.state = task.state /\ w.cpu = task.cpu
         \/ w.pc = "drain" /\ w.state = "WAITING" /\ w.cpu = FALSE
  BY <1>0, <1>2, WaitIOGives
<1>4. \/ task' = [task EXCEPT !.pc = "destruct"]
      \/ task' = w /\ ring.use # 0
  BY DEF SpliceDrain
<1> HIDE DEF w
<1>5. /\ task' \in TaskType
      /\ \/ task'.pc = "destruct" /\ task'.state = "RUNNING" /\ task'.cpu
         \/ task'.pc = "drain" /\ task'.state = "WAITING" /\ ~task'.cpu /\ ring.use # 0
  <2>1. CASE task' = [task EXCEPT !.pc = "destruct"]
    BY <1>0, <1>1, <1>2, <2>1 DEF TaskType
  <2>2. CASE task' = w /\ ring.use # 0
    BY <1>1, <1>3, <2>2
  <2> QED
    BY <1>4, <2>1, <2>2
<1>6. ring.use >= 0 /\ ring.use \in Int
  <2>1. Len(pcb.segs) \in Nat
    BY Parts DEF PcbType
  <2> QED
    BY <1>0, <2>1 DEF Ledger, RingType
<1>7. Scheduled' /\ Alert' /\ Draining'
  BY <1>0, <1>1, <1>5, <1>6 DEF Scheduled, Alert, Draining
<1> QED
  BY <1>0, <1>1, <1>5, <1>7, TaskMoves

\* The end of the session leaves no connection behind it.
LEMMA DestructKeeps == ASSUME SessionInv, Destruct PROVE SessionInv'
<1>0. /\ task \in TaskType /\ fd \in FdType /\ app \in AppType /\ pcb \in PcbType /\ ring \in RingType
      /\ Scheduled /\ Ledger /\ Types
  BY Parts
<1>1. task' \in TaskType /\ ~task'.cpu /\ task'.state = "STOPPED" /\ task'.pc = "destruct"
  BY <1>0 DEF Destruct, At, TaskType
<1>2. /\ pcb' \in PcbType /\ ~pcb'.ref /\ pcb'.segs = <<>>
  <2> DEFINE l == IF pcb.ref THEN "FREED" ELSE pcb.lw
  <2>1. l \in States
    BY <1>0 DEF PcbType, States
  <2>2. pcb' = [pcb EXCEPT !.ref = FALSE, !.queue = <<>>, !.segs = <<>>, !.lw = l]
    BY <1>0 DEF Destruct, PcbType
  <2>3. <<>> \in Seq(Int) /\ <<>> \in Seq(Slots)
    OBVIOUS
  <2> HIDE DEF l
  <2> QED
    BY <1>0, <2>1, <2>2, <2>3 DEF PcbType
<1>3. app' \in AppType /\ app'.cut = app.cut
  BY <1>0 DEF Destruct, AppType
<1>4. fd' \in FdType /\ fd'.out = fd.out
  BY <1>0 DEF Destruct, FdType
<1>5. UNCHANGED <<mode, res, ring, srv>>
  BY DEF Destruct
<1>6. Types'
  BY <1>0, <1>1, <1>2, <1>3, <1>4, <1>5 DEF Types
<1>7. WindowCredit'
  BY <1>2 DEF WindowCredit
<1>8. Ledger'
  <2>1. Len(pcb.segs) \in Nat /\ Len(pcb'.segs) = 0
    BY <1>0, <1>2 DEF PcbType
  <2>2. ring.rda \in Int /\ ring.use \in Int
    BY <1>0 DEF RingType
  <2> QED
    BY <1>0, <1>2, <1>3, <1>5, <2>1, <2>2 DEF Ledger
<1>9. Scheduled' /\ Alert' /\ Draining'
  BY <1>0, <1>1, <1>4 DEF Scheduled, Alert, Draining
<1> QED
  BY <1>6, <1>7, <1>8, <1>9 DEF SessionInv

-----------------------------------------------------------------------------
(* The SOCKS server and the kernel's socket. *)

\* A step of the server: the socket stays up, and what it changes is an edge, or
\* no news to the task.
LEMMA FdMoves ==
  ASSUME SessionInv, UNCHANGED <<mode, task, res, pcb, ring, app>>,
         fd' \in FdType, srv' \in SrvType, Len(fd'.out) <= FdSnd,
         fd.state = "up" => fd'.state = "up", fd.state # "closed" => fd'.state # "closed",
         Alert'
  PROVE  SessionInv'
<1>1. Types'
  BY Parts DEF Types
<1>2. WindowCredit' /\ Ledger' /\ Draining'
  BY Parts DEF WindowCredit, Ledger, Draining
<1>3. Scheduled'
  BY Parts DEF Scheduled
<1> QED
  BY <1>1, <1>2, <1>3 DEF SessionInv

\* The proxy accepts, or refuses, and reports an edge.
LEMMA SrvConnectKeeps == ASSUME SessionInv, SrvConnect PROVE SessionInv'
<1>0. fd \in FdType /\ srv \in SrvType /\ Len(fd.out) <= FdSnd
  BY Parts DEF Scheduled
<1>1. PICK s \in {"up", "refused"} : fd' = [fd EXCEPT !.state = s, !.edge = TRUE]
  BY DEF SrvConnect
<1>2. fd.state = "connecting" /\ UNCHANGED <<mode, task, res, pcb, ring, app, srv>>
  BY DEF SrvConnect
<1>3. fd' \in FdType /\ fd'.state \in {"up", "refused"} /\ fd'.edge /\ fd'.out = fd.out
  BY <1>0, <1>1 DEF FdType
<1>4. Alert'
  BY <1>3 DEF Alert
<1> QED
  BY <1>0, <1>2, <1>3, <1>4, FdMoves

\* The proxy reads, and makes room that somebody may wait for.
LEMMA SrvReadKeeps == ASSUME SessionInv, SrvRead PROVE SessionInv'
<1>0. /\ fd \in FdType /\ srv \in SrvType /\ Scheduled /\ Alert
  BY Parts
<1> DEFINE e == fd.edge \/ (fd.nospace /\ fd.state = "up")
           g == srv.got \o fd.out
<1>1. /\ UNCHANGED <<mode, task, res, pcb, ring, app>>
      /\ fd' = [fd EXCEPT !.out = <<>>, !.nospace = FALSE, !.edge = e]
      /\ srv' = [srv EXCEPT !.got = g]
  BY <1>0 DEF SrvRead, FdType, SrvType
<1>2. e \in BOOLEAN
  BY <1>0 DEF FdType
<1>3. g \in Seq(Int) /\ <<>> \in Seq(Int)
  BY <1>0 DEF FdType, SrvType
<1>4. ~e => ~fd.edge /\ (fd.nospace => fd.state # "up")
  BY <1>0 DEF FdType
<1> HIDE DEF e, g
<1>5. /\ fd' \in FdType /\ fd'.state = fd.state /\ fd'.out = <<>> /\ fd'.edge = e
      /\ fd'.in = fd.in /\ fd'.eof = fd.eof /\ fd'.rst = fd.rst
  BY <1>0, <1>1, <1>2, <1>3 DEF FdType
<1>6. srv' \in SrvType
  BY <1>0, <1>1, <1>3 DEF SrvType
<1>7. Len(fd'.out) <= FdSnd
  BY <1>5, SizeFacts
<1>8. Alert'
  <2> SUFFICES ASSUME ~e PROVE Alert'
    BY <1>5 DEF Alert
  <2>1. ASSUME task.pc = "splice_b" \/ (task.state = "WAITING" /\ task.pc = "splice"), res.f = 0
        PROVE  BlockedF'
    <3>1. fd.state = "up"
      BY <1>0, <2>1 DEF Scheduled
    <3>2. pcb.queue = <<>> /\ ~pcb.eof
      BY <1>0, <1>4, <2>1, <3>1 DEF Alert, BlockedF
    <3> QED
      BY <1>1, <3>2 DEF BlockedF
  <2>2. BlockedB' <=> BlockedB
    BY <1>1, <1>5 DEF BlockedB
  <2> QED
    BY <1>0, <1>1, <1>4, <1>5, <2>1, <2>2 DEF Alert
<1> QED
  BY <1>1, <1>5, <1>6, <1>7, <1>8, FdMoves

\* The proxy sees the session's end of stream.
LEMMA SrvEofKeeps == ASSUME SessionInv, SrvEof PROVE SessionInv'
<1>0. fd \in FdType /\ srv \in SrvType /\ Len(fd.out) <= FdSnd /\ Alert
  BY Parts DEF Scheduled
<1>1. UNCHANGED <<mode, task, res, pcb, ring, fd, app>>
  BY DEF SrvEof
<1>2. srv' \in SrvType
  BY <1>0 DEF SrvEof, SrvType
<1>3. Alert'
  BY <1>0, <1>1 DEF Alert, BlockedF, BlockedB
<1> QED
  BY <1>0, <1>1, <1>2, <1>3, FdMoves

\* The proxy sends, and reports an edge.
LEMMA SrvSendKeeps == ASSUME SessionInv, SrvSend PROVE SessionInv'
<1>0. fd \in FdType /\ srv \in SrvType /\ Len(fd.out) <= FdSnd
  BY Parts DEF Scheduled
<1> DEFINE msg == Head(srv.todo)
<1>1. /\ UNCHANGED <<mode, task, res, pcb, ring, app>> /\ srv.todo # <<>>
      /\ srv' = [srv EXCEPT !.todo = Tail(@)]
  BY DEF SrvSend
<1>2. msg \in Int /\ Tail(srv.todo) \in Seq(Int)
  BY <1>0, <1>1 DEF SrvType
<1>3. PICK m \in {msg, REFUSED} : fd' = [fd EXCEPT !.in = Append(@, m), !.edge = TRUE]
  BY DEF SrvSend
<1>4. m \in Int
  BY <1>2 DEF REFUSED
<1>5. Append(fd.in, m) \in Seq(Int)
  BY <1>0, <1>4 DEF FdType
<1>6. fd' \in FdType /\ fd'.state = fd.state /\ fd'.edge /\ fd'.out = fd.out
  BY <1>0, <1>3, <1>5 DEF FdType
<1>7. srv' \in SrvType
  <2> HIDE DEF msg
  <2> QED
    BY <1>0, <1>1, <1>2 DEF SrvType
<1>8. Alert'
  BY <1>6 DEF Alert
<1> QED
  BY <1>0, <1>1, <1>6, <1>7, <1>8, FdMoves

\* The proxy closes, or the connection is reset, and reports an edge.
LEMMA SrvEndKeeps == ASSUME SessionInv, SrvClose \/ Reset PROVE SessionInv'
<1>0. fd \in FdType /\ srv \in SrvType /\ Len(fd.out) <= FdSnd
  BY Parts DEF Scheduled
<1>1. UNCHANGED <<mode, task, res, pcb, ring, app>>
  BY DEF SrvClose, Reset
<1>2. <<>> \in Seq(Int) /\ Len(<<>>) = 0
  OBVIOUS
<1>3. fd' \in FdType /\ fd'.state = fd.state /\ fd'.edge /\ fd'.out \in {fd.out, <<>>}
  <2>1. CASE SrvClose
    BY <1>0, <2>1 DEF SrvClose, FdType
  <2>2. CASE Reset
    BY <1>0, <1>2, <2>2 DEF Reset, FdType
  <2> QED
    BY <2>1, <2>2
<1>4. srv' \in SrvType
  <2>1. CASE SrvClose
    BY <1>0, <2>1 DEF SrvClose
  <2>2. CASE Reset
    BY <1>0, <2>2 DEF Reset, SrvType
  <2> QED
    BY <2>1, <2>2
<1>5. Len(fd'.out) <= FdSnd
  BY <1>0, <1>2, <1>3, SizeFacts
<1>6. Alert'
  BY <1>3 DEF Alert
<1> QED
  BY <1>1, <1>3, <1>4, <1>5, <1>6, FdMoves

-----------------------------------------------------------------------------
(* lwIP: the callbacks find the task off the CPU and wake it. *)

\* A callback that wakes the task.
LEMMA CallbackMoves ==
  ASSUME SessionInv, Callbacks, UNCHANGED <<mode, res, fd, srv>>,
         task' \in TaskType, task'.state # "WAITING", task'.pc = task.pc, task'.cpu = task.cpu,
         pcb' \in PcbType, ring' \in RingType, app' \in AppType,
         WindowCredit', Ledger'
  PROVE  SessionInv'
<1>1. Types'
  BY Parts DEF Types
<1>2. ~task'.cpu /\ task.state # "STOPPED" /\ task'.pc # "splice_b"
  BY Parts DEF Callbacks, Scheduled
<1>3. Scheduled' /\ Alert' /\ Draining'
  BY <1>2, Parts DEF Scheduled, Alert, Draining
<1> QED
  BY <1>1, <1>3 DEF SessionInv

\* tcp_recv_handler takes bytes out of the window into the queue and wakes the
\* task.
LEMMA AppSendKeeps == ASSUME SessionInv, AppSend PROVE SessionInv'
<1>0. /\ task \in TaskType /\ pcb \in PcbType /\ ring \in RingType /\ app \in AppType
      /\ WindowCredit /\ Ledger
  BY Parts
<1>1. PICK n \in 1 .. Least(pcb.wnd, mode.up - app.sent) :
        /\ tcp_recv_handler([i \in 1 .. n |-> app.sent + i])
        /\ app' = [app EXCEPT !.sent = @ + n]
  BY DEF AppSend
<1> DEFINE b == [i \in 1 .. n |-> app.sent + i]
           q == pcb.queue \o b
           w == pcb.wnd - Len(b)
<1>2. Callbacks /\ pcb.ref /\ UNCHANGED <<mode, res, ring, fd, srv>>
  BY DEF AppSend, Callbacks
<1>3. n \in Int /\ n >= 1
  <2>1. n \in Int
    OBVIOUS
  <2> QED
    BY <1>1, <2>1
<1>4. b \in Seq(Int) /\ Len(b) = n
  BY <1>0, <1>3 DEF AppType
<1>5. q \in Seq(Int) /\ Len(q) = Len(pcb.queue) + n /\ w \in Int /\ w = pcb.wnd - n
      /\ Len(pcb.queue) \in Nat
  <2> HIDE DEF b
  <2> QED
    BY <1>0, <1>3, <1>4, ConcatProperties DEF PcbType
<1>6. pcb' = [pcb EXCEPT !.queue = q, !.wnd = w] /\ task' = Wake(task)
  BY <1>0, <1>1 DEF tcp_recv_handler, PcbType
<1> HIDE DEF b, q, w
<1>7. /\ pcb' \in PcbType /\ pcb'.ref = pcb.ref /\ pcb'.lw = pcb.lw /\ pcb'.segs = pcb.segs
      /\ pcb'.queue = q /\ pcb'.wnd = w
  BY <1>0, <1>5, <1>6 DEF PcbType
<1>8. app' \in AppType /\ app'.cut = app.cut
  <2>1. app.sent + n \in Int
    BY <1>0, <1>3 DEF AppType
  <2>2. app' = [app EXCEPT !.sent = app.sent + n]
    BY <1>1
  <2> QED
    BY <1>0, <2>1, <2>2 DEF AppType
<1>9. task' \in TaskType /\ task'.state # "WAITING" /\ task'.pc = task.pc /\ task'.cpu = task.cpu
  BY <1>0, <1>6, WakeGives
<1>10. WindowCredit'
  <2>1. pcb.wnd \in Int /\ pcb.wnd + Len(pcb.queue) = TcpWnd
    BY <1>0, <1>2 DEF PcbType, WindowCredit
  <2> QED
    <3> DEFINE k == Len(pcb.queue)
               v == pcb.wnd
    <3>1. v \in Int /\ k \in Nat /\ v + k = TcpWnd /\ w = v - n /\ Len(q) = k + n
      BY <1>5, <2>1
    <3> HIDE DEF k, v
    <3>2. w + Len(q) = TcpWnd
      BY <1>3, <3>1, SizeFacts
    <3> QED
      BY <1>7, <3>2 DEF WindowCredit
<1>11. Ledger'
  BY <1>0, <1>2, <1>7, <1>8 DEF Ledger
<1> QED
  BY <1>0, <1>2, <1>7, <1>8, <1>9, <1>10, <1>11, CallbackMoves

\* tcp_recv_handler with no buffer: the end of stream wakes the task.
LEMMA AppFinKeeps == ASSUME SessionInv, AppFin PROVE SessionInv'
<1>0. /\ task \in TaskType /\ pcb \in PcbType /\ ring \in RingType /\ app \in AppType
      /\ WindowCredit /\ Ledger
  BY Parts
<1>1. /\ Callbacks /\ UNCHANGED <<mode, res, ring, fd, app, srv>> /\ task' = Wake(task)
      /\ pcb.lw \in {"ESTABLISHED", "FIN_WAIT_1", "FIN_WAIT_2"}
  BY DEF AppFin
<1>2. PICK l \in {"CLOSE_WAIT", "CLOSING", "TIME_WAIT"} : pcb' = [pcb EXCEPT !.eof = TRUE, !.lw = l]
  BY <1>0, <1>1 DEF AppFin, PcbType
<1>3. /\ pcb' \in PcbType /\ pcb'.ref = pcb.ref /\ pcb'.lw # "FREED" /\ pcb'.segs = pcb.segs
      /\ pcb'.queue = pcb.queue /\ pcb'.wnd = pcb.wnd
  BY <1>0, <1>2 DEF PcbType, States
<1>4. task' \in TaskType /\ task'.state # "WAITING" /\ task'.pc = task.pc /\ task'.cpu = task.cpu
  BY <1>0, <1>1, WakeGives
<1>5. WindowCredit' /\ Ledger'
  BY <1>0, <1>1, <1>3 DEF WindowCredit, Ledger
<1> QED
  BY <1>0, <1>1, <1>3, <1>4, <1>5, CallbackMoves

\* tcp_sent_handler frees slots of the ring and wakes the task.
LEMMA AppAckKeeps == ASSUME SessionInv, AppAck PROVE SessionInv'
<1>0. /\ task \in TaskType /\ pcb \in PcbType /\ ring \in RingType /\ app \in AppType
      /\ WindowCredit /\ Ledger
  BY Parts
<1>1. PICK n \in 1 .. Len(pcb.segs) :
        /\ app' = [app EXCEPT !.got = @ \o [i \in 1 .. n |-> ring.data[pcb.segs[i]]]]
        /\ pcb' = [pcb EXCEPT !.segs = Drop(@, n)]
        /\ ring' = ReadRelease(ring, n)
  BY DEF AppAck
<1>2. Callbacks /\ pcb.ref /\ UNCHANGED <<mode, res, fd, srv>> /\ task' = Wake(task)
  BY DEF AppAck, Callbacks
<1> DEFINE d == Drop(pcb.segs, n)
           g == [i \in 1 .. n |-> ring.data[pcb.segs[i]]]
<1>3. pcb.segs \in Seq(Slots) /\ Len(pcb.segs) \in Nat /\ n \in 0 .. Len(pcb.segs)
  BY <1>0, <1>1 DEF PcbType
<1>4. d \in Seq(Slots) /\ Len(d) = Len(pcb.segs) - n
  BY <1>3, Cut
<1>5. g \in Seq(Int)
  <2>1. \A i \in 1 .. n : pcb.segs[i] \in Slots
    BY <1>3
  <2>2. \A i \in 1 .. n : ring.data[pcb.segs[i]] \in Int
    BY <1>0, <2>1 DEF RingType
  <2> QED
    BY <1>3, <2>2
<1>6. app.got \o g \in Seq(Int)
  <2> HIDE DEF g
  <2> QED
    BY <1>0, <1>5 DEF AppType
<1>7. app' \in AppType /\ app'.cut = app.cut
  <2> HIDE DEF g
  <2>1. app' = [app EXCEPT !.got = app.got \o g]
    BY <1>1 DEF g
  <2> QED
    BY <1>0, <1>6, <2>1 DEF AppType
<1>8. /\ pcb' \in PcbType /\ pcb'.ref = pcb.ref /\ pcb'.lw = pcb.lw /\ pcb'.segs = d
      /\ pcb'.queue = pcb.queue /\ pcb'.wnd = pcb.wnd
  <2> HIDE DEF d
  <2>1. pcb' = [pcb EXCEPT !.segs = d]
    BY <1>1 DEF d
  <2> QED
    BY <1>0, <1>4, <2>1 DEF PcbType
<1>9. ring' \in RingType /\ ring'.rda = ring.rda /\ ring'.use = ring.use - n
  <2>1. ring.use \in Int /\ n \in Int /\ 0 \in Slots
    BY <1>0, <1>3, SizeFacts DEF RingType, Slots
  <2>2. CASE ring.use - n = 0
    BY <1>0, <1>1, <2>1, <2>2 DEF ReadRelease, RingType
  <2>3. CASE ring.use - n # 0
    BY <1>0, <1>1, <2>1, <2>3 DEF ReadRelease, RingType
  <2> QED
    BY <2>2, <2>3
<1>10. task' \in TaskType /\ task'.state # "WAITING" /\ task'.pc = task.pc /\ task'.cpu = task.cpu
  BY <1>0, <1>2, WakeGives
<1>11. WindowCredit'
  BY <1>0, <1>2, <1>8 DEF WindowCredit
<1>12. Ledger'
  <2> DEFINE k == Len(pcb.segs)
  <2>1. /\ ring.rda \in Int /\ ring.use \in Int /\ k \in Nat /\ n \in 0 .. k
        /\ 0 <= ring.rda /\ k + ring.rda <= ring.use /\ ring.use <= MaxSize /\ MaxSize \in Nat
        /\ app.cut # "full" /\ (app.cut \in {"short", "hole"} => res.b = -1)
        /\ (app.cut \notin {"short", "hole"} => ring.use = k + ring.rda)
        /\ ring'.rda = ring.rda /\ ring'.use = ring.use - n /\ Len(pcb'.segs) = k - n
        /\ pcb'.ref /\ app'.cut = app.cut /\ res' = res
    BY <1>0, <1>2, <1>3, <1>4, <1>7, <1>8, <1>9, SizeFacts DEF Ledger, RingType
  <2> HIDE DEF k
  <2>2. /\ k - n + ring.rda <= ring.use - n /\ ring.use - n <= MaxSize
        /\ ring.use = k + ring.rda => ring.use - n = k - n + ring.rda
    BY <2>1
  <2> QED
    BY <2>1, <2>2 DEF Ledger
<1> QED
  BY <1>2, <1>7, <1>8, <1>9, <1>10, <1>11, <1>12, CallbackMoves

\* tcp_err_handler takes the connection from the session.
LEMMA PcbErrorKeeps == ASSUME SessionInv, PcbError PROVE SessionInv'
<1>0. /\ task \in TaskType /\ pcb \in PcbType /\ ring \in RingType /\ app \in AppType /\ Ledger
  BY Parts
<1>1. /\ Callbacks /\ UNCHANGED <<mode, res, ring, fd, srv>> /\ task' = Terminate(task)
  BY DEF PcbError
<1>2. /\ pcb' \in PcbType /\ ~pcb'.ref /\ pcb'.segs = <<>>
  <2> DEFINE p == [pcb EXCEPT !.lw = "FREED", !.segs = <<>>]
  <2>1. p \in PcbType /\ p.segs = <<>>
    <3>1. <<>> \in Seq(Slots)
      OBVIOUS
    <3> QED
      BY <1>0, <3>1 DEF PcbType, States
  <2>2. pcb' = [p EXCEPT !.ref = FALSE]
    BY DEF PcbError, tcp_err_handler
  <2> HIDE DEF p
  <2> QED
    BY <2>1, <2>2 DEF PcbType
<1>3. app' \in AppType /\ app'.cut \in {app.cut, "reset"} /\ (app.cut # "no" => app'.cut = app.cut)
  BY <1>0 DEF PcbError, AppType
<1>4. task' \in TaskType /\ task'.state # "WAITING" /\ task'.pc = task.pc /\ task'.cpu = task.cpu
  BY <1>0, <1>1, TerminateGives
<1>5. WindowCredit'
  BY <1>2 DEF WindowCredit
<1>6. Ledger'
  <2>1. Len(pcb.segs) \in Nat /\ Len(pcb'.segs) = 0 /\ ring.rda \in Int /\ ring.use \in Int
    BY <1>0, <1>2 DEF PcbType, RingType
  <2> QED
    BY <1>0, <1>1, <1>2, <1>3, <2>1 DEF Ledger
<1> QED
  BY <1>0, <1>1, <1>2, <1>3, <1>4, <1>5, <1>6, CallbackMoves

\* The acknowledgement of our FIN, with the callback of LAST_ACK.
LEMMA AppAckFinKeeps == ASSUME SessionInv, AppAckFin PROVE SessionInv'
<1>0. /\ task \in TaskType /\ pcb \in PcbType /\ ring \in RingType /\ app \in AppType /\ Ledger
      /\ fd \in FdType /\ WindowCredit /\ Types
  BY Parts
<1>1. /\ Callbacks /\ UNCHANGED <<mode, res, ring, fd, srv>> /\ pcb.segs = <<>>
      /\ pcb.lw \in {"FIN_WAIT_1", "CLOSING", "LAST_ACK"}
  BY DEF AppAckFin
<1>2. app' \in AppType /\ app'.cut = app.cut
  BY <1>0 DEF AppAckFin, AppType
<1>3. CASE pcb.lw = "LAST_ACK"
  <2>1. task' = Terminate(task) /\ pcb' = [[pcb EXCEPT !.lw = "FREED"] EXCEPT !.ref = FALSE]
    BY <1>3 DEF AppAckFin, tcp_err_handler
  <2>2. /\ pcb' \in PcbType /\ ~pcb'.ref /\ pcb'.segs = pcb.segs
    BY <1>0, <2>1 DEF PcbType, States
  <2>3. task' \in TaskType /\ task'.state # "WAITING" /\ task'.pc = task.pc /\ task'.cpu = task.cpu
    BY <1>0, <2>1, TerminateGives
  <2>4. WindowCredit' /\ Ledger'
    BY <1>0, <1>1, <1>2, <2>2 DEF WindowCredit, Ledger
  <2> QED
    BY <1>0, <1>1, <1>2, <2>2, <2>3, <2>4, CallbackMoves
<1>4. CASE pcb.lw # "LAST_ACK"
  <2>1. /\ task' = task
        /\ \E l \in {"FIN_WAIT_2", "TIME_WAIT"} : pcb' = [pcb EXCEPT !.lw = l]
    BY <1>4 DEF AppAckFin
  <2>2. /\ pcb' \in PcbType /\ pcb'.ref = pcb.ref /\ pcb'.segs = pcb.segs /\ pcb'.lw # "FREED"
        /\ pcb'.queue = pcb.queue /\ pcb'.wnd = pcb.wnd /\ pcb'.eof = pcb.eof
    BY <1>0, <2>1 DEF PcbType, States
  <2>3. WindowCredit' /\ Ledger'
    BY <1>0, <1>1, <1>2, <2>2 DEF WindowCredit, Ledger
  <2>4. Scheduled' /\ Alert' /\ Draining'
    BY <1>1, <2>1, <2>2, Parts DEF Scheduled, Alert, Draining, BlockedF, BlockedB
  <2>5. Types'
    BY <1>0, <1>1, <1>2, <2>1, <2>2 DEF Types
  <2> QED
    BY <2>3, <2>4, <2>5 DEF SessionInv
<1> QED
  BY <1>3, <1>4

\* A connection that ends silently in TIME_WAIT.
LEMMA TimeWaitKeeps == ASSUME SessionInv, TimeWaitOver PROVE SessionInv'
<1>0. pcb \in PcbType /\ Types /\ WindowCredit /\ Ledger /\ Scheduled /\ Alert /\ Draining
  BY Parts
<1>1. /\ UNCHANGED <<mode, task, res, ring, fd, app, srv>> /\ May("timewait")
      /\ pcb' = [pcb EXCEPT !.lw = "FREED"]
  BY DEF TimeWaitOver
<1>2. /\ pcb' \in PcbType /\ pcb'.ref = pcb.ref /\ pcb'.segs = pcb.segs
      /\ pcb'.queue = pcb.queue /\ pcb'.wnd = pcb.wnd /\ pcb'.eof = pcb.eof
  BY <1>0, <1>1 DEF PcbType, States
<1>3. Types' /\ WindowCredit' /\ Ledger'
  BY <1>0, <1>1, <1>2 DEF Types, WindowCredit, Ledger
<1>4. Scheduled' /\ Alert' /\ Draining'
  BY <1>0, <1>1, <1>2 DEF Scheduled, Alert, Draining, BlockedF, BlockedB
<1> QED
  BY <1>3, <1>4 DEF SessionInv

-----------------------------------------------------------------------------
(* The ring. *)

\* The slots to read come in no run, in one, or in two when they wrap around.
LEMMA ReadingGives ==
  ASSUME NEW r \in RingType, 0 <= r.rda, r.rda <= MaxSize
  PROVE  \/ r.rda = 0 /\ Reading(r) = <<>>
         \/ r.rda # 0 /\ \E a \in Seq(Slots) : Reading(r) = <<a>> /\ Len(a) = r.rda
         \/ r.rda # 0 /\ \E a \in Seq(Slots), b \in Seq(Slots) :
                            Reading(r) = <<a, b>> /\ Len(a) + Len(b) = r.rda
<1> DEFINE upper == MaxSize - r.rp
           run(a, n) == [i \in 1 .. n |-> a + i - 1]
<1>0. r.rda \in Int /\ r.rp \in Int /\ 0 <= r.rp /\ r.rp < MaxSize /\ MaxSize \in Nat
  BY SizeFacts DEF RingType, Slots
<1>1. \A a \in Slots, n \in Nat : a + n <= MaxSize => run(a, n) \in Seq(Slots) /\ Len(run(a, n)) = n
  <2> SUFFICES ASSUME NEW a \in Slots, NEW n \in Nat, a + n <= MaxSize
               PROVE  run(a, n) \in Seq(Slots) /\ Len(run(a, n)) = n
    OBVIOUS
  <2>1. \A i \in 1 .. n : a + i - 1 \in Slots
    BY <1>0 DEF Slots
  <2> QED
    BY <2>1
<1>2. CASE r.rda = 0
  BY <1>0, <1>2 DEF Reading
<1>3. CASE r.rda # 0 /\ r.rda <= upper
  <2>1. r.rda \in 1 .. upper /\ r.rda \in Nat /\ r.rp \in Slots /\ r.rp + r.rda <= MaxSize /\ ~(r.rda > upper)
    BY <1>0, <1>3 DEF Slots
  <2>2. Reading(r) = <<run(r.rp, r.rda)>>
    BY <1>0, <2>1 DEF Reading
  <2>3. run(r.rp, r.rda) \in Seq(Slots) /\ Len(run(r.rp, r.rda)) = r.rda
    BY <1>1, <2>1
  <2> HIDE DEF run
  <2> QED
    BY <1>3, <2>2, <2>3
<1>4. CASE r.rda # 0 /\ r.rda > upper
  <2>1. /\ r.rda \notin 1 .. upper /\ upper \in Nat /\ r.rp \in Slots /\ r.rp + upper <= MaxSize
        /\ r.rda - upper \in Nat /\ 0 \in Slots /\ 0 + (r.rda - upper) <= MaxSize
        /\ upper + (r.rda - upper) = r.rda
    BY <1>0, <1>4 DEF Slots
  <2>2. Reading(r) = <<run(r.rp, upper), run(0, r.rda - upper)>>
    BY <1>0, <1>4, <2>1 DEF Reading
  <2> DEFINE a == run(r.rp, upper)
             b == run(0, r.rda - upper)
  <2>3. a \in Seq(Slots) /\ Len(a) = upper
    BY <1>1, <2>1
  <2>4. b \in Seq(Slots) /\ Len(b) = r.rda - upper
    BY <1>1, <2>1
  <2>5. Reading(r) = <<a, b>> /\ Len(a) + Len(b) = r.rda
    BY <2>1, <2>2, <2>3, <2>4
  <2> HIDE DEF a, b
  <2> QED
    BY <1>4, <2>3, <2>4, <2>5
<1> QED
  BY <1>0, <1>2, <1>3, <1>4

\* Filling the ring, giving all of it to lwIP.
LEMMA WriteGives ==
  ASSUME NEW r \in RingType, NEW bytes \in Seq(Int)
  PROVE  /\ WriteFinish(r, bytes) \in RingType
         /\ WriteFinish(r, bytes).use = r.use + Len(bytes)
         /\ WriteFinish(r, bytes).rda = r.rda + Len(bytes)
<1> DEFINE nth(i) == ((i - r.wp) % MaxSize) + 1
           d == [i \in DOMAIN r.data |-> IF nth(i) <= Len(bytes) THEN bytes[nth(i)] ELSE r.data[i]]
           k == Len(bytes)
           w == (r.wp + k) % MaxSize
<1>1. /\ k \in Nat /\ r.wp \in Int /\ r.use \in Int /\ r.rda \in Int /\ MaxSize \in Nat \ {0}
      /\ r.data \in [Slots -> Int]
  BY SizeFacts DEF RingType, Slots
<1>2. w \in Slots
  <2> HIDE DEF k
  <2> QED
    BY <1>1 DEF Slots
<1>3. d \in [Slots -> Int]
  <2> SUFFICES ASSUME NEW i \in Slots
               PROVE (IF nth(i) <= Len(bytes) THEN bytes[nth(i)] ELSE r.data[i]) \in Int
    BY <1>1
  <2>1. nth(i) \in Int /\ nth(i) >= 1
    BY <1>1 DEF Slots
  <2>2. CASE nth(i) <= Len(bytes)
    <3>1. nth(i) \in 1 .. Len(bytes)
      BY <1>1, <2>1, <2>2
    <3> QED
      BY <2>2, <3>1, ElementOfSeq
  <2>3. CASE ~(nth(i) <= Len(bytes))
    BY <1>1, <2>3
  <2> QED
    BY <2>2, <2>3
<1>4. WriteFinish(r, bytes) = [r EXCEPT !.data = d, !.wp = w, !.use = r.use + k, !.rda = r.rda + k]
  BY DEF WriteFinish, RingType
<1>5. r.use + k \in Int /\ r.rda + k \in Int
  <2> HIDE DEF k
  <2> QED
    BY <1>1
<1> DEFINE u == r.use + k
           v == r.rda + k
<1>6. WriteFinish(r, bytes) = [r EXCEPT !.data = d, !.wp = w, !.use = u, !.rda = v] /\ u \in Int /\ v \in Int
  BY <1>4, <1>5
<1> HIDE DEF d, w, u, v, k
<1>7. /\ WriteFinish(r, bytes) \in RingType /\ WriteFinish(r, bytes).use = u
      /\ WriteFinish(r, bytes).rda = v
  BY <1>2, <1>3, <1>6 DEF RingType
<1> QED
  BY <1>7 DEF u, v, k

\* hev_ring_buffer_read_finish moves the read pointer over all that may be read.
LEMMA ReadFinishGives ==
  ASSUME NEW r \in RingType
  PROVE  /\ ReadFinish(r, r.rda) \in RingType /\ ReadFinish(r, r.rda).rda = 0
         /\ ReadFinish(r, r.rda).use = r.use
<1> DEFINE w == (r.rp + r.rda) % MaxSize
<1>1. r.rp \in Int /\ r.rda \in Int /\ MaxSize \in Nat \ {0}
  BY SizeFacts DEF RingType, Slots
<1>2. w \in Slots /\ r.rda - r.rda = 0
  BY <1>1 DEF Slots
<1>3. ReadFinish(r, r.rda) = [r EXCEPT !.rp = w, !.rda = 0]
  BY <1>2 DEF ReadFinish, RingType
<1> HIDE DEF w
<1>4. 0 \in Int /\ w \in Slots
  BY <1>2
<1>5. [r EXCEPT !.rp = w, !.rda = 0] \in RingType
  BY <1>4 DEF RingType
<1>6. [r EXCEPT !.rp = w, !.rda = 0].rda = 0 /\ [r EXCEPT !.rp = w, !.rda = 0].use = r.use
  BY DEF RingType
<1> QED
  BY <1>3, <1>5, <1>6

\* tcp_write takes a run as a whole or not at all, and takes it when it fits and
\* memory is there.
LEMMA TcpWriteGives ==
  ASSUME NEW segs \in Seq(Slots), NEW run \in Seq(Slots), NEW mem \in BOOLEAN
  PROVE  /\ TcpWrite(segs, run, mem) \in Seq(Slots)
         /\ Len(segs) \in Nat /\ Len(run) \in Nat
         /\ Len(TcpWrite(segs, run, mem)) \in {Len(segs), Len(segs) + Len(run)}
         /\ ~mem /\ Len(segs) + Len(run) <= SndBuf =>
              Len(TcpWrite(segs, run, mem)) = Len(segs) + Len(run)
<1>1. /\ Len(segs) \in Nat /\ Len(run) \in Nat /\ segs \o run \in Seq(Slots)
      /\ Len(segs \o run) = Len(segs) + Len(run)
  BY ConcatProperties, LenProperties
<1>2. CASE mem \/ Len(segs) + Len(run) > SndBuf
  <2>1. TcpWrite(segs, run, mem) = segs
    BY <1>2 DEF TcpWrite
  <2> QED
    BY <1>1, <1>2, <2>1, SizeFacts
<1>3. CASE ~(mem \/ Len(segs) + Len(run) > SndBuf)
  <2>1. TcpWrite(segs, run, mem) = segs \o run
    BY <1>3 DEF TcpWrite
  <2> QED
    BY <1>1, <2>1
<1> QED
  BY <1>2, <1>3

\* All runs of the ring to lwIP: what the ring has to give fits the send buffer, so
\* that only memory can refuse it.
LEMMA WritesGive ==
  ASSUME NEW r \in RingType, 0 <= r.rda, r.rda # 0, NEW segs \in Seq(Slots),
         Len(segs) + r.rda <= MaxSize, NEW mem
  PROVE  LET runs == Reading(r)
             one == TcpWrite(segs, runs[1], 1 \in mem)
             all == IF Len(runs) = 2 THEN TcpWrite(one, runs[2], 2 \in mem) ELSE one
         IN  /\ all \in Seq(Slots) /\ Len(all) \in Nat
             /\ Len(all) <= Len(segs) + r.rda
             /\ mem = {} => Len(all) = Len(segs) + r.rda
<1>0. Len(segs) \in Nat /\ r.rda \in Int /\ SndBuf \in Nat /\ MaxSize \in Nat /\ MaxSize <= SndBuf
  BY SizeFacts DEF RingType
<1>1. r.rda <= MaxSize
  BY <1>0
<1> DEFINE m1 == 1 \in mem
           m2 == 2 \in mem
<1>2. m1 \in BOOLEAN /\ m2 \in BOOLEAN /\ (mem = {} => ~m1 /\ ~m2)
  OBVIOUS
<1>3. CASE \E a \in Seq(Slots) : Reading(r) = <<a>> /\ Len(a) = r.rda
  <2>1. PICK a \in Seq(Slots) : Reading(r) = <<a>> /\ Len(a) = r.rda
    BY <1>3
  <2> DEFINE one == TcpWrite(segs, a, m1)
  <2>2. /\ one \in Seq(Slots) /\ Len(one) \in {Len(segs), Len(segs) + r.rda}
        /\ ~m1 => Len(one) = Len(segs) + r.rda
    <3>1. Len(segs) + Len(a) <= SndBuf
      BY <1>0, <2>1
    <3> HIDE DEF m1
    <3> QED
      BY <1>2, <2>1, <3>1, TcpWriteGives
  <2>3. Reading(r)[1] = a /\ Len(Reading(r)) # 2
    BY <2>1
  <2> HIDE DEF one, m1, m2
  <2>4. Len(one) \in Nat /\ Len(one) <= Len(segs) + r.rda
    BY <1>0, <2>2
  <2> QED
    BY <1>2, <2>2, <2>3, <2>4 DEF one, m1, m2
<1>4. CASE \E a \in Seq(Slots), b \in Seq(Slots) :
             Reading(r) = <<a, b>> /\ Len(a) + Len(b) = r.rda
  <2>1. PICK a \in Seq(Slots), b \in Seq(Slots) : Reading(r) = <<a, b>> /\ Len(a) + Len(b) = r.rda
    BY <1>4
  <2>2. Len(a) \in Nat /\ Len(b) \in Nat
    OBVIOUS
  <2> DEFINE one == TcpWrite(segs, a, m1)
             all == TcpWrite(one, b, m2)
  <2>3. /\ one \in Seq(Slots) /\ Len(one) \in {Len(segs), Len(segs) + Len(a)}
        /\ ~m1 => Len(one) = Len(segs) + Len(a)
    <3>1. Len(segs) + Len(a) <= SndBuf
      BY <1>0, <2>1, <2>2
    <3> HIDE DEF m1
    <3> QED
      BY <1>2, <3>1, TcpWriteGives
  <2> HIDE DEF one
  <2>4. /\ all \in Seq(Slots) /\ Len(all) \in {Len(one), Len(one) + Len(b)}
        /\ ~m2 => Len(all) = Len(one) + Len(b)
    <3>1. Len(one) + Len(b) <= SndBuf
      BY <1>0, <2>1, <2>2, <2>3
    <3> HIDE DEF m2
    <3> QED
      BY <1>2, <2>3, <3>1, TcpWriteGives
  <2>5. Reading(r)[1] = a /\ Reading(r)[2] = b /\ Len(Reading(r)) = 2
    BY <2>1
  <2> HIDE DEF all, m1, m2
  <2>6. /\ Len(all) \in Nat /\ Len(all) <= Len(segs) + r.rda
        /\ ~m1 /\ ~m2 => Len(all) = Len(segs) + r.rda
    BY <1>0, <2>1, <2>2, <2>3, <2>4, SMTT(60)
  <2> QED
    BY <1>2, <2>4, <2>5, <2>6 DEF one, all, m1, m2
<1> QED
  BY <1>1, <1>3, <1>4, ReadingGives

-----------------------------------------------------------------------------
(* Server to app. *)

\* tcp_splice_b reads into free slots, hands them to lwIP, and keeps the ledger.
LEMMA SpliceBDoes ==
  ASSUME SessionInv, tcp_splice_b, res.b >= 0
  PROVE  /\ res' \in ResType /\ res'.f = res.f
         /\ fd' \in FdType /\ fd' = [fd EXCEPT !.in = fd'.in]
         /\ pcb' \in PcbType /\ pcb'.ref = pcb.ref /\ pcb'.eof = pcb.eof
         /\ pcb'.queue = pcb.queue /\ pcb'.wnd = pcb.wnd
         /\ pcb.lw # "FREED" => pcb'.lw # "FREED"
         /\ ring' \in RingType /\ app' \in AppType
         /\ Ledger'
         /\ res'.b = 0 => BlockedB'
<1>0. /\ res \in ResType /\ fd \in FdType /\ pcb \in PcbType /\ ring \in RingType /\ app \in AppType
      /\ Ledger
  BY Parts
<1> DEFINE space == Writing(ring)
           n == Least(Len(fd.in), space)
           got == CASE space = 0 -> 0
                    [] space > 0 /\ fd.rst -> -1
                    [] space > 0 /\ ~fd.rst /\ n = 0 -> IF fd.eof THEN -1 ELSE 0
                    [] OTHER -> 1
           filled == IF got = 1 THEN WriteFinish(ring, Take(fd.in, n)) ELSE ring
           k == IF got = 1 THEN n ELSE 0
           j == Len(pcb.segs)
           i == IF got = 1 THEN Drop(fd.in, n) ELSE fd.in
<1>1. /\ ring.use \in Int /\ ring.rda \in Int /\ j \in Nat /\ MaxSize \in Nat \ {0}
      /\ 0 <= ring.rda /\ j + ring.rda <= ring.use /\ ring.use <= MaxSize
      /\ pcb.ref => ring.use = j + ring.rda
      /\ ~pcb.ref => pcb.segs = <<>>
      /\ app.cut # "full" /\ app.cut \notin {"short", "hole"}
  BY <1>0, SizeFacts DEF Ledger, RingType, PcbType
<1>2. space \in Nat /\ space = MaxSize - ring.use
  <2> HIDE DEF j
  <2> QED
    BY <1>1 DEF Writing
<1>3. fd.in \in Seq(Int) /\ Len(fd.in) \in Nat /\ (Len(fd.in) = 0 => fd.in = <<>>)
  BY <1>0 DEF FdType
<1>4. n \in 0 .. Len(fd.in) /\ n <= space /\ (n = 0 => Len(fd.in) = 0 \/ space = 0)
  <2> HIDE DEF space
  <2> QED
    BY <1>2, <1>3 DEF Least
<1>5. /\ got \in {-1, 0, 1}
      /\ got = 0 => space = 0 \/ (fd.in = <<>> /\ ~fd.eof /\ ~fd.rst)
      /\ got = 1 => n # 0
  <2> HIDE DEF space, n
  <2> QED
    BY <1>2, <1>3, <1>4
<1> HIDE DEF got
<1>6. k \in Nat /\ k <= space /\ (k = 0 => got # 1)
  <2> HIDE DEF n, space
  <2> QED
    BY <1>2, <1>3, <1>4, <1>5
<1>7. filled \in RingType /\ filled.use = ring.use + k /\ filled.rda = ring.rda + k
  <2>1. CASE got = 1
    <3> DEFINE t == Take(fd.in, n)
    <3>1. t \in Seq(Int) /\ Len(t) = n
      BY <1>3, <1>4, Cut
    <3> HIDE DEF n, t
    <3>2. filled = WriteFinish(ring, t)
      BY <2>1 DEF t, n
    <3> QED
      BY <1>0, <2>1, <3>1, <3>2, WriteGives
  <2>2. CASE got # 1
    BY <1>0, <1>1, <2>2
  <2> QED
    BY <2>1, <2>2
<1>8. i \in Seq(Int) /\ (got # 1 => i = fd.in)
  <2>1. Drop(fd.in, n) \in Seq(Int)
    BY <1>3, <1>4, Cut, SMTT(60)
  <2> HIDE DEF n
  <2> QED
    BY <1>3, <2>1
<1>9. /\ fd' = [fd EXCEPT !.in = i]
      /\ ~pcb.ref => ring' = filled /\ res' = [res EXCEPT !.b = -1] /\ pcb' = pcb /\ app' = app
      /\ pcb.ref /\ Reading(filled) = <<>> =>
           /\ ring' = filled
           /\ res' = [res EXCEPT !.b = got]
           /\ pcb' = IF got = -1
                       THEN [pcb EXCEPT !.lw = IF @ = "CLOSE_WAIT" THEN "LAST_ACK"
                                               ELSE "FIN_WAIT_1"]
                       ELSE pcb
           /\ app' = [app EXCEPT !.cut = IF got = -1 /\ fd.rst THEN "server" ELSE @]
  <2> HIDE DEF filled, i
  <2> QED
    BY <1>0 DEF tcp_splice_b, got, filled, i, n, space, FdType
<1>10. pcb.ref /\ Reading(filled) # <<>> =>
         \E mem, out :
            LET runs == Reading(filled)
                one == TcpWrite(pcb.segs, runs[1], 1 \in mem)
                all == IF Len(runs) = 2 THEN TcpWrite(one, runs[2], 2 \in mem)
                       ELSE one
                ok == Len(all) = Len(pcb.segs) + filled.rda
                cut == CASE ok -> IF out THEN app.cut ELSE "tun"
                         [] ~ok /\ mem = {} -> "full"
                         [] ~ok /\ mem # {} -> IF one # all THEN "hole" ELSE "short"
            IN /\ pcb' = [pcb EXCEPT !.segs = all]
               /\ ring' = ReadFinish(filled, filled.rda)
               /\ res' = [res EXCEPT !.b = IF ok /\ out THEN 1 ELSE -1]
               /\ app' = [app EXCEPT !.cut = cut]
  <2>1. IF ~pcb.ref
        THEN ring' = filled /\ res' = [res EXCEPT !.b = -1] /\ UNCHANGED <<pcb, app>>
        ELSE IF Reading(filled) = <<>>
        THEN /\ ring' = filled
             /\ res' = [res EXCEPT !.b = got]
             /\ pcb' = IF got = -1
                       THEN [pcb EXCEPT !.lw = IF @ = "CLOSE_WAIT" THEN "LAST_ACK"
                                               ELSE "FIN_WAIT_1"]
                       ELSE pcb
             /\ app' = [app EXCEPT !.cut = IF got = -1 /\ fd.rst THEN "server" ELSE @]
        ELSE \E mem \in SUBSET (IF May("mem") THEN DOMAIN Reading(filled) ELSE {}),
                out \in (IF May("tun") THEN BOOLEAN ELSE {TRUE}) :
               LET one == TcpWrite(pcb.segs, Reading(filled)[1], 1 \in mem)
                   all == IF Len(Reading(filled)) = 2
                            THEN TcpWrite(one, Reading(filled)[2], 2 \in mem)
                            ELSE one
                   ok == Len(all) = Len(pcb.segs) + filled.rda
                   cut == CASE ok -> IF out THEN app.cut ELSE "tun"
                            [] ~ok /\ mem = {} -> "full"
                            [] ~ok /\ mem # {} -> IF one # all THEN "hole" ELSE "short"
               IN /\ pcb' = [pcb EXCEPT !.segs = all]
                  /\ ring' = ReadFinish(filled, filled.rda)
                  /\ res' = [res EXCEPT !.b = IF ok /\ out THEN 1 ELSE -1]
                  /\ app' = [app EXCEPT !.cut = cut]
    BY DEF tcp_splice_b, got
  <2> HIDE DEF filled
  <2> QED
    BY <2>1
<1>11. /\ filled.use \in Int /\ filled.rda \in Int /\ 0 <= filled.rda
       /\ filled.use <= MaxSize /\ filled.rda <= MaxSize
       /\ j + filled.rda <= filled.use
       /\ pcb.ref => filled.use = j + filled.rda
  <2> DEFINE u == ring.use
             v == ring.rda
             fu == filled.use
             fv == filled.rda
  <2>1. /\ u \in Int /\ v \in Int /\ j \in Nat /\ k \in Nat /\ 0 <= v /\ j + v <= u
        /\ k <= MaxSize - u /\ MaxSize \in Nat /\ fu = u + k /\ fv = v + k
    <3> HIDE DEF filled, k, j, space
    <3> QED
      BY <1>1, <1>2, <1>6, <1>7
  <2>2. pcb.ref => u = j + v
    BY <1>1
  <2> HIDE DEF k, j, u, v, fu, fv
  <2>3. /\ fu \in Int /\ fv \in Int /\ 0 <= fv /\ fu <= MaxSize /\ fv <= MaxSize /\ j + fv <= fu
        /\ u = j + v => fu = j + fv
    BY <2>1
  <2> QED
    BY <2>2, <2>3 DEF fu, fv
<1> HIDE DEF space, n, filled, k, j, i
<1>12. fd' \in FdType /\ fd'.in = i /\ fd' = [fd EXCEPT !.in = fd'.in] /\ fd'.eof = fd.eof /\ fd'.rst = fd.rst
  BY <1>0, <1>8, <1>9 DEF FdType
<1>13. CASE ~pcb.ref
  <2>1. ring' = filled /\ pcb' = pcb /\ app' = app /\ res' = [res EXCEPT !.b = -1]
    BY <1>9, <1>13
  <2>2. res' \in ResType /\ res'.f = res.f /\ res'.b = -1
    BY <1>0, <2>1 DEF ResType
  <2>3. Ledger'
    BY <1>1, <1>11, <1>13, <2>1, <2>2 DEF Ledger, j
  <2> QED
    BY <1>0, <1>7, <1>12, <2>1, <2>2, <2>3
<1>14. CASE pcb.ref /\ Reading(filled) = <<>>
  <2>1. filled.rda = 0
    <3>1. \A a, b : <<a>> # <<>> /\ <<a, b>> # <<>>
      OBVIOUS
    <3> QED
      BY <1>7, <1>11, <1>14, <3>1, ReadingGives
  <2>2. k = 0 /\ ring.rda = 0 /\ filled.use = ring.use /\ got # 1
    BY <1>1, <1>6, <1>7, <2>1
  <2>3. res' \in ResType /\ res'.f = res.f /\ res'.b = got
    BY <1>0, <1>5, <1>9, <1>14 DEF ResType
  <2>4. /\ pcb' \in PcbType /\ pcb'.ref = pcb.ref /\ pcb'.eof = pcb.eof
        /\ pcb'.queue = pcb.queue /\ pcb'.wnd = pcb.wnd /\ pcb'.segs = pcb.segs
        /\ pcb.lw # "FREED" => pcb'.lw # "FREED"
    <3> DEFINE l == IF pcb.lw = "CLOSE_WAIT" THEN "LAST_ACK" ELSE "FIN_WAIT_1"
    <3>1. pcb' = pcb \/ pcb' = [pcb EXCEPT !.lw = l]
      BY <1>9, <1>14
    <3>2. l \in States /\ l # "FREED"
      BY DEF States
    <3> HIDE DEF l
    <3> QED
      BY <1>0, <3>1, <3>2 DEF PcbType
  <2>5. app' \in AppType /\ app'.cut \in {app.cut, "server"}
    <3> DEFINE c == IF got = -1 /\ fd.rst THEN "server" ELSE app.cut
    <3>1. app' = [app EXCEPT !.cut = c]
      BY <1>0, <1>9, <1>14 DEF AppType
    <3>2. c \in {app.cut, "server"}
      OBVIOUS
    <3> HIDE DEF c
    <3> QED
      BY <1>0, <3>1, <3>2 DEF AppType
  <2>6. ring' = filled
    BY <1>9, <1>14
  <2>7. Ledger'
    BY <1>1, <1>11, <1>14, <2>4, <2>5, <2>6 DEF Ledger, j
  <2>8. res'.b = 0 => BlockedB'
    <3> SUFFICES ASSUME got = 0 PROVE BlockedB'
      BY <2>3
    <3>1. CASE space = 0
      <4>1. ring.use = MaxSize /\ j = MaxSize
        BY <1>1, <1>2, <1>14, <2>2, <3>1
      <4>2. ring'.use = MaxSize /\ Len(pcb'.segs) > 0
        BY <1>1, <2>2, <2>4, <2>6, <4>1 DEF j
      <4> QED
        BY <4>2 DEF BlockedB
    <3>2. CASE fd.in = <<>> /\ ~fd.eof /\ ~fd.rst
      BY <1>8, <1>12, <2>2, <3>2 DEF BlockedB
    <3> QED
      BY <1>5, <3>1, <3>2
  <2> QED
    BY <1>7, <1>12, <2>3, <2>4, <2>5, <2>6, <2>7, <2>8
<1>15. CASE pcb.ref /\ Reading(filled) # <<>>
  <2>1. filled.rda # 0
    BY <1>7, <1>11, <1>15, ReadingGives
  <2>2. PICK mem, out :
            LET runs == Reading(filled)
                one == TcpWrite(pcb.segs, runs[1], 1 \in mem)
                all == IF Len(runs) = 2 THEN TcpWrite(one, runs[2], 2 \in mem)
                       ELSE one
                ok == Len(all) = Len(pcb.segs) + filled.rda
                cut == CASE ok -> IF out THEN app.cut ELSE "tun"
                         [] ~ok /\ mem = {} -> "full"
                         [] ~ok /\ mem # {} -> IF one # all THEN "hole" ELSE "short"
            IN /\ pcb' = [pcb EXCEPT !.segs = all]
               /\ ring' = ReadFinish(filled, filled.rda)
               /\ res' = [res EXCEPT !.b = IF ok /\ out THEN 1 ELSE -1]
               /\ app' = [app EXCEPT !.cut = cut]
    BY <1>10, <1>15
  <2> DEFINE runs == Reading(filled)
             one == TcpWrite(pcb.segs, runs[1], 1 \in mem)
             all == IF Len(runs) = 2 THEN TcpWrite(one, runs[2], 2 \in mem) ELSE one
             ok == Len(all) = Len(pcb.segs) + filled.rda
             cut == CASE ok -> IF out THEN app.cut ELSE "tun"
                      [] ~ok /\ mem = {} -> "full"
                      [] ~ok /\ mem # {} -> IF one # all THEN "hole" ELSE "short"
             b == IF ok /\ out THEN 1 ELSE -1
  <2>3. /\ all \in Seq(Slots) /\ Len(all) \in Nat
        /\ Len(all) <= j + filled.rda
        /\ mem = {} => Len(all) = j + filled.rda
    <3>1. pcb.segs \in Seq(Slots) /\ Len(pcb.segs) + filled.rda <= MaxSize
      BY <1>0, <1>11, <1>15 DEF PcbType, j
    <3> QED
      BY <1>7, <1>11, <2>1, <3>1, WritesGive DEF j
  <2>4. /\ pcb' = [pcb EXCEPT !.segs = all] /\ ring' = ReadFinish(filled, filled.rda)
        /\ res' = [res EXCEPT !.b = b] /\ app' = [app EXCEPT !.cut = cut]
    BY <2>2
  <2>5. /\ b \in {1, -1} /\ (~ok => b = -1)
        /\ ok => cut \in {app.cut, "tun"}
        /\ ~ok => cut \in {"hole", "short"}
    <3> HIDE DEF all, one
    <3>1. ok \in BOOLEAN /\ (~ok => mem # {})
      BY <2>3 DEF j
    <3> HIDE DEF ok
    <3> QED
      BY <3>1
  <2>6. ok => Len(all) = j + filled.rda
    BY DEF j
  <2> HIDE DEF runs, one, all, ok, cut, b
  <2>7. /\ pcb' \in PcbType /\ pcb'.ref = pcb.ref /\ pcb'.eof = pcb.eof
        /\ pcb'.queue = pcb.queue /\ pcb'.wnd = pcb.wnd /\ pcb'.segs = all /\ pcb'.lw = pcb.lw
    BY <1>0, <2>3, <2>4 DEF PcbType
  <2>8. ring' \in RingType /\ ring'.rda = 0 /\ ring'.use = filled.use
    BY <1>7, <2>4, ReadFinishGives
  <2>9. res' \in ResType /\ res'.f = res.f /\ res'.b = b
    BY <1>0, <2>4, <2>5 DEF ResType
  <2>10. app' \in AppType /\ app'.cut = cut
    BY <1>0, <2>4, <2>5 DEF AppType
  <2>11. Ledger'
    <3>1. Len(all) + 0 <= filled.use /\ (ok => filled.use = Len(all) + 0)
      BY <1>1, <1>11, <1>15, <2>3, <2>6
    <3>2. cut # "full" /\ (cut \in {"short", "hole"} => b = -1) /\ (cut \notin {"short", "hole"} => ok)
      BY <1>1, <2>5
    <3> QED
      BY <1>11, <1>15, <2>7, <2>8, <2>9, <2>10, <3>1, <3>2 DEF Ledger
  <2>12. res'.b # 0
    BY <2>5, <2>9
  <2> QED
    BY <1>12, <2>7, <2>8, <2>9, <2>10, <2>11, <2>12
<1> QED
  BY <1>13, <1>14, <1>15

\* The downward half of the splice loop, and whether the task sleeps after it.
LEMMA SpliceBKeeps == ASSUME SessionInv, SpliceB PROVE SessionInv'
<1>0. /\ task \in TaskType /\ res \in ResType /\ fd \in FdType /\ pcb \in PcbType
      /\ ring \in RingType /\ app \in AppType
      /\ Types /\ Scheduled /\ Ledger /\ Alert /\ WindowCredit
  BY Parts
<1>1. /\ task.cpu /\ task.pc = "splice_b" /\ task.state = "RUNNING" /\ fd.state = "up"
      /\ UNCHANGED <<mode, srv>> /\ task' = Decide(res')
  BY <1>0 DEF SpliceB, At, Scheduled
<1>2. /\ res' \in ResType /\ res'.f = res.f
      /\ fd' \in FdType /\ fd' = [fd EXCEPT !.in = fd'.in]
      /\ pcb' \in PcbType /\ pcb'.ref = pcb.ref /\ pcb'.eof = pcb.eof
      /\ pcb'.queue = pcb.queue /\ pcb'.wnd = pcb.wnd
      /\ pcb.lw # "FREED" => pcb'.lw # "FREED"
      /\ ring' \in RingType /\ app' \in AppType
      /\ Ledger'
      /\ res'.b = 0 => BlockedB'
  <2>1. CASE res.b >= 0
    <3>1. tcp_splice_b
      BY <2>1 DEF SpliceB
    <3> QED
      BY <2>1, <3>1, SpliceBDoes
  <2>2. CASE ~(res.b >= 0)
    <3>1. UNCHANGED <<res, fd, pcb, ring, app>>
      BY <2>2 DEF SpliceB
    <3>2. res.b # 0
      BY <2>2
    <3>3. fd = [fd EXCEPT !.in = fd.in]
      BY <1>0 DEF FdType
    <3> QED
      BY <1>0, <3>1, <3>2, <3>3 DEF Ledger
  <2> QED
    BY <2>1, <2>2
<1>3. /\ fd'.state = "up" /\ fd'.out = fd.out /\ fd'.rst = fd.rst /\ fd'.nospace = fd.nospace
      /\ fd'.edge = fd.edge
  BY <1>0, <1>1, <1>2 DEF FdType
<1>4. BlockedF' <=> BlockedF
  BY <1>2, <1>3 DEF BlockedF
<1>5. /\ task' \in TaskType
      /\ \/ task'.pc = "splice" /\ task'.state = "RUNNING" /\ ~task'.cpu
         \/ task'.pc = "drain" /\ task'.state = "RUNNING" /\ task'.cpu
         \/ task'.pc = "splice" /\ task'.state = "WAITING" /\ ~task'.cpu
  <2> DEFINE w == WaitIO(task, "splice", "drain")
  <2>1. "splice" \in Pcs /\ "drain" \in Pcs
    BY DEF Pcs
  <2>2. /\ w \in TaskType
        /\ \/ w.pc = "drain" /\ w.state = task.state /\ w.cpu = task.cpu
           \/ w.pc = "splice" /\ w.state = "WAITING" /\ w.cpu = FALSE
    BY <1>0, <2>1, WaitIOGives
  <2>3. \/ task' = [[task EXCEPT !.cpu = FALSE] EXCEPT !.pc = "splice"]
        \/ task' = [task EXCEPT !.pc = "drain"]
        \/ task' = w
    <3>1. /\ res'.f \in {-1, 0, 1} /\ res'.b \in {-1, 0, 1}
      BY <1>2 DEF ResType
    <3> HIDE DEF w
    <3> QED
      BY <1>1, <3>1 DEF Decide, Yield, w
  <2> HIDE DEF w
  <2>4. CASE task' = [[task EXCEPT !.cpu = FALSE] EXCEPT !.pc = "splice"]
    BY <1>0, <1>1, <2>1, <2>4 DEF TaskType
  <2>5. CASE task' = [task EXCEPT !.pc = "drain"]
    BY <1>0, <1>1, <2>1, <2>5 DEF TaskType
  <2>6. CASE task' = w
    BY <1>1, <2>2, <2>6
  <2> QED
    BY <2>3, <2>4, <2>5, <2>6
<1>6. Types'
  BY <1>0, <1>1, <1>2, <1>5 DEF Types
<1>7. WindowCredit'
  BY <1>0, <1>1, <1>2 DEF WindowCredit
<1>8. Scheduled' /\ Draining'
  BY <1>0, <1>3, <1>5 DEF Scheduled, Draining
<1>9. Alert'
  BY <1>0, <1>1, <1>2, <1>3, <1>4, <1>5 DEF Alert
<1> QED
  BY <1>2, <1>6, <1>7, <1>8, <1>9 DEF SessionInv

-----------------------------------------------------------------------------
(* The theorems. *)

\* Every step of the session, the app, lwIP and the server keeps the invariant.
LEMMA SessionStep == SessionInv /\ [Next]_vars => SessionInv'
<1> SUFFICES ASSUME SessionInv, [Next]_vars PROVE SessionInv'
  OBVIOUS
<1>1. CASE TaskStep
  BY <1>1, ResumeKeeps, ConnectKeeps, HandshakeKeeps, SpliceFKeeps, SpliceBKeeps, DrainKeeps,
     DestructKeeps DEF TaskStep
<1>2. CASE Expire \/ IoPoll \/ TerminateSession
  BY <1>2, ExpireKeeps, IoPollKeeps, TerminateKeeps
<1>3. CASE AppSend \/ AppFin \/ AppAck \/ AppAckFin \/ PcbError \/ TimeWaitOver
  BY <1>3, AppSendKeeps, AppFinKeeps, AppAckKeeps, AppAckFinKeeps, PcbErrorKeeps, TimeWaitKeeps
<1>4. CASE SrvConnect \/ SrvRead \/ SrvEof \/ SrvCut \/ SrvSend \/ SrvClose \/ SrvReset
  BY <1>4, SrvConnectKeeps, SrvReadKeeps, SrvEofKeeps, SrvSendKeeps, SrvEndKeeps
     DEF SrvCut, SrvReset
<1>5. CASE UNCHANGED vars
  BY <1>5 DEF vars, SessionInv, Types, WindowCredit, Ledger,
              Scheduled, Alert, BlockedF, BlockedB, Draining
<1> QED
  BY <1>1, <1>2, <1>3, <1>4, <1>5 DEF Next

\* The invariant holds in every state.
LEMMA SessionInductive == Spec => []SessionInv
BY SessionInit, SessionStep, PTL DEF Spec

\* What lwIP's window lacks is what the queue holds: every byte the session writes
\* to the server opens the window again (tcp_splice_f, tcp_recved).
THEOREM WindowIsGivenBack == Spec => []WindowCredit
<1>1. SessionInv => WindowCredit
  BY DEF SessionInv
<1> QED
  BY <1>1, SessionInductive, PTL

\* The ring's accounts agree with lwIP's and what the ring hands to lwIP always fits
\* its send buffer, for every configured size (hev-ring-buffer.c, hev_config clamps).
THEOREM RingIsAccounted == Spec => []RingLedger
<1>1. SessionInv => RingLedger
  BY DEF SessionInv, Ledger, RingLedger
<1> QED
  BY <1>1, SessionInductive, PTL

\* A session asleep in the splice loop, in the handshake or in the last loop, with no
\* edge left to report, has nothing it could do.
THEOREM NoWakeupIsLost == Spec => []NeverAsleepWithWork
<1>1. SessionInv => NeverAsleepWithWork
  <2> SUFFICES ASSUME SessionInv, task.state = "WAITING", ~fd.edge
               PROVE /\ task.pc = "splice" =>
                          /\ res.f = 0 => IF pcb.queue = <<>> THEN ~pcb.eof
                                          ELSE Len(fd.out) = FdSnd /\ ~fd.rst
                          /\ res.b = 0 => \/ ring.use = MaxSize /\ Len(pcb.segs) > 0
                                          \/ fd.in = <<>> /\ ~fd.eof /\ ~fd.rst
                     /\ task.pc = "drain" => ring.use > 0
                     /\ task.pc = "handshake" /\ Handshake(mode)[task.step] \notin Written =>
                          fd.in = <<>> /\ ~fd.eof /\ ~fd.rst
    BY DEF NeverAsleepWithWork
  <2>1. Alert /\ Draining
    BY Parts
  <2> QED
    BY <2>1 DEF Alert, Draining, BlockedF, BlockedB
<1> QED
  BY <1>1, SessionInductive, PTL

-----------------------------------------------------------------------------
(* Runs of consecutive bytes. *)

\* The n bytes after byte a.
Run(a, n) == [i \in 1 .. n |-> a + i]

\* What a run is made of.
LEMMA RunIs ==
  ASSUME NEW a \in Int, NEW n \in Nat
  PROVE  /\ Run(a, n) \in Seq(Int) /\ Len(Run(a, n)) = n
         /\ \A i \in 1 .. n : Run(a, n)[i] = a + i
BY DEF Run

\* A sequence that counts on from a is a run.
LEMMA RunOf ==
  ASSUME NEW a \in Int, NEW s \in Seq(Int), \A i \in 1 .. Len(s) : s[i] = a + i
  PROVE  s = Run(a, Len(s))
<1>1. Len(s) \in Nat
  BY LenProperties
<1>2. Run(a, Len(s)) \in Seq(Int) /\ Len(Run(a, Len(s))) = Len(s)
      /\ \A i \in 1 .. Len(s) : Run(a, Len(s))[i] = a + i
  BY <1>1, RunIs
<1> QED
  BY <1>1, <1>2, SeqEqual

\* Two runs, the second where the first ends, are one.
LEMMA RunJoin ==
  ASSUME NEW a \in Int, NEW n \in Nat, NEW m \in Nat
  PROVE  Run(a, n) \o Run(a + n, m) = Run(a, n + m)
<1> DEFINE r == Run(a, n)
           t == Run(a + n, m)
           s == r \o t
<1>1. r \in Seq(Int) /\ Len(r) = n /\ \A i \in 1 .. n : r[i] = a + i
  BY RunIs
<1>2. t \in Seq(Int) /\ Len(t) = m /\ \A i \in 1 .. m : t[i] = a + n + i
  BY RunIs
<1> HIDE DEF r, t
<1>3. s \in Seq(Int) /\ Len(s) = n + m
      /\ \A i \in 1 .. n + m : s[i] = IF i <= n THEN r[i] ELSE t[i - n]
  BY <1>1, <1>2, ConcatProperties
<1> HIDE DEF s
<1>4. \A i \in 1 .. Len(s) : s[i] = a + i
  <2> SUFFICES ASSUME NEW i \in 1 .. n + m PROVE s[i] = a + i
    BY <1>3
  <2>1. CASE i <= n
    BY <1>1, <1>3, <2>1
  <2>2. CASE ~(i <= n)
    <3>1. i - n \in 1 .. m /\ a + n + (i - n) = a + i
      BY <2>2
    <3> QED
      BY <1>2, <1>3, <2>2, <3>1
  <2> QED
    BY <2>1, <2>2
<1>5. s = Run(a, n + m)
  BY <1>3, <1>4, RunOf
<1> QED
  BY <1>5 DEF s, r, t

\* The parts of a run are runs.
LEMMA RunCut ==
  ASSUME NEW a \in Int, NEW n \in Nat, NEW k \in 0 .. n
  PROVE  Take(Run(a, n), k) = Run(a, k) /\ Drop(Run(a, n), k) = Run(a + k, n - k)
<1> DEFINE r == Run(a, n)
           t == Take(r, k)
           d == Drop(r, k)
<1>1. r \in Seq(Int) /\ Len(r) = n /\ \A i \in 1 .. n : r[i] = a + i
  BY RunIs
<1> HIDE DEF r
<1>2. t \in Seq(Int) /\ Len(t) = k /\ d \in Seq(Int) /\ Len(d) = n - k
  BY <1>1, Cut
<1>3. \A i \in 1 .. k : t[i] = r[i]
  BY <1>1 DEF Take
<1>4. \A i \in 1 .. n - k : d[i] = r[i + k]
  BY <1>1 DEF Drop
<1> HIDE DEF t, d
<1>5. \A i \in 1 .. Len(t) : t[i] = a + i
  BY <1>1, <1>2, <1>3
<1>6. \A i \in 1 .. Len(d) : d[i] = a + k + i
  <2> SUFFICES ASSUME NEW i \in 1 .. n - k PROVE d[i] = a + k + i
    BY <1>2
  <2>1. i + k \in 1 .. n /\ a + (i + k) = a + k + i
    OBVIOUS
  <2> QED
    BY <1>1, <1>4, <2>1
<1>7. t = Run(a, k)
  BY <1>2, <1>5, RunOf
<1>8. d = Run(a + k, n - k)
  <2> DEFINE b == a + k
  <2>1. b \in Int /\ \A i \in 1 .. Len(d) : d[i] = b + i
    BY <1>6
  <2> HIDE DEF b
  <2>2. d = Run(b, Len(d))
    BY <1>2, <2>1, RunOf
  <2> QED
    BY <1>2, <2>2 DEF b
<1> QED
  BY <1>7, <1>8 DEF t, d, r

\* The payload of a sequence is a sequence.
LEMMA PayloadType ==
  ASSUME NEW s \in Seq(Int)
  PROVE  Payload(s) \in Seq(Int) /\ Len(Payload(s)) \in Nat /\ Len(Payload(s)) <= Len(s)
BY StripType, LenProperties DEF Payload

\* Messages are negative.
LEMMA MessagesBelow == \A m \in Messages : m \in Int /\ m < 0
BY DEF Messages, METHODS, CREDS, REQUEST, METHOD, GRANTED, REPLY, ADDR, REFUSED

\* A run of bytes is payload.
LEMMA RunPayload ==
  ASSUME NEW a \in Nat, NEW n \in Nat
  PROVE  Payload(Run(a, n)) = Run(a, n)
<1> DEFINE r == Run(a, n)
<1>1. r \in Seq(Int) /\ Len(r) = n /\ \A i \in 1 .. n : r[i] = a + i
  BY RunIs
<1> HIDE DEF r
<1>2. \A i \in 1 .. Len(r) : r[i] \notin Messages
  BY <1>1, MessagesBelow
<1>3. Strip(r, Messages) = r
  BY <1>1, <1>2, StripAll
<1> QED
  BY <1>3 DEF Payload, r

\* The payload of two sequences, one behind the other.
LEMMA PayloadJoin ==
  ASSUME NEW s \in Seq(Int), NEW t \in Seq(Int)
  PROVE  Payload(s \o t) = Payload(s) \o Payload(t)
BY StripConcat DEF Payload

\* One more message, or one more byte.
LEMMA PayloadAppend ==
  ASSUME NEW s \in Seq(Int), NEW e \in Int
  PROVE  Payload(Append(s, e)) = IF e \in Messages THEN Payload(s) ELSE Append(Payload(s), e)
BY StripAppend DEF Payload

\* One less at the front.
LEMMA PayloadTail ==
  ASSUME NEW s \in Seq(Int), s # << >>
  PROVE  Payload(s) = IF Head(s) \in Messages THEN Payload(Tail(s))
                      ELSE <<Head(s)>> \o Payload(Tail(s))
BY StripHead DEF Payload

\* The first of a run.
LEMMA RunFirst ==
  ASSUME NEW a \in Int, NEW n \in Nat, NEW o \in Seq(Int), NEW t \in Seq(Int), Len(o) = 1,
         Run(a, n) = o \o t
  PROVE  n = Len(t) + 1 /\ o[1] = a + 1 /\ t = Run(a + 1, Len(t))
<1> DEFINE s == o \o t
           e == o[1]
<1>1. o \in Seq(Int) /\ Len(o) = 1 /\ o[1] = e
  OBVIOUS
<1> HIDE DEF e
<1>2. /\ s \in Seq(Int) /\ Len(s) = 1 + Len(t) /\ Len(t) \in Nat
      /\ \A i \in 1 .. 1 + Len(t) : s[i] = IF i <= 1 THEN o[i] ELSE t[i - 1]
  <2>1. Len(t) \in Nat
    BY LenProperties
  <2>2. /\ s \in Seq(Int) /\ Len(s) = Len(o) + Len(t)
        /\ \A i \in 1 .. Len(o) + Len(t) : s[i] = IF i <= Len(o) THEN o[i] ELSE t[i - Len(o)]
    BY <1>1, ConcatProperties
  <2> HIDE DEF s
  <2> QED
    BY <1>1, <2>1, <2>2
<1>3. s = Run(a, n)
  OBVIOUS
<1> HIDE DEF s
<1>4. Len(s) = n /\ \A i \in 1 .. n : s[i] = a + i
  BY <1>3, RunIs
<1>5. n = Len(t) + 1
  BY <1>2, <1>4
<1>6. s[1] = e /\ s[1] = a + 1
  BY <1>1, <1>2, <1>4, <1>5
<1>7. \A i \in 1 .. Len(t) : t[i] = a + 1 + i
  <2> SUFFICES ASSUME NEW i \in 1 .. Len(t) PROVE t[i] = a + 1 + i
    OBVIOUS
  <2> DEFINE j == i + 1
  <2>1. j \in 1 .. n /\ j \in 1 .. 1 + Len(t) /\ ~(j <= 1) /\ j - 1 = i /\ a + j = a + 1 + i
    BY <1>2, <1>5
  <2> HIDE DEF j
  <2>2. s[j] = t[i]
    BY <1>2, <2>1
  <2>3. s[j] = a + j
    BY <1>4, <2>1
  <2> QED
    BY <2>1, <2>2, <2>3
<1>8. t = Run(a + 1, Len(t))
  BY <1>7, RunOf
<1> QED
  BY <1>5, <1>6, <1>8 DEF e

\* The last of a run.
LEMMA RunLast ==
  ASSUME NEW a \in Int, NEW n \in Nat
  PROVE  Append(Run(a, n), a + n + 1) = Run(a, n + 1)
<1> DEFINE r == Run(a, n)
           s == Append(r, a + n + 1)
<1>1. r \in Seq(Int) /\ Len(r) = n /\ \A i \in 1 .. n : r[i] = a + i
  BY RunIs
<1> HIDE DEF r
<1>2. /\ s \in Seq(Int) /\ Len(s) = n + 1
      /\ \A i \in 1 .. n : s[i] = r[i] /\ s[n + 1] = a + n + 1
  BY <1>1, AppendProperties
<1>3. s[n + 1] = a + n + 1
  BY <1>1, AppendProperties
<1> HIDE DEF s
<1>4. \A i \in 1 .. Len(s) : s[i] = a + i
  <2> SUFFICES ASSUME NEW i \in 1 .. n + 1 PROVE s[i] = a + i
    BY <1>2
  <2>1. CASE i <= n
    BY <1>1, <1>2, <2>1
  <2>2. CASE i = n + 1
    BY <1>3, <2>2
  <2> QED
    BY <2>1, <2>2
<1>5. s = Run(a, n + 1)
  BY <1>2, <1>4, RunOf
<1> QED
  BY <1>5 DEF s, r

-----------------------------------------------------------------------------
(* The handshake. *)

\* How many of the server's answers the handshake has still to read at step s.
Pending(m, s) == Len(Strip(Drop(Handshake(m), s - 1), Written))

\* The handshake is a short sequence of messages.
LEMMA HandshakeIs ==
  ASSUME NEW m \in Cases
  PROVE  Handshake(m) \in Seq(Messages) /\ Len(Handshake(m)) \in 1 .. 8
<1> DEFINE creds == IF m.auth THEN <<CREDS>> ELSE <<>>
           granted == IF m.auth THEN <<GRANTED>> ELSE <<>>
           w == <<METHODS>>
           x == <<REQUEST, METHOD>>
           y == <<REPLY, ADDR>>
           u == <<METHODS, METHOD>>
           v == <<REQUEST, REPLY, ADDR>>
<1>1. {METHODS, CREDS, REQUEST, METHOD, GRANTED, REPLY, ADDR} \subseteq Messages
  BY DEF Messages
<1>2. creds \in Seq(Messages) /\ Len(creds) \in 0 .. 1 /\ granted \in Seq(Messages) /\ Len(granted) \in 0 .. 1
  BY <1>1
<1>3. /\ w \in Seq(Messages) /\ Len(w) = 1 /\ x \in Seq(Messages) /\ Len(x) = 2
      /\ y \in Seq(Messages) /\ Len(y) = 2 /\ u \in Seq(Messages) /\ Len(u) = 2
      /\ v \in Seq(Messages) /\ Len(v) = 3
  BY <1>1
<1>4. Handshake(m) = IF m.pipeline THEN w \o creds \o x \o granted \o y ELSE u \o creds \o granted \o v
  BY DEF Handshake
<1> HIDE DEF creds, granted, w, x, y, u, v
<1> DEFINE a == w \o creds
           b == a \o x
           c == b \o granted
           d == c \o y
           e == u \o creds
           f == e \o granted
           g == f \o v
<1>5. a \in Seq(Messages) /\ Len(a) = Len(w) + Len(creds)
  BY <1>2, <1>3, ConcatProperties
<1> HIDE DEF a
<1>6. b \in Seq(Messages) /\ Len(b) = Len(a) + Len(x)
  BY <1>3, <1>5, ConcatProperties
<1> HIDE DEF b
<1>7. c \in Seq(Messages) /\ Len(c) = Len(b) + Len(granted)
  BY <1>2, <1>6, ConcatProperties
<1> HIDE DEF c
<1>8. d \in Seq(Messages) /\ Len(d) = Len(c) + Len(y)
  BY <1>3, <1>7, ConcatProperties
<1>9. e \in Seq(Messages) /\ Len(e) = Len(u) + Len(creds)
  BY <1>2, <1>3, ConcatProperties
<1> HIDE DEF e
<1>10. f \in Seq(Messages) /\ Len(f) = Len(e) + Len(granted)
  BY <1>2, <1>9, ConcatProperties
<1> HIDE DEF f
<1>11. g \in Seq(Messages) /\ Len(g) = Len(f) + Len(v)
  BY <1>3, <1>10, ConcatProperties
<1> HIDE DEF d, g
<1>12. Handshake(m) = IF m.pipeline THEN d ELSE g
  BY <1>4 DEF a, b, c, d, e, f, g
<1>13. Len(d) \in 1 .. 8 /\ Len(g) \in 1 .. 8
  <2> DEFINE k == Len(creds)
             l == Len(granted)
  <2>1. k \in 0 .. 1 /\ l \in 0 .. 1 /\ Len(d) = 1 + k + 2 + l + 2 /\ Len(g) = 2 + k + l + 3
    BY <1>2, <1>3, <1>5, <1>6, <1>7, <1>8, <1>9, <1>10, <1>11
  <2> HIDE DEF k, l
  <2> QED
    BY <2>1
<1> QED
  BY <1>8, <1>11, <1>12, <1>13

\* A step of the handshake leaves one answer less to read when it reads.
LEMMA PendingStep ==
  ASSUME NEW m \in Cases, NEW s \in 1 .. Len(Handshake(m))
  PROVE  /\ Pending(m, s) \in Nat /\ Pending(m, s + 1) \in Nat
         /\ Handshake(m)[s] \in Written => Pending(m, s) = Pending(m, s + 1)
         /\ Handshake(m)[s] \notin Written => Pending(m, s) = Pending(m, s + 1) + 1
<1> DEFINE h == Handshake(m)
           d == Drop(h, s - 1)
           e == Drop(h, s)
<1>1. h \in Seq(Messages) /\ Len(h) \in Nat
  BY HandshakeIs
<1> HIDE DEF h
<1>2. s \in 1 .. Len(h)
  BY DEF h
<1>3. d \in Seq(Messages) /\ Len(d) = Len(h) - (s - 1)
  <2>1. s - 1 \in 0 .. Len(h)
    BY <1>1, <1>2
  <2> QED
    BY <1>1, <2>1, Cut
<1>4. e \in Seq(Messages) /\ Len(e) = Len(h) - s
  <2>1. s \in 0 .. Len(h)
    BY <1>1, <1>2
  <2> QED
    BY <1>1, <2>1, Cut
<1>5. d # <<>>
  BY <1>1, <1>2, <1>3
<1>6. Head(d) = h[s]
  BY <1>1, <1>2 DEF Drop
<1>7. Tail(d) = e
  BY <1>1, <1>2 DEF Drop
<1>8. Strip(d, Written) = IF Head(d) \in Written THEN Strip(e, Written)
                          ELSE <<Head(d)>> \o Strip(e, Written)
  <2> HIDE DEF d, e
  <2> QED
    BY <1>3, <1>5, <1>7, StripHead
<1> HIDE DEF d, e
<1>9. Strip(e, Written) \in Seq(Messages)
  BY <1>4, StripType
<1> DEFINE t == Strip(e, Written)
<1>10. Len(t) \in Nat /\ Len(<<Head(d)>> \o t) = Len(t) + 1
  <2> DEFINE o == <<Head(d)>>
  <2>1. o \in Seq(Messages) /\ Len(o) = 1
    BY <1>3, <1>5
  <2> HIDE DEF o, t
  <2>2. Len(t) \in Nat /\ Len(o \o t) = Len(o) + Len(t)
    BY <1>9, <2>1, ConcatProperties, LenProperties DEF t
  <2> QED
    BY <2>1, <2>2 DEF o
<1>11. Pending(m, s) = Len(Strip(d, Written))
  BY DEF Pending, d, h
<1>12. Pending(m, s + 1) = Len(t)
  <2>1. s + 1 - 1 = s
    OBVIOUS
  <2> QED
    BY <2>1 DEF Pending, t, e, h
<1> HIDE DEF t
<1> QED
  BY <1>6, <1>8, <1>10, <1>11, <1>12 DEF h, t

\* Nothing is pending after the last step.
LEMMA PendingEnd ==
  ASSUME NEW m \in Cases
  PROVE  Pending(m, Len(Handshake(m)) + 1) = 0
<1> DEFINE h == Handshake(m)
           e == Drop(h, Len(h))
<1>1. h \in Seq(Messages) /\ Len(h) \in Nat
  BY HandshakeIs
<1> HIDE DEF h
<1>2. e \in Seq(Messages) /\ Len(e) = 0
  BY <1>1, Cut
<1>3. e = <<>>
  BY <1>2, EmptySeq
<1>4. Len(h) + 1 - 1 = Len(h)
  BY <1>1
<1> QED
  BY <1>3, <1>4, StripEmpty DEF Pending, e, h

\* At the first step all of the server's answers are.
LEMMA PendingStart ==
  ASSUME NEW m \in Cases
  PROVE  Pending(m, 1) = Len(Strip(Handshake(m), Written))
<1> DEFINE h == Handshake(m)
<1>1. h \in Seq(Messages) /\ Len(h) \in Nat
  BY HandshakeIs
<1> HIDE DEF h
<1>2. Drop(h, 0) = h
  BY <1>1 DEF Drop
<1>3. 1 - 1 = 0
  OBVIOUS
<1> QED
  BY <1>2, <1>3 DEF Pending, h

-----------------------------------------------------------------------------
(* The invariant of the streams. *)

\* What lwIP sends from the ring, and the lengths of what is under way.
Sending == [i \in 1 .. Len(pcb.segs) |-> ring.data[pcb.segs[i]]]
UpGot == Len(Payload(srv.got))
UpOut == Len(Payload(fd.out))
DownIn == Len(Payload(fd.in))
DownTodo == Len(Payload(srv.todo))

\* The slot x places from the start of the ring, counted from at most one turn before it.
Slot(x) == IF x < 0 THEN x + MaxSize ELSE x

\* The server's answers come before its bytes, as many as the handshake has still to
\* read, so that the splice begins with bytes and nothing but bytes.
Stages ==
  /\ task.step \in 1 .. Len(Handshake(mode)) + 1
  /\ task.pc \in {"connect", "handshake"} => task.step <= Len(Handshake(mode))
  /\ task.pc \in {"splice", "splice_b"} => task.step = Len(Handshake(mode)) + 1
  /\ fd.rst => fd.in = <<>>
  /\ Len(fd.in) <= FdRcv
  /\ task.pc \in {"connect", "handshake", "splice", "splice_b"} /\ ~fd.rst =>
       /\ \A i \in 1 .. Len(fd.in) : fd.in[i] \in Messages <=> i <= Pending(mode, task.step)
       /\ \A i \in 1 .. Len(srv.todo) :
            srv.todo[i] \in Messages <=> Len(fd.in) + i <= Pending(mode, task.step)

\* The app's bytes: those the server has, those in the socket and those in the queue
\* follow one another, and none is missing while the session and its socket live.
Upward ==
  /\ app.sent \in 0 .. mode.up /\ pcb.wnd \in 0 .. TcpWnd
  /\ Payload(srv.got) = Run(0, UpGot)
  /\ Payload(fd.out) = Run(UpGot, UpOut)
  /\ pcb.queue = Run(app.sent - Len(pcb.queue), Len(pcb.queue))
  /\ UpGot + UpOut + Len(pcb.queue) <= app.sent
  /\ task.state # "STOPPED" /\ ~fd.rst => UpGot + UpOut + Len(pcb.queue) = app.sent

\* Only a stream that is written to its end is shut down, and nothing follows the end.
UpEnds ==
  /\ pcb.eof => pcb.lw \notin {"ESTABLISHED", "FIN_WAIT_1", "FIN_WAIT_2"}
  /\ fd.shut => res.f = -1 /\ pcb.eof /\ (~fd.rst => UpGot + UpOut = app.sent)
  /\ res.f = -1 => task.pc \notin {"connect", "handshake"}
  /\ srv.end # "open" => fd.out = <<>> /\ (fd.rst \/ fd.shut \/ fd.state = "closed")

\* The server's bytes: those the app has, those lwIP sends, those in the socket and
\* those still to come, likewise; a write refused for memory may leave a gap.
Downward ==
  /\ Payload(srv.todo) = Run(mode.down - DownTodo, DownTodo)
  /\ Payload(fd.in) = Run(mode.down - DownTodo - DownIn, DownIn)
  /\ DownIn + DownTodo <= mode.down
  /\ ring.data \in [Slots -> 0 .. NDown]
  /\ app.cut # "hole" =>
       /\ app.got = Run(0, Len(app.got)) /\ Sending = Run(Len(app.got), Len(pcb.segs))
       /\ Len(app.got) + Len(pcb.segs) + DownIn + DownTodo <= mode.down
  /\ task.state # "STOPPED" /\ ~fd.rst /\ app.cut = "no" /\ pcb.ref =>
       Len(app.got) + Len(pcb.segs) + DownIn + DownTodo = mode.down

\* While more may be written into the ring, what lwIP sends are the slots before the
\* write pointer.
Slotted ==
  pcb.ref /\ res.b >= 0 =>
    /\ ring.rda = 0 /\ ring.rp = ring.wp
    /\ \A i \in 1 .. Len(pcb.segs) : pcb.segs[i] = Slot(ring.wp - Len(pcb.segs) + i - 1)

\* The FIN goes out once, behind the last byte, unless the server was lost, and nothing
\* is sent after the end.
DownEnds ==
  /\ pcb.ref /\ res.b >= 0 =>
       app.cut = "no" /\ app.end = "open" /\ pcb.lw \in {"ESTABLISHED", "CLOSE_WAIT"}
  /\ app.end # "open" =>
       pcb.segs = <<>> /\ (pcb.ref => pcb.lw \in {"FIN_WAIT_2", "TIME_WAIT", "FREED"})
  /\ pcb.ref /\ pcb.lw \in {"FIN_WAIT_1", "CLOSING", "LAST_ACK"} =>
       \/ app.cut = "server"
       \/ app.cut = "no" /\ fd.eof /\ Len(app.got) + Len(pcb.segs) + DownTodo = mode.down

StreamInv == Stages /\ Upward /\ UpEnds /\ Downward /\ Slotted /\ DownEnds

-----------------------------------------------------------------------------
(* What each part looks at: a step that leaves it alone keeps the part. *)

\* The handshake and what the server has still to send.
LEMMA StagesStay ==
  ASSUME Stages, mode' = mode, task'.step = task.step, fd'.rst = fd.rst, fd'.in = fd.in,
         srv'.todo = srv.todo,
         \/ task'.pc = task.pc
         \/ task'.pc \in {"destruct", "drain"}
         \/ task.pc = "connect" /\ task'.pc = "handshake"
         \/ task.pc = "splice" /\ task'.pc = "splice_b"
         \/ task.pc = "splice_b" /\ task'.pc = "splice"
  PROVE  Stages'
BY DEF Stages

\* The app's bytes.
LEMMA UpwardStays ==
  ASSUME Upward, mode' = mode, app'.sent = app.sent, pcb'.wnd = pcb.wnd, pcb'.queue = pcb.queue,
         srv'.got = srv.got, fd'.out = fd.out, fd'.rst = fd.rst,
         task'.state # "STOPPED" => task.state # "STOPPED"
  PROVE  Upward'
BY DEF Upward, UpGot, UpOut

\* Their end.
LEMMA UpEndsStay ==
  ASSUME UpEnds, pcb'.eof = pcb.eof,
         pcb.eof /\ pcb.lw \notin {"ESTABLISHED", "FIN_WAIT_1", "FIN_WAIT_2"} =>
           pcb'.lw \notin {"ESTABLISHED", "FIN_WAIT_1", "FIN_WAIT_2"},
         fd'.shut = fd.shut, res'.f = res.f, fd'.rst = fd.rst,
         srv'.got = srv.got, fd'.out = fd.out, app'.sent = app.sent,
         task'.pc \in {"connect", "handshake"} => task.pc \in {"connect", "handshake"},
         srv'.end = srv.end, fd.state = "closed" => fd'.state = "closed"
  PROVE  UpEnds'
BY DEF UpEnds, UpGot, UpOut

\* The server's bytes.
LEMMA DownwardStays ==
  ASSUME Downward, mode' = mode, srv'.todo = srv.todo, fd'.in = fd.in, ring'.data = ring.data,
         app'.cut = app.cut, app'.got = app.got, pcb'.segs = pcb.segs, fd'.rst = fd.rst,
         pcb'.ref => pcb.ref, task'.state # "STOPPED" => task.state # "STOPPED"
  PROVE  Downward'
BY DEF Downward, DownIn, DownTodo, Sending

\* The ring.
LEMMA SlottedStays ==
  ASSUME Slotted, pcb'.ref => pcb.ref, res'.b = res.b, ring' = ring, pcb'.segs = pcb.segs
  PROVE  Slotted'
BY DEF Slotted

\* The end of the server's bytes.
LEMMA DownEndsStay ==
  ASSUME DownEnds, mode' = mode, pcb'.ref => pcb.ref, res'.b = res.b, app'.cut = app.cut,
         app'.end = app.end, app'.got = app.got, pcb'.lw = pcb.lw, pcb'.segs = pcb.segs,
         fd.eof => fd'.eof, srv'.todo = srv.todo
  PROVE  DownEnds'
BY DEF DownEnds, DownTodo

\* A step of the scheduler moves no byte.
Quiet ==
  /\ UNCHANGED <<mode, res, pcb, ring, srv>>
  /\ fd'.in = fd.in /\ fd'.out = fd.out /\ fd'.eof = fd.eof /\ fd'.rst = fd.rst /\ fd'.shut = fd.shut
  /\ fd.state = "closed" => fd'.state = "closed"
  /\ app'.sent = app.sent /\ app'.got = app.got /\ app'.end = app.end /\ app'.cut = app.cut
  /\ task'.step = task.step
  /\ task'.state # "STOPPED" => task.state # "STOPPED"
  /\ \/ task'.pc = task.pc
     \/ task'.pc \in {"destruct", "drain"}
     \/ task.pc = "connect" /\ task'.pc = "handshake"

\* Such a step keeps the invariant of the streams.
LEMMA QuietKeeps == ASSUME StreamInv, Quiet PROVE StreamInv'
<1>1. Stages'
  BY StagesStay DEF StreamInv, Quiet
<1>2. Upward'
  BY UpwardStays DEF StreamInv, Quiet
<1>3. UpEnds'
  BY UpEndsStay DEF StreamInv, Quiet
<1>4. Downward'
  BY DownwardStays DEF StreamInv, Quiet
<1>5. Slotted'
  BY SlottedStays DEF StreamInv, Quiet
<1>6. DownEnds'
  BY DownEndsStay DEF StreamInv, Quiet
<1> QED
  BY <1>1, <1>2, <1>3, <1>4, <1>5, <1>6 DEF StreamInv

\* The scheduler resumes the task.
LEMMA ResumeQuiet == ASSUME SessionInv, Resume PROVE Quiet
<1>0. task \in TaskType
  BY Parts
<1>1. /\ task'.state = task.state /\ task'.step = task.step
      /\ task'.pc \in {task.pc, "destruct", "drain"}
  BY <1>0 DEF Resume, TaskType
<1> QED
  BY <1>1 DEF Quiet, Resume

\* A timeout runs out.
LEMMA ExpireQuiet == ASSUME SessionInv, Expire PROVE Quiet
<1>0. task \in TaskType
  BY Parts
<1> DEFINE w == Wake(task)
<1>1. /\ w \in TaskType /\ w.pc = task.pc /\ w.step = task.step
      /\ (w.state = "STOPPED") = (task.state = "STOPPED")
  BY <1>0, WakeGives
<1>2. task' = [w EXCEPT !.expired = TRUE] /\ UNCHANGED <<mode, res, pcb, ring, fd, app, srv>>
  BY DEF Expire
<1> HIDE DEF w
<1>3. task'.state = w.state /\ task'.pc = w.pc /\ task'.step = w.step
  BY <1>1, <1>2 DEF TaskType
<1> QED
  BY <1>1, <1>2, <1>3 DEF Quiet

\* epoll reports an edge.
LEMMA IoPollQuiet == ASSUME SessionInv, IoPoll PROVE Quiet
<1>0. task \in TaskType /\ fd \in FdType
  BY Parts
<1>1. task'.pc = task.pc /\ task'.step = task.step /\ (task'.state = "STOPPED") = (task.state = "STOPPED")
  BY <1>0, WakeGives DEF IoPoll
<1>2. /\ fd'.in = fd.in /\ fd'.out = fd.out /\ fd'.eof = fd.eof /\ fd'.rst = fd.rst
      /\ fd'.shut = fd.shut /\ fd'.state = fd.state /\ UNCHANGED <<mode, res, pcb, ring, app, srv>>
  BY <1>0 DEF IoPoll, FdType
<1> QED
  BY <1>1, <1>2 DEF Quiet

\* The tunnel terminates the session.
LEMMA TerminateQuiet == ASSUME SessionInv, TerminateSession PROVE Quiet
<1>0. task \in TaskType /\ app \in AppType
  BY Parts
<1>1. task'.pc = task.pc /\ task'.step = task.step /\ (task'.state = "STOPPED") = (task.state = "STOPPED")
  BY <1>0, TerminateGives DEF TerminateSession
<1>2. /\ app'.sent = app.sent /\ app'.got = app.got /\ app'.end = app.end /\ app'.cut = app.cut
      /\ UNCHANGED <<mode, res, pcb, ring, fd, srv>>
  BY <1>0 DEF TerminateSession, AppType
<1> QED
  BY <1>1, <1>2 DEF Quiet

\* The connect to the proxy.
LEMMA ConnectQuiet == ASSUME SessionInv, Connect PROVE Quiet
<1>0. task \in TaskType /\ fd \in FdType /\ Scheduled
  BY Parts
<1>1. /\ task.pc = "connect" /\ task.state = "RUNNING" /\ fd.state # "closed"
      /\ UNCHANGED <<mode, res, pcb, ring, app, srv>>
  BY <1>0 DEF Connect, At, Scheduled
<1> DEFINE t == [task EXCEPT !.timeout = 1]
           v == WaitIO(t, "connect", "destruct")
           w == WaitIO(task, "connect", "destruct")
<1>2. fd.state \in {"none", "connecting", "refused", "up"}
  BY <1>0, <1>1 DEF FdType
<1>3. t \in TaskType /\ t.step = task.step
  BY <1>0 DEF TaskType
<1>4. "connect" \in Pcs
  BY DEF Pcs
<1>5. w.step = task.step /\ w.pc \in {"connect", "destruct"}
  BY <1>0, <1>4, WaitIOGives
<1>6. v.step = t.step /\ v.pc \in {"connect", "destruct"}
  <2> HIDE DEF t
  <2> QED
    BY <1>3, <1>4, WaitIOGives
<1>7. \/ fd.state = "none" /\ task' = v /\ fd' = [fd EXCEPT !.state = "connecting"]
      \/ fd.state = "connecting" /\ task' = w /\ fd' = fd
      \/ fd.state = "refused" /\ task' = [task EXCEPT !.pc = "destruct"] /\ fd' = fd
      \/ fd.state = "up" /\ task' = [task EXCEPT !.pc = "handshake", !.timeout = 1] /\ fd' = fd
  BY <1>2 DEF Connect
<1> HIDE DEF t, v, w
<1>8. /\ fd'.in = fd.in /\ fd'.out = fd.out /\ fd'.eof = fd.eof /\ fd'.rst = fd.rst
      /\ fd'.shut = fd.shut
  BY <1>0, <1>7 DEF FdType
<1>9. task'.step = task.step /\ task'.pc \in {"connect", "destruct", "handshake"}
  BY <1>0, <1>3, <1>5, <1>6, <1>7 DEF TaskType
<1> QED
  BY <1>1, <1>8, <1>9 DEF Quiet

\* The last loop.
LEMMA DrainQuiet == ASSUME SessionInv, SpliceDrain PROVE Quiet
<1>0. task \in TaskType /\ Scheduled
  BY Parts
<1> DEFINE w == WaitIO(task, "drain", "destruct")
<1>1. /\ task.pc = "drain" /\ task.state = "RUNNING"
      /\ UNCHANGED <<mode, res, pcb, ring, fd, app, srv>>
  BY <1>0 DEF SpliceDrain, At, Scheduled
<1>2. "drain" \in Pcs
  BY DEF Pcs
<1>3. w.step = task.step /\ w.pc \in {"drain", "destruct"}
  BY <1>0, <1>2, WaitIOGives
<1>4. task' = [task EXCEPT !.pc = "destruct"] \/ task' = w
  BY DEF SpliceDrain
<1> HIDE DEF w
<1>5. task'.step = task.step /\ task'.pc \in {"drain", "destruct"}
  BY <1>0, <1>3, <1>4 DEF TaskType
<1> QED
  BY <1>1, <1>5 DEF Quiet

\* The proxy accepts or refuses.
LEMMA SrvConnectQuiet == ASSUME SessionInv, SrvConnect PROVE Quiet
<1>0. fd \in FdType
  BY Parts
<1>1. PICK s \in {"up", "refused"} : fd' = [fd EXCEPT !.state = s, !.edge = TRUE]
  BY DEF SrvConnect
<1>2. fd.state = "connecting" /\ UNCHANGED <<mode, task, res, pcb, ring, app, srv>>
  BY DEF SrvConnect
<1>3. /\ fd'.in = fd.in /\ fd'.out = fd.out /\ fd'.eof = fd.eof /\ fd'.rst = fd.rst
      /\ fd'.shut = fd.shut
  BY <1>0, <1>1 DEF FdType
<1> QED
  BY <1>2, <1>3 DEF Quiet

\* The lengths are numbers.
LEMMA Lengths ==
  ASSUME SessionInv
  PROVE  /\ UpGot \in Nat /\ UpOut \in Nat /\ DownIn \in Nat /\ DownTodo \in Nat
         /\ Len(pcb.queue) \in Nat /\ Len(pcb.segs) \in Nat /\ Len(app.got) \in Nat
         /\ Len(fd.in) \in Nat /\ Len(fd.out) \in Nat /\ Len(srv.todo) \in Nat
         /\ srv.got \in Seq(Int) /\ fd.out \in Seq(Int) /\ fd.in \in Seq(Int) /\ srv.todo \in Seq(Int)
         /\ pcb.queue \in Seq(Int) /\ pcb.segs \in Seq(Slots) /\ app.got \in Seq(Int)
         /\ app.sent \in Int
<1>1. /\ srv.got \in Seq(Int) /\ fd.out \in Seq(Int) /\ fd.in \in Seq(Int) /\ srv.todo \in Seq(Int)
      /\ pcb.queue \in Seq(Int) /\ pcb.segs \in Seq(Slots) /\ app.got \in Seq(Int)
      /\ app.sent \in Int
  BY Parts DEF SrvType, FdType, PcbType, AppType
<1>2. UpGot \in Nat /\ UpOut \in Nat /\ DownIn \in Nat /\ DownTodo \in Nat
  BY <1>1, PayloadType DEF UpGot, UpOut, DownIn, DownTodo
<1>3. /\ Len(pcb.queue) \in Nat /\ Len(pcb.segs) \in Nat /\ Len(app.got) \in Nat
      /\ Len(fd.in) \in Nat /\ Len(fd.out) \in Nat /\ Len(srv.todo) \in Nat
  BY <1>1, SMTT(60)
<1> QED
  BY <1>1, <1>2, <1>3

\* The sizes of the case.
LEMMA CaseIs ==
  ASSUME SessionInv
  PROVE  /\ mode \in Cases /\ mode.up \in 0 .. NUp /\ mode.down \in 0 .. NDown
         /\ mode.up \in Nat /\ mode.down \in Nat /\ NUp \in Nat /\ NDown \in Nat
<1>1. mode \in Cases
  BY Parts
<1> QED
  BY <1>1, SessionConstants

-----------------------------------------------------------------------------
(* The SOCKS server and the kernel's socket. *)

\* The server reads: the socket's bytes follow those it has.
LEMMA SrvReadStreams == ASSUME SessionInv, StreamInv, SrvRead PROVE StreamInv'
<1>0. /\ fd \in FdType /\ srv \in SrvType
      /\ Stages /\ Upward /\ UpEnds /\ Downward /\ Slotted /\ DownEnds
  BY Parts DEF StreamInv
<1> DEFINE e == fd.edge \/ (fd.nospace /\ fd.state = "up")
           g == srv.got \o fd.out
           z == <<>>
<1>1. /\ UNCHANGED <<mode, task, res, pcb, ring, app>> /\ fd.out # <<>> /\ ~fd.rst
      /\ fd' = [fd EXCEPT !.out = z, !.nospace = FALSE, !.edge = e]
      /\ srv' = [srv EXCEPT !.got = g]
  BY <1>0 DEF SrvRead, FdType, SrvType
<1>2. Payload(z) = <<>> /\ Len(Payload(z)) = 0
  BY StripEmpty DEF Payload
<1>3. Payload(g) = Run(0, UpGot + UpOut) /\ Len(Payload(g)) = UpGot + UpOut
  <2>1. Payload(g) = Payload(srv.got) \o Payload(fd.out)
    BY Lengths, PayloadJoin
  <2>2. Payload(srv.got) = Run(0, UpGot) /\ Payload(fd.out) = Run(0 + UpGot, UpOut)
    BY <1>0, Lengths DEF Upward
  <2>3. Payload(g) = Run(0, UpGot + UpOut)
    <3> DEFINE u == UpGot
               o == UpOut
    <3>1. u \in Nat /\ o \in Nat /\ 0 \in Int
      BY Lengths
    <3> HIDE DEF u, o
    <3>2. Run(0, u) \o Run(0 + u, o) = Run(0, u + o)
      BY <3>1, RunJoin
    <3> QED
      BY <2>1, <2>2, <3>2 DEF u, o
  <2>4. UpGot + UpOut \in Nat
    BY Lengths
  <2>5. Len(Run(0, UpGot + UpOut)) = UpGot + UpOut
    BY <2>4, RunIs
  <2> QED
    BY <2>3, <2>5
<1> HIDE DEF e, g, z
<1>4. /\ fd'.in = fd.in /\ fd'.out = z /\ fd'.eof = fd.eof /\ fd'.rst = fd.rst
      /\ fd'.shut = fd.shut /\ fd'.state = fd.state
      /\ srv'.got = g /\ srv'.end = srv.end /\ srv'.todo = srv.todo
  BY <1>0, <1>1 DEF FdType, SrvType
<1>5. UpGot' = UpGot + UpOut /\ UpOut' = 0
  BY <1>2, <1>3, <1>4 DEF UpGot, UpOut
<1>6. Stages' /\ Downward' /\ Slotted' /\ DownEnds'
  BY <1>0, <1>1, <1>4, StagesStay, DownwardStays, SlottedStays, DownEndsStay
<1>7. Upward'
  <2>1. Payload(z) = Run(UpGot + UpOut, 0)
    BY <1>2 DEF Run
  <2> QED
    <3> DEFINE u == UpGot
               o == UpOut
               q == Len(pcb.queue)
    <3>1. u \in Nat /\ o \in Nat /\ q \in Nat /\ app.sent \in Int
      BY Lengths
    <3>2. u + o + q <= app.sent /\ (task.state # "STOPPED" => u + o + q = app.sent)
      BY <1>0, <1>1 DEF Upward
    <3> HIDE DEF u, o, q
    <3>3. (u + o) + 0 + q <= app.sent /\ (task.state # "STOPPED" => (u + o) + 0 + q = app.sent)
      BY <3>1, <3>2
    <3>4. Payload(srv'.got) = Run(0, u + o) /\ Payload(fd'.out) = Run(u + o, 0)
      BY <1>3, <1>4, <2>1 DEF u, o
    <3>5. UpGot' = u + o /\ UpOut' = 0 /\ Len(pcb'.queue) = q
      BY <1>1, <1>5 DEF u, o, q
    <3> QED
      BY <1>0, <1>1, <3>3, <3>4, <3>5 DEF Upward
<1>8. UpEnds'
  <2>1. srv.end = "open"
    BY <1>0, <1>1 DEF UpEnds
  <2>2. UpGot' + UpOut' = UpGot + UpOut
    BY <1>5, Lengths
  <2> QED
    BY <1>0, <1>1, <1>4, <2>1, <2>2 DEF UpEnds
<1> QED
  BY <1>6, <1>7, <1>8 DEF StreamInv

\* The server finds the end of the stream.
LEMMA SrvEofStreams == ASSUME SessionInv, StreamInv, SrvEof PROVE StreamInv'
<1>0. /\ srv \in SrvType
      /\ Stages /\ Upward /\ UpEnds /\ Downward /\ Slotted /\ DownEnds
  BY Parts DEF StreamInv
<1>1. /\ UNCHANGED <<mode, task, res, pcb, ring, fd, app>>
      /\ fd.out = <<>> /\ (fd.shut \/ fd.state = "closed")
  BY DEF SrvEof
<1>2. srv'.got = srv.got /\ srv'.todo = srv.todo
  BY <1>0 DEF SrvEof, SrvType
<1>3. Stages' /\ Upward' /\ Downward' /\ Slotted' /\ DownEnds'
  BY <1>0, <1>1, <1>2, StagesStay, UpwardStays, DownwardStays, SlottedStays, DownEndsStay
<1>4. UpEnds'
  BY <1>0, <1>1, <1>2 DEF UpEnds, UpGot, UpOut
<1> QED
  BY <1>3, <1>4 DEF StreamInv

\* The server closes its direction.
LEMMA SrvCloseStreams == ASSUME SessionInv, StreamInv, SrvClose PROVE StreamInv'
<1>0. /\ fd \in FdType
      /\ Stages /\ Upward /\ UpEnds /\ Downward /\ Slotted /\ DownEnds
  BY Parts DEF StreamInv
<1>1. UNCHANGED <<mode, task, res, pcb, ring, app, srv>>
  BY DEF SrvClose
<1>2. /\ fd'.in = fd.in /\ fd'.out = fd.out /\ fd'.eof /\ fd'.rst = fd.rst
      /\ fd'.shut = fd.shut /\ fd'.state = fd.state
  BY <1>0 DEF SrvClose, FdType
<1>3. Stages' /\ Upward' /\ UpEnds' /\ Downward' /\ Slotted' /\ DownEnds'
  BY <1>0, <1>1, <1>2, StagesStay, UpwardStays, UpEndsStay, DownwardStays, SlottedStays, DownEndsStay
<1> QED
  BY <1>3 DEF StreamInv

\* A reset: what was in the socket is lost in both directions.
LEMMA ResetStreams == ASSUME SessionInv, StreamInv, Reset PROVE StreamInv'
<1>0. /\ fd \in FdType /\ srv \in SrvType
      /\ Stages /\ Upward /\ UpEnds /\ Downward /\ Slotted /\ DownEnds
  BY Parts DEF StreamInv
<1> DEFINE z == <<>>
<1>1. /\ UNCHANGED <<mode, task, res, pcb, ring, app>>
      /\ fd' = [fd EXCEPT !.rst = TRUE, !.in = z, !.out = z, !.edge = TRUE]
  BY DEF Reset
<1>2. srv'.got = srv.got /\ srv'.todo = srv.todo
  BY <1>0 DEF Reset, SrvType
<1>3. Payload(z) = <<>> /\ Len(Payload(z)) = 0 /\ Len(z) = 0 /\ z = <<>>
  BY StripEmpty DEF Payload
<1> HIDE DEF z
<1>4. /\ fd'.in = z /\ fd'.out = z /\ fd'.eof = fd.eof /\ fd'.rst
      /\ fd'.shut = fd.shut /\ fd'.state = fd.state
  BY <1>0, <1>1 DEF FdType
<1>5. UpGot' = UpGot /\ UpOut' = 0 /\ DownIn' = 0 /\ DownTodo' = DownTodo
  BY <1>2, <1>3, <1>4 DEF UpGot, UpOut, DownIn, DownTodo
<1>6. \A a \in Int : Payload(z) = Run(a, 0)
  BY <1>3 DEF Run
<1>7. Stages'
  BY <1>0, <1>1, <1>3, <1>4, SizeFacts DEF Stages
<1>8. Upward'
  BY <1>0, <1>1, <1>2, <1>4, <1>5, <1>6, Lengths, SMTT(60) DEF Upward
<1>9. UpEnds'
  BY <1>0, <1>1, <1>3, <1>4 DEF UpEnds
<1>10. Slotted' /\ DownEnds'
  BY <1>0, <1>1, <1>2, <1>4, SlottedStays, DownEndsStay
<1>11. Downward'
  <2>1. Sending' = Sending
    BY <1>1 DEF Sending
  <2> DEFINE d == mode.down
             l == DownTodo
             k == DownIn
             g == Len(app.got)
             s == Len(pcb.segs)
  <2>0. /\ d \in Nat /\ l \in Nat /\ k \in Nat /\ g \in Nat /\ s \in Nat /\ k + l <= d
        /\ (app.cut # "hole" => g + s + k + l <= d)
    BY <1>0, Lengths, CaseIs DEF Downward
  <2>2. d - l - 0 \in Int /\ 0 + l <= d
    <3> HIDE DEF d, l, k, g, s
    <3> QED
      BY <2>0
  <2>3. Payload(z) = Run(mode.down - DownTodo - 0, 0)
    BY <1>6, <2>2
  <2>4. app.cut # "hole" => g + s + 0 + l <= d
    <3> HIDE DEF d, l, k, g, s
    <3> QED
      BY <2>0
  <2> QED
    BY <1>0, <1>1, <1>2, <1>4, <1>5, <2>1, <2>2, <2>3, <2>4 DEF Downward
<1> QED
  BY <1>7, <1>8, <1>9, <1>10, <1>11 DEF StreamInv

\* The server answers or sends a byte: it goes from what is to come to what the
\* socket holds.
LEMMA SrvSendStreams == ASSUME SessionInv, StreamInv, SrvSend PROVE StreamInv'
<1>0. /\ fd \in FdType /\ srv \in SrvType
      /\ Stages /\ Upward /\ UpEnds /\ Downward /\ Slotted /\ DownEnds
  BY Parts DEF StreamInv
<1> DEFINE msg == Head(srv.todo)
           tl == Tail(srv.todo)
<1>1. /\ UNCHANGED <<mode, task, res, pcb, ring, app>> /\ srv.todo # <<>>
      /\ ~fd.eof /\ ~fd.rst /\ Len(fd.in) < FdRcv
      /\ srv' = [srv EXCEPT !.todo = tl]
  BY DEF SrvSend
<1>2. msg \in Int /\ tl \in Seq(Int) /\ srv.todo \in Seq(Int)
  BY <1>0, <1>1 DEF SrvType
<1>3. PICK m : /\ fd' = [fd EXCEPT !.in = Append(@, m), !.edge = TRUE]
               /\ m = msg \/ (msg = REPLY /\ m = REFUSED)
  BY DEF SrvSend
<1>4. m \in Int /\ (m \in Messages <=> msg \in Messages) /\ (msg \notin Messages => m = msg)
  BY <1>2, <1>3 DEF Messages, REFUSED, REPLY
<1> DEFINE in == Append(fd.in, m)
<1>5. fd.in \in Seq(Int) /\ in \in Seq(Int) /\ Len(in) = Len(fd.in) + 1 /\ Len(fd.in) \in Nat
      /\ (\A i \in 1 .. Len(fd.in) : in[i] = fd.in[i]) /\ in[Len(fd.in) + 1] = m
  BY <1>4, Lengths, AppendProperties, SMTT(60)
<1>6. /\ Len(tl) \in Nat /\ Len(srv.todo) = Len(tl) + 1 /\ srv.todo[1] = msg
      /\ \A i \in 1 .. Len(tl) : tl[i] = srv.todo[i + 1]
  BY <1>1, <1>2
<1>7. Payload(srv.todo) = IF msg \in Messages THEN Payload(tl) ELSE <<msg>> \o Payload(tl)
  BY <1>1, <1>2, PayloadTail
<1>8. Payload(in) = IF msg \in Messages THEN Payload(fd.in) ELSE Append(Payload(fd.in), msg)
  BY <1>4, <1>5, PayloadAppend
<1> HIDE DEF msg, tl, in
<1>9. /\ fd'.in = in /\ fd'.out = fd.out /\ fd'.eof = fd.eof /\ fd'.rst = fd.rst
      /\ fd'.shut = fd.shut /\ fd'.state = fd.state
  <2>1. fd' = [fd EXCEPT !.in = in, !.edge = TRUE]
    BY <1>0, <1>3 DEF in, FdType
  <2> QED
    BY <1>0, <2>1 DEF FdType
<1>10. srv'.got = srv.got /\ srv'.end = srv.end /\ srv'.todo = tl
  BY <1>0, <1>1 DEF SrvType
<1>11. Upward' /\ UpEnds' /\ Slotted'
  BY <1>0, <1>1, <1>9, <1>10, UpwardStays, UpEndsStay, SlottedStays
<1> DEFINE d == mode.down
           l == DownTodo
           k == DownIn
           l2 == Len(Payload(tl))
           k2 == Len(Payload(in))
           g == Len(app.got)
           s == Len(pcb.segs)
<1>12. /\ d \in Nat /\ l \in Nat /\ k \in Nat /\ g \in Nat /\ s \in Nat /\ k + l <= d
       /\ Payload(srv.todo) = Run(d - l, l) /\ Payload(fd.in) = Run(d - l - k, k)
  BY <1>0, Lengths, CaseIs DEF Downward
<1>13. /\ l2 \in Nat /\ k2 \in Nat /\ k2 + l2 = k + l
       /\ Payload(tl) = Run(d - l2, l2) /\ Payload(in) = Run(d - l2 - k2, k2)
  <2>1. CASE msg \in Messages
    <3>1. Payload(tl) = Payload(srv.todo) /\ Payload(in) = Payload(fd.in)
      BY <1>7, <1>8, <2>1
    <3>2. l2 = l /\ k2 = k
      BY <3>1 DEF DownTodo, DownIn
    <3> QED
      BY <1>12, <3>1, <3>2
  <2>2. CASE msg \notin Messages
    <3> DEFINE t == Payload(tl)
    <3>1. t \in Seq(Int) /\ Len(t) \in Nat
      BY <1>2, PayloadType
    <3>2. Run(d - l, l) = <<msg>> \o t
      BY <1>7, <1>12, <2>2
    <3> DEFINE a == d - l
    <3>3. a \in Int
      BY <1>12
    <3> HIDE DEF t, a, l, d
    <3>4. Run(a, l) = <<msg>> \o t
      BY <3>2 DEF a
    <3>5. l = Len(t) + 1 /\ msg = a + 1 /\ t = Run(a + 1, Len(t))
      <4> DEFINE o == <<msg>>
      <4>1. o \in Seq(Int) /\ Len(o) = 1 /\ o[1] = msg
        BY <1>2
      <4>2. l \in Nat
        BY <1>12
      <4>3. t \in Seq(Int)
        BY <3>1
      <4>4. Run(a, l) = o \o t
        BY <3>4
      <4> HIDE DEF o
      <4>5. l = Len(t) + 1 /\ o[1] = a + 1 /\ t = Run(a + 1, Len(t))
        BY <3>3, <4>1, <4>2, <4>3, <4>4, RunFirst
      <4> QED
        BY <4>1, <4>5
    <3>6. Payload(in) = Append(Run(d - l - k, k), msg)
      BY <1>8, <1>12, <2>2
    <3> DEFINE b == d - l - k
    <3>7. b \in Int /\ b + k + 1 = msg
      <4> HIDE DEF k
      <4> QED
        BY <1>12, <3>3, <3>5 DEF a
    <3> HIDE DEF b, k
    <3>8. Append(Run(b, k), b + k + 1) = Run(b, k + 1)
      BY <1>12, <3>7, RunLast
    <3>9. Payload(in) = Run(b, k + 1)
      BY <3>6, <3>7, <3>8 DEF b
    <3>10. k2 = k + 1
      <4>1. k + 1 \in Nat
        BY <1>12
      <4> QED
        BY <3>7, <3>9, <4>1, RunIs
    <3>11. l2 = l - 1 /\ l2 \in Nat
      BY <3>1, <3>5 DEF t
    <3> HIDE DEF l2, k2
    <3>12. b = d - l2 - k2 /\ a + 1 = d - l2 /\ k2 + l2 = k + l /\ k2 \in Nat
      BY <1>12, <3>10, <3>11 DEF a, b
    <3>13. t = Run(d - l2, l2) /\ Payload(in) = Run(d - l2 - k2, k2)
      BY <3>5, <3>9, <3>10, <3>11, <3>12 DEF t, l2
    <3> QED
      BY <3>11, <3>12, <3>13 DEF t
  <2> QED
    BY <2>1, <2>2
<1>14. DownTodo' = l2 /\ DownIn' = k2
  BY <1>9, <1>10 DEF DownTodo, DownIn
<1>15. Downward'
  <2>1. Sending' = Sending
    BY <1>1 DEF Sending
  <2>2. /\ ring.data \in [Slots -> 0 .. NDown]
        /\ app.cut # "hole" => /\ app.got = Run(0, g) /\ Sending = Run(g, s)
                               /\ g + s + k + l <= d
        /\ task.state # "STOPPED" /\ ~fd.rst /\ app.cut = "no" /\ pcb.ref => g + s + k + l = d
    BY <1>0 DEF Downward
  <2> HIDE DEF d, l, k, l2, k2, g, s
  <2>3. k2 + l2 <= d /\ g + s + k2 + l2 = g + s + k + l
    <3>1. /\ d \in Nat /\ l \in Nat /\ k \in Nat /\ g \in Nat /\ s \in Nat /\ k + l <= d
          /\ l2 \in Nat /\ k2 \in Nat /\ k2 + l2 = k + l
      BY <1>12, <1>13
    <3> QED
      BY <3>1
  <2>4. /\ Payload(srv'.todo) = Run(mode'.down - l2, l2)
        /\ Payload(fd'.in) = Run(mode'.down - l2 - k2, k2)
        /\ k2 + l2 <= mode'.down
    BY <1>1, <1>9, <1>10, <1>13, <2>3 DEF d
  <2>5. /\ app.cut # "hole" => g + s + k2 + l2 <= d
        /\ task.state # "STOPPED" /\ ~fd.rst /\ app.cut = "no" /\ pcb.ref => g + s + k2 + l2 = d
    BY <2>2, <2>3
  <2>6. Len(app'.got) = g /\ Len(pcb'.segs) = s /\ mode'.down = d
    BY <1>1 DEF g, s, d
  <2> QED
    BY <1>1, <1>9, <1>14, <2>1, <2>2, <2>4, <2>5, <2>6 DEF Downward
<1>16. DownEnds'
  BY <1>0, <1>1, <1>9 DEF DownEnds
<1>17. Stages'
  <2> DEFINE p == Pending(mode, task.step)
             n == Len(fd.in)
  <2>1. task.pc \in {"connect", "handshake", "splice", "splice_b"} =>
          /\ \A i \in 1 .. n : fd.in[i] \in Messages <=> i <= p
          /\ \A i \in 1 .. Len(srv.todo) : srv.todo[i] \in Messages <=> n + i <= p
    BY <1>0, <1>1 DEF Stages
  <2>2. Len(in) <= FdRcv
    BY <1>1, <1>5, SizeFacts
  <2>3. ASSUME task.pc \in {"connect", "handshake", "splice", "splice_b"}
        PROVE  /\ \A i \in 1 .. Len(in) : in[i] \in Messages <=> i <= p
               /\ \A i \in 1 .. Len(tl) : tl[i] \in Messages <=> Len(in) + i <= p
    <3> HIDE DEF p, n
    <3>1. 1 \in 1 .. Len(srv.todo)
      BY <1>6
    <3>2. m \in Messages <=> n + 1 <= p
      BY <1>4, <1>6, <2>1, <2>3, <3>1
    <3>3. ASSUME NEW i \in 1 .. Len(in) PROVE in[i] \in Messages <=> i <= p
      <4>1. CASE i = n + 1
        BY <1>5, <3>2, <4>1 DEF n
      <4>2. CASE i # n + 1
        <5>1. i \in 1 .. n
          BY <1>5, <4>2 DEF n
        <5> QED
          BY <1>5, <2>1, <2>3, <5>1 DEF n
      <4> QED
        BY <4>1, <4>2
    <3>4. ASSUME NEW i \in 1 .. Len(tl) PROVE tl[i] \in Messages <=> Len(in) + i <= p
      <4>1. i + 1 \in 1 .. Len(srv.todo) /\ n + (i + 1) = Len(in) + i
        <5>1. n \in Nat /\ Len(in) = n + 1
          BY <1>5 DEF n
        <5>2. Len(tl) \in Nat /\ Len(srv.todo) = Len(tl) + 1
          BY <1>6
        <5> QED
          BY <5>1, <5>2
      <4>2. srv.todo[i + 1] \in Messages <=> n + (i + 1) <= p
        BY <2>1, <2>3, <4>1
      <4> QED
        BY <1>6, <4>1, <4>2
    <3> QED
      BY <3>3, <3>4
  <2>4. task.step' = task.step /\ Pending(mode', task'.step) = p
    BY <1>1
  <2> HIDE DEF p, n
  <2> QED
    BY <1>0, <1>1, <1>9, <1>10, <2>2, <2>3, <2>4 DEF Stages
<1> QED
  BY <1>11, <1>15, <1>16, <1>17 DEF StreamInv

-----------------------------------------------------------------------------
(* The session. *)

\* What a step of the handshake does to the task and to the socket.
LEMMA HandshakeDoes ==
  ASSUME SessionInv, HandshakeStep
  PROVE  LET msg == Handshake(mode)[task.step]
         IN  /\ task.pc = "handshake" /\ task.state = "RUNNING" /\ fd.state = "up"
             /\ UNCHANGED <<mode, res, pcb, ring, app, srv>>
             /\ \/ /\ task'.step = task.step /\ task'.pc \in {"handshake", "destruct"}
                   /\ fd' = fd \/ fd' = [fd EXCEPT !.nospace = TRUE]
                \/ /\ msg \in Written /\ fd' = [fd EXCEPT !.out = Append(@, msg)] /\ ~fd.rst
                   /\ task'.step = task.step + 1
                   /\ IF task.step = Len(Handshake(mode)) THEN task'.pc \in {"splice", "destruct"}
                      ELSE task'.pc = "handshake"
                \/ /\ msg \notin Written /\ fd' = [fd EXCEPT !.in = Tail(@)] /\ ~fd.rst /\ fd.in # <<>>
                   /\ \/ task'.step = task.step /\ task'.pc = "destruct"
                      \/ /\ task'.step = task.step + 1
                         /\ IF task.step = Len(Handshake(mode)) THEN task'.pc \in {"splice", "destruct"}
                            ELSE task'.pc = "handshake"
<1>0. task \in TaskType /\ fd \in FdType /\ pcb \in PcbType /\ Scheduled
  BY Parts
<1> DEFINE msg == Handshake(mode)[task.step]
           last == task.step = Len(Handshake(mode))
           next == [task EXCEPT !.step = @ + 1,
                                !.pc = IF ~last THEN @
                                       ELSE IF pcb.ref THEN "splice" ELSE "destruct"]
           failed == [task EXCEPT !.pc = "destruct"]
           again == WaitIO(task, "handshake", "destruct")
<1>1. /\ task.cpu /\ task.pc = "handshake" /\ task.state = "RUNNING" /\ fd.state = "up"
      /\ UNCHANGED <<mode, res, pcb, ring, app, srv>>
  BY <1>0 DEF HandshakeStep, At, Scheduled
<1>2. /\ next.step = task.step + 1
      /\ IF last THEN next.pc \in {"splice", "destruct"} ELSE next.pc = "handshake"
  <2> DEFINE q == IF ~last THEN task.pc ELSE IF pcb.ref THEN "splice" ELSE "destruct"
  <2>1. IF last THEN q \in {"splice", "destruct"} ELSE q = "handshake"
    BY <1>1
  <2>2. next = [task EXCEPT !.step = task.step + 1, !.pc = q]
    BY <1>0 DEF TaskType
  <2> HIDE DEF q, next, last
  <2> QED
    BY <1>0, <2>1, <2>2 DEF TaskType
<1>3. failed.step = task.step /\ failed.pc = "destruct"
  BY <1>0 DEF TaskType
<1>4. again.step = task.step /\ again.pc \in {"handshake", "destruct"}
  <2>1. "handshake" \in Pcs
    BY DEF Pcs
  <2> QED
    BY <1>0, <2>1, WaitIOGives
<1>5. \/ /\ msg \in Written
         /\ \/ task' = failed /\ fd' = fd
            \/ task' = again /\ fd' = [fd EXCEPT !.nospace = TRUE]
            \/ task' = next /\ fd' = [fd EXCEPT !.out = Append(@, msg)] /\ ~fd.rst
      \/ /\ msg \notin Written
         /\ \/ task' = failed /\ fd' = fd
            \/ task' = again /\ fd' = fd
            \/ task' \in {next, failed} /\ fd' = [fd EXCEPT !.in = Tail(@)] /\ fd.in # <<>> /\ ~fd.rst
  <2> HIDE DEF next, failed, again, msg
  <2> QED
    BY <1>0 DEF HandshakeStep, next, failed, again, msg, last, FdType
<1> HIDE DEF next, failed, again, msg
<1>6. CASE task' = failed /\ fd' = fd
  BY <1>1, <1>3, <1>6
<1>7. CASE task' = again /\ (fd' = fd \/ fd' = [fd EXCEPT !.nospace = TRUE])
  BY <1>1, <1>4, <1>7
<1>8. CASE msg \in Written /\ task' = next /\ fd' = [fd EXCEPT !.out = Append(@, msg)] /\ ~fd.rst
  BY <1>1, <1>2, <1>8 DEF msg
<1>9. CASE /\ msg \notin Written /\ task' \in {next, failed} /\ fd' = [fd EXCEPT !.in = Tail(@)]
           /\ fd.in # <<>> /\ ~fd.rst
  BY <1>1, <1>2, <1>3, <1>9 DEF msg
<1> QED
  BY <1>5, <1>6, <1>7, <1>8, <1>9

\* The handshake moves messages only.
LEMMA HandshakeStreams == ASSUME SessionInv, StreamInv, HandshakeStep PROVE StreamInv'
<1>0. /\ fd \in FdType /\ task \in TaskType
      /\ Stages /\ Upward /\ UpEnds /\ Downward /\ Slotted /\ DownEnds
  BY Parts DEF StreamInv
<1> DEFINE h == Handshake(mode)
           msg == h[task.step]
<1>1. /\ task.pc = "handshake" /\ task.state = "RUNNING" /\ fd.state = "up"
      /\ UNCHANGED <<mode, res, pcb, ring, app, srv>>
  BY HandshakeDoes
<1>2. /\ mode \in Cases /\ task.step \in 1 .. Len(h) /\ Len(h) \in Nat /\ msg \in Messages
      /\ task.step + 1 \in 1 .. Len(h) + 1
  <2>1. mode \in Cases
    BY Parts
  <2>2. h \in Seq(Messages) /\ Len(h) \in Nat
    BY <2>1, HandshakeIs
  <2>3. task.step \in 1 .. Len(h)
    BY <1>0, <1>1, <2>2 DEF Stages
  <2> HIDE DEF h
  <2> QED
    BY <2>1, <2>2, <2>3, ElementOfSeq
<1> DEFINE p == Pending(mode, task.step)
           p2 == Pending(mode, task.step + 1)
<1>3. /\ p \in Nat /\ p2 \in Nat
      /\ msg \in Written => p = p2
      /\ msg \notin Written => p = p2 + 1
  BY <1>2, PendingStep
<1>4. ~fd.rst =>
        /\ \A i \in 1 .. Len(fd.in) : fd.in[i] \in Messages <=> i <= p
        /\ \A i \in 1 .. Len(srv.todo) : srv.todo[i] \in Messages <=> Len(fd.in) + i <= p
  BY <1>0, <1>1 DEF Stages
<1>5. res.f # -1 /\ ~fd.shut
  BY <1>0, <1>1 DEF UpEnds
<1>6. fd.in \in Seq(Int) /\ fd.out \in Seq(Int) /\ Len(fd.in) \in Nat /\ Len(srv.todo) \in Nat
  BY Lengths
<1>7. /\ fd.rst => fd.in = <<>>
      /\ Len(fd.in) <= FdRcv
  BY <1>0 DEF Stages
<1>8. CASE /\ task'.step = task.step /\ task'.pc \in {"handshake", "destruct"}
           /\ fd' = fd \/ fd' = [fd EXCEPT !.nospace = TRUE]
  <2>1. /\ fd'.in = fd.in /\ fd'.out = fd.out /\ fd'.eof = fd.eof /\ fd'.rst = fd.rst
        /\ fd'.shut = fd.shut /\ fd'.state = fd.state
    BY <1>0, <1>8 DEF FdType
  <2>2. Quiet
    BY <1>1, <1>8, <2>1 DEF Quiet
  <2> QED
    BY <2>2, QuietKeeps
<1>9. CASE /\ msg \in Written /\ fd' = [fd EXCEPT !.out = Append(@, msg)] /\ ~fd.rst
           /\ task'.step = task.step + 1
           /\ IF task.step = Len(h) THEN task'.pc \in {"splice", "destruct"}
              ELSE task'.pc = "handshake"
  <2> DEFINE o == Append(fd.out, msg)
  <2>1. Payload(o) = Payload(fd.out)
    <3>1. msg \in Int
      BY <1>2, MessagesBelow
    <3> HIDE DEF msg
    <3> QED
      BY <1>2, <1>6, <3>1, PayloadAppend
  <2>2. fd' = [fd EXCEPT !.out = o]
    BY <1>9
  <2> HIDE DEF o
  <2>3. /\ fd'.in = fd.in /\ fd'.out = o /\ fd'.eof = fd.eof /\ fd'.rst = fd.rst
        /\ fd'.shut = fd.shut /\ fd'.state = fd.state
    BY <1>0, <2>2 DEF FdType
  <2>4. UpGot' = UpGot /\ UpOut' = UpOut
    BY <1>1, <2>1, <2>3 DEF UpGot, UpOut
  <2>5. Upward'
    BY <1>0, <1>1, <2>1, <2>3, <2>4 DEF Upward
  <2>6. srv.end = "open"
    BY <1>0, <1>1, <1>5, <1>9 DEF UpEnds
  <2>7. UpEnds'
    BY <1>0, <1>1, <1>5, <2>3, <2>6 DEF UpEnds
  <2>8. Downward' /\ Slotted' /\ DownEnds'
    BY <1>0, <1>1, <2>3, DownwardStays, SlottedStays, DownEndsStay
  <2>9. Stages'
    <3>1. Pending(mode', task'.step) = p /\ Handshake(mode') = h
      BY <1>1, <1>3, <1>9
    <3>2. task.step # Len(h) => task.step + 1 <= Len(h)
      BY <1>2
    <3> HIDE DEF h, p, p2, msg
    <3> QED
      BY <1>1, <1>2, <1>4, <1>7, <1>9, <2>3, <3>1, <3>2 DEF Stages
  <2> QED
    BY <2>5, <2>7, <2>8, <2>9 DEF StreamInv
<1>10. CASE /\ msg \notin Written /\ fd' = [fd EXCEPT !.in = Tail(@)] /\ ~fd.rst /\ fd.in # <<>>
            /\ \/ task'.step = task.step /\ task'.pc = "destruct"
               \/ /\ task'.step = task.step + 1
                  /\ IF task.step = Len(h) THEN task'.pc \in {"splice", "destruct"}
                     ELSE task'.pc = "handshake"
  <2> DEFINE tl == Tail(fd.in)
             n == Len(fd.in)
  <2>1. /\ tl \in Seq(Int) /\ Len(tl) = n - 1 /\ n >= 1 /\ n \in Nat /\ Head(fd.in) = fd.in[1]
        /\ \A i \in 1 .. n - 1 : tl[i] = fd.in[i + 1]
    BY <1>6, <1>10
  <2>2. Head(fd.in) \in Messages
    <3>1. 1 \in 1 .. Len(fd.in) /\ 1 <= p
      BY <1>3, <1>10, <2>1
    <3> QED
      BY <1>4, <1>10, <2>1, <3>1
  <2>3. Payload(tl) = Payload(fd.in)
    BY <1>6, <1>10, <2>2, PayloadTail
  <2>4. fd' = [fd EXCEPT !.in = tl]
    BY <1>10
  <2> HIDE DEF tl
  <2>5. /\ fd'.in = tl /\ fd'.out = fd.out /\ fd'.eof = fd.eof /\ fd'.rst = fd.rst
        /\ fd'.shut = fd.shut /\ fd'.state = fd.state
    BY <1>0, <2>4 DEF FdType
  <2>7. Upward' /\ UpEnds' /\ Slotted' /\ DownEnds'
    BY <1>0, <1>1, <2>5, UpwardStays, UpEndsStay, SlottedStays, DownEndsStay
  <2>8. DownIn' = DownIn /\ DownTodo' = DownTodo /\ Sending' = Sending
    BY <1>1, <2>3, <2>5 DEF DownIn, DownTodo, Sending
  <2>9. Downward'
    BY <1>0, <1>1, <2>3, <2>5, <2>8 DEF Downward
  <2>10. Len(tl) <= FdRcv
    BY <1>7, <2>1, SizeFacts
  <2>11. CASE task'.step = task.step /\ task'.pc = "destruct"
    <3>1. Stages'
      BY <1>1, <1>2, <1>10, <2>5, <2>10, <2>11, SMTT(60) DEF Stages
    <3> QED
      BY <2>7, <2>9, <3>1 DEF StreamInv
  <2>12. CASE /\ task'.step = task.step + 1
              /\ IF task.step = Len(h) THEN task'.pc \in {"splice", "destruct"}
                 ELSE task'.pc = "handshake"
    <3>1. Pending(mode', task'.step) = p2 /\ Handshake(mode') = h
      BY <1>1, <2>12
    <3>2. task.step # Len(h) => task.step + 1 <= Len(h)
      BY <1>2
    <3>3. p = p2 + 1 /\ p2 \in Nat
      BY <1>3, <1>10
    <3> HIDE DEF h, p, p2, msg
    <3>4. \A i \in 1 .. Len(tl) : tl[i] \in Messages <=> i <= p2
      <4> SUFFICES ASSUME NEW i \in 1 .. Len(tl) PROVE tl[i] \in Messages <=> i <= p2
        OBVIOUS
      <4>1. i + 1 \in 1 .. n /\ i \in 1 .. n - 1 /\ (i + 1 <= p <=> i <= p2)
        BY <2>1, <3>3
      <4> QED
        BY <1>4, <1>10, <2>1, <4>1
    <3>5. \A i \in 1 .. Len(srv.todo) : srv.todo[i] \in Messages <=> Len(tl) + i <= p2
      <4> SUFFICES ASSUME NEW i \in 1 .. Len(srv.todo)
                   PROVE srv.todo[i] \in Messages <=> Len(tl) + i <= p2
        OBVIOUS
      <4>1. n + i <= p <=> Len(tl) + i <= p2
        <5>1. Len(tl) = n - 1 /\ n \in Nat /\ i \in Int
          BY <1>6, <2>1
        <5> HIDE DEF n
        <5> QED
          BY <3>3, <5>1
      <4> QED
        BY <1>4, <1>10, <4>1
    <3>6. Stages'
      BY <1>1, <1>2, <1>10, <2>5, <2>10, <2>12, <3>1, <3>2, <3>4, <3>5 DEF Stages
    <3> QED
      BY <2>7, <2>9, <3>6 DEF StreamInv
  <2> QED
    BY <1>10, <2>11, <2>12
<1> QED
  BY <1>8, <1>9, <1>10, HandshakeDoes

\* tcp_splice_f takes the front of the queue to the end of the socket.
LEMMA SpliceFMoves ==
  ASSUME SessionInv, StreamInv, tcp_splice_f, res.f >= 0, task.pc = "splice",
         task.state = "RUNNING", fd.state = "up", UNCHANGED <<mode, app, srv>>,
         task'.pc = "splice_b", task'.state = "RUNNING"
  PROVE  /\ Upward' /\ UpEnds' /\ res'.b = res.b
         /\ fd'.in = fd.in /\ fd'.eof = fd.eof /\ fd'.rst = fd.rst
         /\ pcb'.ref = pcb.ref /\ pcb'.lw = pcb.lw /\ pcb'.segs = pcb.segs
<1>0. /\ res \in ResType /\ fd \in FdType /\ pcb \in PcbType /\ Upward /\ UpEnds
      /\ Len(fd.out) <= FdSnd
  BY Parts DEF StreamInv, Scheduled
<1> DEFINE want == Least(Len(pcb.queue), Iov)
           n == Least(want, FdSnd - Len(fd.out))
           u == UpGot
           o == UpOut
           q == Len(pcb.queue)
<1>1. /\ u \in Nat /\ o \in Nat /\ q \in Nat /\ app.sent \in Int /\ pcb.queue \in Seq(Int)
      /\ fd.out \in Seq(Int) /\ Len(fd.out) \in Nat
      /\ (pcb.queue = <<>>) = (q = 0)
  BY Lengths
<1>2. n \in 0 .. q
  <2> DEFINE m == Len(fd.out)
  <2>1. q \in Nat /\ m \in Nat /\ m <= FdSnd /\ FdSnd \in Nat /\ Iov \in Nat \ {0}
        /\ want = Least(q, Iov) /\ n = Least(want, FdSnd - m)
    BY <1>0, <1>1, SizeFacts
  <2> HIDE DEF q, m, n, want
  <2> QED
    BY <2>1 DEF Least
<1>3. \/ /\ pcb.queue = <<>> /\ pcb.eof
         /\ res' = [res EXCEPT !.f = -1] /\ fd' = [fd EXCEPT !.shut = TRUE] /\ pcb' = pcb
      \/ /\ \E f \in {0, -1} : res' = [res EXCEPT !.f = f]
         /\ fd' = fd \/ fd' = [fd EXCEPT !.nospace = TRUE]
         /\ pcb' = pcb
      \/ /\ ~fd.rst
         /\ res' = [res EXCEPT !.f = 1]
         /\ fd' = [fd EXCEPT !.out = @ \o Take(pcb.queue, n), !.nospace = n < want]
         /\ pcb' = tcp_recved([pcb EXCEPT !.queue = Drop(@, n)], n)
  <2> HIDE DEF n, want
  <2> QED
    BY <1>0 DEF tcp_splice_f, n, want, FdType, PcbType
<1>4. ~fd.shut /\ (~fd.rst => srv.end = "open")
  BY <1>0 DEF UpEnds
<1>5. u + o + q <= app.sent /\ (~fd.rst => u + o + q = app.sent)
      /\ pcb.queue = Run(app.sent - q, q) /\ Payload(fd.out) = Run(u, o) /\ pcb.wnd \in 0 .. TcpWnd
  BY <1>0 DEF Upward
<1> HIDE DEF n, want
<1>6. CASE /\ pcb.queue = <<>> /\ pcb.eof
           /\ res' = [res EXCEPT !.f = -1] /\ fd' = [fd EXCEPT !.shut = TRUE] /\ pcb' = pcb
  <2>1. res'.f = -1 /\ res'.b = res.b
    BY <1>0, <1>6 DEF ResType
  <2>2. /\ fd'.in = fd.in /\ fd'.out = fd.out /\ fd'.eof = fd.eof /\ fd'.rst = fd.rst
        /\ fd'.shut /\ fd'.state = fd.state
    BY <1>0, <1>6 DEF FdType
  <2>3. Upward'
    BY <1>0, <1>6, <2>2, UpwardStays
  <2>4. ~fd.rst => u + o = app.sent
    <3>1. q = 0
      BY <1>1, <1>6
    <3> HIDE DEF u, o, q
    <3> QED
      BY <1>1, <1>5, <3>1
  <2>5. UpGot' = u /\ UpOut' = o
    BY <2>2 DEF UpGot, UpOut
  <2>6. UpEnds'
    BY <1>0, <1>6, <2>1, <2>2, <2>4, <2>5 DEF UpEnds
  <2> QED
    BY <1>6, <2>1, <2>2, <2>3, <2>6
<1>7. CASE /\ \E f \in {0, -1} : res' = [res EXCEPT !.f = f]
           /\ fd' = fd \/ fd' = [fd EXCEPT !.nospace = TRUE]
           /\ pcb' = pcb
  <2>1. res'.b = res.b
    BY <1>0, <1>7 DEF ResType
  <2>2. /\ fd'.in = fd.in /\ fd'.out = fd.out /\ fd'.eof = fd.eof /\ fd'.rst = fd.rst
        /\ fd'.shut = fd.shut /\ fd'.state = fd.state
    BY <1>0, <1>7 DEF FdType
  <2>3. Upward'
    BY <1>0, <1>7, <2>2, UpwardStays
  <2>4. UpEnds'
    BY <1>0, <1>4, <1>7, <2>2 DEF UpEnds
  <2> QED
    BY <1>7, <2>1, <2>2, <2>3, <2>4
<1>8. CASE /\ ~fd.rst
           /\ res' = [res EXCEPT !.f = 1]
           /\ fd' = [fd EXCEPT !.out = @ \o Take(pcb.queue, n), !.nospace = n < want]
           /\ pcb' = tcp_recved([pcb EXCEPT !.queue = Drop(@, n)], n)
  <2> DEFINE t == Take(pcb.queue, n)
             d == Drop(pcb.queue, n)
             p == [pcb EXCEPT !.queue = d]
             b == n < want
             x == fd.out \o t
             w == Least(pcb.wnd + n, TcpWnd)
             a == u + o
  <2>1. /\ fd' = [fd EXCEPT !.out = x, !.nospace = b] /\ pcb' = tcp_recved(p, n)
    BY <1>0, <1>8 DEF FdType, PcbType
  <2>2. /\ t \in Seq(Int) /\ Len(t) = n /\ d \in Seq(Int) /\ Len(d) = q - n
    BY <1>1, <1>2, Cut
  <2>3. a \in Nat /\ app.sent - q = a /\ q - n \in Nat /\ app.sent - (q - n) = a + n /\ n \in Nat
        /\ u + (o + n) + (q - n) = app.sent /\ o + n \in Nat
    <3>1. u \in Nat /\ o \in Nat /\ q \in Nat /\ app.sent \in Int
      BY <1>1
    <3>2. u + o + q = app.sent
      BY <1>5, <1>8
    <3> HIDE DEF u, o, q
    <3> QED
      BY <1>2, <3>1, <3>2
  <2>4. t = Run(a, n) /\ d = Run(a + n, q - n)
    <3>1. pcb.queue = Run(a, q)
      BY <1>5, <2>3
    <3> HIDE DEF a, q
    <3>2. Take(Run(a, q), n) = Run(a, n) /\ Drop(Run(a, q), n) = Run(a + n, q - n)
      <4>1. a \in Int /\ q \in Nat /\ n \in 0 .. q
        BY <1>1, <1>2, <2>3
      <4> QED
        BY <4>1, RunCut
    <3> QED
      BY <3>1, <3>2
  <2>5. Payload(x) = Run(u, o + n)
    <3>1. Payload(x) = Payload(fd.out) \o Payload(t)
      <4> HIDE DEF t
      <4> QED
        BY <1>1, <2>2, PayloadJoin
    <3>2. Payload(t) = Run(a, n)
      <4> HIDE DEF a
      <4> QED
        BY <2>3, <2>4, RunPayload
    <3>3. Run(u, o) \o Run(u + o, n) = Run(u, o + n)
      <4> HIDE DEF u, o
      <4>1. u \in Int /\ o \in Nat /\ n \in Nat
        BY <1>1, <2>3
      <4> QED
        BY <4>1, RunJoin
    <3> HIDE DEF x, t, u, o
    <3> QED
      BY <1>5, <3>1, <3>2, <3>3 DEF a
  <2>6. Len(Payload(x)) = o + n
    <3> HIDE DEF u, o, x
    <3>1. u \in Int
      BY <1>1
    <3> QED
      BY <2>3, <2>5, <3>1, RunIs
  <2>7. w \in 0 .. TcpWnd
    <3> DEFINE v == pcb.wnd
    <3>1. v \in 0 .. TcpWnd /\ TcpWnd \in Nat /\ w = Least(v + n, TcpWnd)
      BY <1>5, SizeFacts
    <3> HIDE DEF v, w
    <3> QED
      BY <2>3, <3>1 DEF Least
  <2> HIDE DEF t, d, b, x, a
  <2>8. /\ p.ref = pcb.ref /\ p.lw = pcb.lw /\ p.segs = pcb.segs /\ p.eof = pcb.eof
        /\ p.queue = d /\ p.wnd = pcb.wnd /\ p \in PcbType
    BY <1>0, <2>2 DEF PcbType
  <2> HIDE DEF p, w
  <2>9. /\ pcb'.ref = pcb.ref /\ pcb'.lw = pcb.lw /\ pcb'.segs = pcb.segs /\ pcb'.eof = pcb.eof
        /\ pcb'.queue = d /\ pcb'.wnd \in {pcb.wnd, w}
    <3>1. pcb' = p \/ pcb' = [p EXCEPT !.wnd = w]
      BY <2>1, <2>8 DEF tcp_recved, w
    <3> QED
      BY <2>8, <3>1 DEF PcbType
  <2>10. /\ fd'.in = fd.in /\ fd'.out = x /\ fd'.eof = fd.eof /\ fd'.rst = fd.rst
         /\ fd'.shut = fd.shut /\ fd'.state = fd.state
    BY <1>0, <2>1 DEF FdType
  <2>11. res'.f = 1 /\ res'.b = res.b
    BY <1>0, <1>8 DEF ResType
  <2>12. UpGot' = u /\ UpOut' = o + n
    BY <2>6, <2>10 DEF UpGot, UpOut
  <2>13. Upward'
    <3>1. Payload(srv.got) = Run(0, u) /\ app.sent \in 0 .. mode.up
      BY <1>0 DEF Upward
    <3>2. Len(pcb'.queue) = q - n /\ pcb'.queue = Run(app.sent - (q - n), q - n)
      BY <2>2, <2>3, <2>4, <2>9
    <3>3. pcb'.wnd \in 0 .. TcpWnd
      BY <1>5, <2>7, <2>9
    <3>4. u + (o + n) + (q - n) <= app.sent
      <4>1. app.sent \in Int
        BY <1>1
      <4> HIDE DEF u, o, q
      <4> QED
        BY <2>3, <4>1
    <3> HIDE DEF u, o, q
    <3> QED
      BY <2>3, <2>5, <2>10, <2>12, <3>1, <3>2, <3>3, <3>4 DEF Upward
  <2>14. UpEnds'
    BY <1>0, <1>4, <1>8, <2>9, <2>10, <2>11 DEF UpEnds
  <2> QED
    BY <2>9, <2>10, <2>11, <2>13, <2>14
<1> QED
  BY <1>3, <1>6, <1>7, <1>8

\* The upward half of the splice loop keeps both streams.
LEMMA SpliceFStreams == ASSUME SessionInv, StreamInv, SpliceF PROVE StreamInv'
<1>0. /\ task \in TaskType /\ fd \in FdType /\ Scheduled
      /\ Stages /\ Upward /\ UpEnds /\ Downward /\ Slotted /\ DownEnds
  BY Parts DEF StreamInv
<1>1. /\ task.cpu /\ task.pc = "splice" /\ task.state = "RUNNING" /\ fd.state = "up"
      /\ UNCHANGED <<mode, ring, app, srv>>
      /\ task' = [task EXCEPT !.pc = "splice_b"]
  BY <1>0 DEF SpliceF, At, Scheduled
<1>2. task'.pc = "splice_b" /\ task'.state = "RUNNING" /\ task'.step = task.step
  BY <1>0, <1>1 DEF TaskType
<1>3. /\ Upward' /\ UpEnds' /\ res'.b = res.b
      /\ fd'.in = fd.in /\ fd'.eof = fd.eof /\ fd'.rst = fd.rst
      /\ pcb'.ref = pcb.ref /\ pcb'.lw = pcb.lw /\ pcb'.segs = pcb.segs
  <2>1. CASE res.f >= 0
    <3>1. tcp_splice_f
      BY <2>1 DEF SpliceF
    <3> QED
      BY <1>1, <1>2, <2>1, <3>1, SpliceFMoves
  <2>2. CASE ~(res.f >= 0)
    <3>1. UNCHANGED <<res, fd, pcb>>
      BY <2>2 DEF SpliceF
    <3>2. Upward' /\ UpEnds'
      BY <1>0, <1>1, <1>2, <3>1, UpwardStays, UpEndsStay
    <3> QED
      BY <3>1, <3>2
  <2> QED
    BY <2>1, <2>2
<1>4. Stages' /\ Downward' /\ Slotted' /\ DownEnds'
  BY <1>0, <1>1, <1>2, <1>3, StagesStay, DownwardStays, SlottedStays, DownEndsStay
<1> QED
  BY <1>3, <1>4 DEF StreamInv

\* The end of the session drops what it holds and sends nothing more.
LEMMA DestructStreams == ASSUME SessionInv, StreamInv, Destruct PROVE StreamInv'
<1>0. /\ task \in TaskType /\ fd \in FdType /\ app \in AppType /\ pcb \in PcbType
      /\ Stages /\ Upward /\ UpEnds /\ Downward /\ Slotted /\ DownEnds
  BY Parts DEF StreamInv
<1> DEFINE z == <<>>
           w == IF pcb.ref THEN "FREED" ELSE pcb.lw
           c == IF fd.state = "up" THEN "closed" ELSE "none"
<1>1. /\ UNCHANGED <<mode, res, ring, srv>>
      /\ pcb' = [pcb EXCEPT !.ref = FALSE, !.queue = z, !.segs = z, !.lw = w]
      /\ fd' = [fd EXCEPT !.state = c, !.edge = FALSE]
  BY <1>0 DEF Destruct, PcbType, FdType
<1>2. Len(z) = 0 /\ z = <<>>
  OBVIOUS
<1>3. w \in {"FREED", pcb.lw}
  OBVIOUS
<1> HIDE DEF z, w, c
<1>4. /\ ~pcb'.ref /\ pcb'.queue = z /\ pcb'.segs = z /\ pcb'.lw = w /\ pcb'.eof = pcb.eof
      /\ pcb'.wnd = pcb.wnd
  BY <1>0, <1>1 DEF PcbType
<1>5. /\ fd'.in = fd.in /\ fd'.out = fd.out /\ fd'.rst = fd.rst /\ fd'.shut = fd.shut
      /\ fd.state # "closed"
  <2>1. fd.state # "closed"
    BY Parts DEF Destruct, At, Scheduled
  <2> QED
    BY <1>0, <1>1, <2>1 DEF FdType
<1>6. app'.sent = app.sent /\ app'.got = app.got /\ app'.cut = app.cut
  BY <1>0 DEF Destruct, AppType
<1>7. task'.state = "STOPPED" /\ task'.pc = "destruct" /\ task'.step = task.step
  BY <1>0 DEF Destruct, At, TaskType
<1>8. UpGot' = UpGot /\ UpOut' = UpOut /\ DownIn' = DownIn /\ DownTodo' = DownTodo
  BY <1>1, <1>5 DEF UpGot, UpOut, DownIn, DownTodo
<1>9. \A a \in Int : z = Run(a, 0)
  BY <1>2 DEF Run
<1>10. Stages'
  BY <1>0, <1>1, <1>2, <1>5, <1>7, SizeFacts DEF Stages
<1>11. Upward'
  <2> DEFINE u == UpGot
             o == UpOut
             q == Len(pcb.queue)
  <2>1. u \in Nat /\ o \in Nat /\ q \in Nat /\ app.sent \in Int /\ u + o + q <= app.sent
    BY <1>0, Lengths DEF Upward
  <2>2. u + o + 0 <= app.sent /\ app.sent - 0 \in Int
    <3> HIDE DEF u, o, q
    <3> QED
      BY <2>1
  <2>3. pcb'.queue = Run(app.sent - 0, 0) /\ Len(pcb'.queue) = 0
    BY <1>2, <1>4, <1>9, <2>2
  <2> QED
    BY <1>0, <1>1, <1>4, <1>5, <1>6, <1>7, <1>8, <2>2, <2>3 DEF Upward
<1>12. UpEnds'
  BY <1>0, <1>1, <1>3, <1>4, <1>5, <1>6, <1>7, <1>8 DEF UpEnds
<1>13. Downward'
  <2> DEFINE d == mode.down
             l == DownTodo
             k == DownIn
             g == Len(app.got)
             s == Len(pcb.segs)
  <2>1. /\ d \in Nat /\ l \in Nat /\ k \in Nat /\ g \in Nat /\ s \in Nat /\ k + l <= d
        /\ (app.cut # "hole" => g + s + k + l <= d)
    BY <1>0, Lengths, CaseIs DEF Downward
  <2>2. k + l <= d /\ (app.cut # "hole" => g + 0 + k + l <= d) /\ g \in Int
    <3> HIDE DEF d, l, k, g, s
    <3> QED
      BY <2>1
  <2>3. z = Run(g, 0)
    BY <1>9, <2>2
  <2>4. Sending' = z
    BY <1>2, <1>4 DEF Sending
  <2>5. Len(pcb'.segs) = 0 /\ mode'.down = d /\ Len(app'.got) = g /\ ring' = ring
    BY <1>1, <1>2, <1>4, <1>6
  <2>6. /\ Payload(srv.todo) = Run(d - l, l) /\ Payload(fd.in) = Run(d - l - k, k)
        /\ ring.data \in [Slots -> 0 .. NDown]
        /\ (app.cut # "hole" => app.got = Run(0, g))
    BY <1>0 DEF Downward
  <2> HIDE DEF d, l, k, g, s
  <2>7. DownTodo' = l /\ DownIn' = k /\ srv' = srv
    BY <1>1, <1>8 DEF l, k
  <2> QED
    BY <1>4, <1>5, <1>6, <1>7, <2>2, <2>3, <2>4, <2>5, <2>6, <2>7 DEF Downward
<1>14. Slotted' /\ DownEnds'
  BY <1>2, <1>4 DEF Slotted, DownEnds
<1> QED
  BY <1>10, <1>11, <1>12, <1>13, <1>14 DEF StreamInv

-----------------------------------------------------------------------------
(* lwIP. *)

\* The app sends: its bytes go to the end of the queue.
LEMMA AppSendStreams == ASSUME SessionInv, StreamInv, AppSend PROVE StreamInv'
<1>0. /\ task \in TaskType /\ app \in AppType /\ pcb \in PcbType
      /\ Stages /\ Upward /\ UpEnds /\ Downward /\ Slotted /\ DownEnds
  BY Parts DEF StreamInv
<1>1. PICK n \in 1 .. Least(pcb.wnd, mode.up - app.sent) :
        /\ tcp_recv_handler([i \in 1 .. n |-> app.sent + i])
        /\ app' = [app EXCEPT !.sent = @ + n]
  BY DEF AppSend
<1> DEFINE a == app.sent
           b == Run(a, n)
           x == pcb.queue \o b
           v == pcb.wnd
           w == v - Len(b)
           q == Len(pcb.queue)
           u == UpGot
           o == UpOut
<1>2. /\ UNCHANGED <<mode, res, ring, fd, srv>>
      /\ pcb.lw \in {"ESTABLISHED", "FIN_WAIT_1", "FIN_WAIT_2"}
  BY DEF AppSend
<1>3. /\ a \in 0 .. mode.up /\ v \in 0 .. TcpWnd /\ pcb.queue = Run(a - q, q)
      /\ u + o + q <= a /\ (task.state # "STOPPED" /\ ~fd.rst => u + o + q = a)
  BY <1>0 DEF Upward
<1>4. /\ u \in Nat /\ o \in Nat /\ q \in Nat /\ a \in Int /\ mode.up \in Nat /\ TcpWnd \in Nat
  BY Lengths, CaseIs, SizeFacts
<1>5. n \in Nat /\ n >= 1 /\ n <= v /\ n <= mode.up - a
  <2> HIDE DEF v, a
  <2>1. n \in 1 .. Least(v, mode.up - a)
    BY <1>1 DEF v, a
  <2> QED
    BY <1>3, <1>4, <2>1 DEF Least
<1>6. Len(b) = n
  <2> HIDE DEF a
  <2> QED
    BY <1>4, <1>5, RunIs
<1>7. /\ pcb' = [pcb EXCEPT !.queue = x, !.wnd = w] /\ task' = Wake(task)
      /\ app' = [app EXCEPT !.sent = a + n]
  BY <1>0, <1>1 DEF tcp_recv_handler, PcbType, Run
<1>8. x = Run(a - q, q + n) /\ Len(x) = q + n
  <2> DEFINE c == a - q
  <2> HIDE DEF a, q
  <2>1. c \in Int /\ c + q = a /\ q + n \in Nat
    BY <1>4, <1>5
  <2> HIDE DEF c
  <2>2. Run(c, q) \o Run(c + q, n) = Run(c, q + n)
    BY <1>4, <1>5, <2>1, RunJoin
  <2>3. x = Run(c, q + n)
    BY <1>3, <2>1, <2>2 DEF c
  <2>4. Len(Run(c, q + n)) = q + n
    BY <2>1, RunIs
  <2> QED
    BY <2>3, <2>4 DEF c
<1>9. w \in 0 .. TcpWnd
  <2> HIDE DEF b, v
  <2> QED
    BY <1>3, <1>4, <1>5, <1>6
<1> HIDE DEF b, x, w
<1>10. /\ pcb'.ref = pcb.ref /\ pcb'.lw = pcb.lw /\ pcb'.segs = pcb.segs /\ pcb'.eof = pcb.eof
       /\ pcb'.queue = x /\ pcb'.wnd = w
  BY <1>0, <1>7 DEF PcbType
<1>11. app'.sent = a + n /\ app'.got = app.got /\ app'.end = app.end /\ app'.cut = app.cut
  BY <1>0, <1>7 DEF AppType
<1>12. task'.pc = task.pc /\ task'.step = task.step /\ (task'.state = "STOPPED") = (task.state = "STOPPED")
  BY <1>0, <1>7, WakeGives
<1>13. Stages' /\ Downward' /\ Slotted' /\ DownEnds'
  BY <1>0, <1>2, <1>10, <1>11, <1>12, StagesStay, DownwardStays, SlottedStays, DownEndsStay
<1>14. ~pcb.eof /\ ~fd.shut
  BY <1>0, <1>2 DEF UpEnds
<1>15. UpEnds'
  BY <1>0, <1>2, <1>10, <1>12, <1>14 DEF UpEnds
<1>16. UpGot' = u /\ UpOut' = o
  BY <1>2 DEF UpGot, UpOut
<1>17. Upward'
  <2>1. Payload(srv.got) = Run(0, u) /\ Payload(fd.out) = Run(u, o)
    BY <1>0 DEF Upward
  <2> HIDE DEF a, q, u, o
  <2>2. /\ a + n \in 0 .. mode.up /\ a + n - (q + n) = a - q /\ u + o + (q + n) <= a + n
        /\ (task.state # "STOPPED" /\ ~fd.rst => u + o + (q + n) = a + n)
    <3>1. a \in 0 .. mode.up /\ u + o + q <= a /\ (task.state # "STOPPED" /\ ~fd.rst => u + o + q = a)
      BY <1>3
    <3> QED
      BY <1>4, <1>5, <3>1
  <2>3. pcb'.queue = Run(app'.sent - (q + n), q + n) /\ Len(pcb'.queue) = q + n
    <3>0. app'.sent = a + n
      BY <1>11
    <3>1. app'.sent - (q + n) = a - q
      <4> DEFINE y == app'.sent
      <4>1. y = a + n /\ a \in Int /\ q \in Nat /\ n \in Nat
        BY <1>4, <1>5, <3>0
      <4> HIDE DEF y
      <4>2. y - (q + n) = a - q
        BY <4>1
      <4> QED
        BY <4>2 DEF y
    <3>2. pcb'.queue = Run(a - q, q + n) /\ Len(pcb'.queue) = q + n
      BY <1>8, <1>10
    <3> QED
      BY <3>1, <3>2
  <2> QED
    BY <1>2, <1>9, <1>10, <1>11, <1>12, <1>16, <2>1, <2>2, <2>3 DEF Upward
<1> QED
  BY <1>13, <1>15, <1>17 DEF StreamInv

\* The app's FIN.
LEMMA AppFinStreams == ASSUME SessionInv, StreamInv, AppFin PROVE StreamInv'
<1>0. /\ task \in TaskType /\ pcb \in PcbType
      /\ Stages /\ Upward /\ UpEnds /\ Downward /\ Slotted /\ DownEnds
  BY Parts DEF StreamInv
<1>1. /\ UNCHANGED <<mode, res, ring, fd, app, srv>> /\ task' = Wake(task) /\ pcb.ref
  BY DEF AppFin, Callbacks
<1>2. PICK l : /\ pcb' = [pcb EXCEPT !.eof = TRUE, !.lw = l]
               /\ \/ pcb.lw = "ESTABLISHED" /\ l = "CLOSE_WAIT"
                  \/ pcb.lw = "FIN_WAIT_1" /\ l = "CLOSING"
                  \/ pcb.lw = "FIN_WAIT_2" /\ l = "TIME_WAIT"
  BY <1>0 DEF AppFin, PcbType
<1>3. /\ pcb'.ref = pcb.ref /\ pcb'.lw = l /\ pcb'.segs = pcb.segs /\ pcb'.eof
      /\ pcb'.queue = pcb.queue /\ pcb'.wnd = pcb.wnd
  BY <1>0, <1>2 DEF PcbType
<1>4. task'.pc = task.pc /\ task'.step = task.step /\ (task'.state = "STOPPED") = (task.state = "STOPPED")
  BY <1>0, <1>1, WakeGives
<1>5. Stages' /\ Upward' /\ Downward' /\ Slotted'
  BY <1>0, <1>1, <1>3, <1>4, StagesStay, UpwardStays, DownwardStays, SlottedStays
<1>6. UpEnds'
  BY <1>0, <1>1, <1>2, <1>3, <1>4 DEF UpEnds, UpGot, UpOut
<1>7. DownEnds'
  BY <1>0, <1>1, <1>2, <1>3 DEF DownEnds, DownTodo
<1> QED
  BY <1>5, <1>6, <1>7 DEF StreamInv

\* The app acknowledges the session's FIN.
LEMMA AppAckFinStreams == ASSUME SessionInv, StreamInv, AppAckFin PROVE StreamInv'
<1>0. /\ task \in TaskType /\ pcb \in PcbType /\ app \in AppType
      /\ Stages /\ Upward /\ UpEnds /\ Downward /\ Slotted /\ DownEnds
  BY Parts DEF StreamInv
<1>1. /\ UNCHANGED <<mode, res, ring, fd, srv>> /\ pcb.ref /\ pcb.segs = <<>>
      /\ pcb.lw \in {"FIN_WAIT_1", "CLOSING", "LAST_ACK"}
  BY DEF AppAckFin, Callbacks
<1>2. app'.sent = app.sent /\ app'.got = app.got /\ app'.cut = app.cut
  BY <1>0 DEF AppAckFin, AppType
<1>3. /\ pcb'.segs = pcb.segs /\ pcb'.eof = pcb.eof /\ pcb'.queue = pcb.queue /\ pcb'.wnd = pcb.wnd
      /\ \/ pcb.lw = "LAST_ACK" /\ ~pcb'.ref /\ pcb'.lw = "FREED"
         \/ pcb.lw = "FIN_WAIT_1" /\ pcb'.ref = pcb.ref /\ pcb'.lw = "FIN_WAIT_2"
         \/ pcb.lw = "CLOSING" /\ pcb'.ref = pcb.ref /\ pcb'.lw = "TIME_WAIT"
  <2>1. CASE pcb.lw = "LAST_ACK"
    <3>1. pcb' = [[pcb EXCEPT !.lw = "FREED"] EXCEPT !.ref = FALSE]
      BY <2>1 DEF AppAckFin, tcp_err_handler
    <3> QED
      BY <1>0, <2>1, <3>1 DEF PcbType
  <2>2. CASE pcb.lw = "FIN_WAIT_1"
    <3>1. pcb' = [pcb EXCEPT !.lw = "FIN_WAIT_2"]
      BY <2>2 DEF AppAckFin
    <3> QED
      BY <1>0, <2>2, <3>1 DEF PcbType
  <2>3. CASE pcb.lw = "CLOSING"
    <3>1. pcb' = [pcb EXCEPT !.lw = "TIME_WAIT"]
      BY <2>3 DEF AppAckFin
    <3> QED
      BY <1>0, <2>3, <3>1 DEF PcbType
  <2> QED
    BY <1>1, <2>1, <2>2, <2>3
<1>4. task'.pc = task.pc /\ task'.step = task.step /\ (task'.state = "STOPPED") = (task.state = "STOPPED")
  <2>1. CASE pcb.lw = "LAST_ACK"
    BY <1>0, <2>1, TerminateGives DEF AppAckFin
  <2>2. CASE pcb.lw # "LAST_ACK"
    BY <2>2 DEF AppAckFin
  <2> QED
    BY <2>1, <2>2
<1>5. Stages' /\ Upward' /\ Downward' /\ Slotted'
  BY <1>0, <1>1, <1>2, <1>3, <1>4, StagesStay, UpwardStays, DownwardStays, SlottedStays
<1>6. UpEnds'
  BY <1>0, <1>1, <1>2, <1>3, <1>4 DEF UpEnds, UpGot, UpOut
<1>7. DownEnds'
  BY <1>0, <1>1, <1>2, <1>3 DEF DownEnds
<1> QED
  BY <1>5, <1>6, <1>7 DEF StreamInv

\* A TIME_WAIT that ends silently.
LEMMA TimeWaitStreams == ASSUME SessionInv, StreamInv, TimeWaitOver PROVE StreamInv'
<1>0. /\ pcb \in PcbType
      /\ Stages /\ Upward /\ UpEnds /\ Downward /\ Slotted /\ DownEnds
  BY Parts DEF StreamInv
<1>1. /\ UNCHANGED <<mode, task, res, ring, fd, app, srv>> /\ pcb.lw = "TIME_WAIT"
      /\ pcb' = [pcb EXCEPT !.lw = "FREED"]
  BY DEF TimeWaitOver
<1>2. /\ pcb'.ref = pcb.ref /\ pcb'.segs = pcb.segs /\ pcb'.lw = "FREED"
      /\ pcb'.queue = pcb.queue /\ pcb'.wnd = pcb.wnd /\ pcb'.eof = pcb.eof
  BY <1>0, <1>1 DEF PcbType
<1>3. Stages' /\ Upward' /\ UpEnds' /\ Downward' /\ Slotted'
  BY <1>0, <1>1, <1>2, StagesStay, UpwardStays, UpEndsStay, DownwardStays, SlottedStays
<1>4. DownEnds'
  BY <1>0, <1>1, <1>2 DEF DownEnds
<1> QED
  BY <1>3, <1>4 DEF StreamInv

\* A reset by the app: the connection and what was under way on it are gone.
LEMMA PcbErrorStreams == ASSUME SessionInv, StreamInv, PcbError PROVE StreamInv'
<1>0. /\ task \in TaskType /\ pcb \in PcbType /\ app \in AppType
      /\ Stages /\ Upward /\ UpEnds /\ Downward /\ Slotted /\ DownEnds
  BY Parts DEF StreamInv
<1> DEFINE z == <<>>
           p == [pcb EXCEPT !.lw = "FREED", !.segs = z]
<1>1. /\ UNCHANGED <<mode, res, ring, fd, srv>> /\ task' = Terminate(task)
      /\ pcb' = [p EXCEPT !.ref = FALSE]
  BY DEF PcbError, tcp_err_handler
<1>2. z = <<>> /\ Len(z) = 0 /\ z \in Seq(Slots)
  OBVIOUS
<1> HIDE DEF z
<1>3. /\ ~pcb'.ref /\ pcb'.segs = z /\ pcb'.lw = "FREED" /\ pcb'.queue = pcb.queue
      /\ pcb'.wnd = pcb.wnd /\ pcb'.eof = pcb.eof
  BY <1>0, <1>1 DEF PcbType
<1>4. /\ app'.sent = app.sent /\ app'.got = app.got
      /\ app'.cut # "hole" => app.cut # "hole"
  BY <1>0 DEF PcbError, AppType
<1>5. task'.pc = task.pc /\ task'.step = task.step /\ (task'.state = "STOPPED") = (task.state = "STOPPED")
  BY <1>0, <1>1, TerminateGives
<1>6. Stages' /\ Upward' /\ UpEnds'
  BY <1>0, <1>1, <1>3, <1>4, <1>5, StagesStay, UpwardStays, UpEndsStay
<1>7. Slotted' /\ DownEnds'
  BY <1>2, <1>3 DEF Slotted, DownEnds
<1>8. Downward'
  <2> DEFINE d == mode.down
             l == DownTodo
             k == DownIn
             g == Len(app.got)
             s == Len(pcb.segs)
  <2>1. /\ d \in Nat /\ l \in Nat /\ k \in Nat /\ g \in Nat /\ s \in Nat
        /\ (app.cut # "hole" => g + s + k + l <= d)
    BY <1>0, Lengths, CaseIs DEF Downward
  <2>2. (app.cut # "hole" => g + 0 + k + l <= d) /\ g \in Int
    <3> HIDE DEF d, l, k, g, s
    <3> QED
      BY <2>1
  <2>3. Sending' = z /\ z = Run(g, 0)
    BY <1>2, <1>3 DEF Sending, Run
  <2>4. /\ Len(pcb'.segs) = 0 /\ mode'.down = d /\ Len(app'.got) = g /\ ring' = ring
        /\ DownTodo' = l /\ DownIn' = k /\ srv' = srv /\ fd' = fd
    BY <1>1, <1>2, <1>3, <1>4 DEF DownTodo, DownIn
  <2>5. /\ Payload(srv.todo) = Run(d - l, l) /\ ring.data \in [Slots -> 0 .. NDown]
        /\ Payload(fd.in) = Run(d - l - k, k) /\ k + l <= d
        /\ (app.cut # "hole" => app.got = Run(0, g))
    BY <1>0 DEF Downward
  <2> HIDE DEF d, l, k, g, s
  <2> QED
    BY <1>3, <1>4, <2>2, <2>3, <2>4, <2>5 DEF Downward
<1> QED
  BY <1>6, <1>7, <1>8 DEF StreamInv

\* The app acknowledges the first n of what lwIP sends: it has them, and their slots
\* are free.
LEMMA AppAckStreams == ASSUME SessionInv, StreamInv, AppAck PROVE StreamInv'
<1>0. /\ task \in TaskType /\ pcb \in PcbType /\ ring \in RingType /\ app \in AppType /\ Ledger
      /\ Stages /\ Upward /\ UpEnds /\ Downward /\ Slotted /\ DownEnds
  BY Parts DEF StreamInv
<1>1. PICK n \in 1 .. Len(pcb.segs) :
        /\ app' = [app EXCEPT !.got = @ \o [i \in 1 .. n |-> ring.data[pcb.segs[i]]]]
        /\ pcb' = [pcb EXCEPT !.segs = Drop(@, n)]
        /\ ring' = ReadRelease(ring, n)
  BY DEF AppAck
<1>2. pcb.ref /\ UNCHANGED <<mode, res, fd, srv>> /\ task' = Wake(task)
  BY DEF AppAck, Callbacks
<1> DEFINE e == Drop(pcb.segs, n)
           c == [i \in 1 .. n |-> ring.data[pcb.segs[i]]]
           x == app.got \o c
           d == mode.down
           l == DownTodo
           k == DownIn
           g == Len(app.got)
           s == Len(pcb.segs)
<1>3. /\ pcb.segs \in Seq(Slots) /\ n \in 0 .. s /\ n \in Nat /\ n >= 1 /\ n <= s
      /\ d \in Nat /\ l \in Nat /\ k \in Nat /\ g \in Nat /\ s \in Nat
      /\ ring.data \in [Slots -> 0 .. NDown] /\ NDown \in Nat
  <2>1. d \in Nat /\ l \in Nat /\ k \in Nat /\ g \in Nat /\ s \in Nat /\ pcb.segs \in Seq(Slots)
    BY Lengths, CaseIs
  <2>2. ring.data \in [Slots -> 0 .. NDown] /\ NDown \in Nat
    BY <1>0, CaseIs DEF Downward
  <2>3. n \in 1 .. s
    BY <1>1
  <2> HIDE DEF s
  <2>4. n \in 0 .. s /\ n \in Nat /\ n >= 1 /\ n <= s
    BY <2>1, <2>3
  <2> QED
    BY <2>1, <2>2, <2>4
<1>4. e \in Seq(Slots) /\ Len(e) = s - n
  <2>1. pcb.segs \in Seq(Slots) /\ n \in 0 .. Len(pcb.segs)
    BY <1>3
  <2> DEFINE q == pcb.segs
  <2>2. q \in Seq(Slots) /\ n \in 0 .. Len(q)
    BY <2>1
  <2> HIDE DEF q
  <2>3. Drop(q, n) \in Seq(Slots) /\ Len(Drop(q, n)) = Len(q) - n
    BY <2>2, Cut
  <2> QED
    BY <2>3 DEF q
<1>5. \A i \in 1 .. s - n : e[i] = pcb.segs[i + n]
  <2> DEFINE q == pcb.segs
             r == Drop(q, n)
  <2>1. q \in Seq(Slots) /\ Len(q) \in Nat /\ n \in 0 .. Len(q)
    BY <1>3
  <2> HIDE DEF q
  <2>2. \A i \in 1 .. Len(q) - n : r[i] = q[i + n]
    BY <2>1 DEF Drop
  <2> QED
    BY <2>2 DEF q
<1>6. c \in Seq(Int) /\ Len(c) = n /\ \A i \in 1 .. n : c[i] = ring.data[pcb.segs[i]]
  <2>1. \A i \in 1 .. n : pcb.segs[i] \in Slots
    BY <1>3
  <2>2. \A i \in 1 .. n : ring.data[pcb.segs[i]] \in Int
    BY <1>3, <2>1
  <2> QED
    BY <1>3, <2>2
<1>7. app' = [app EXCEPT !.got = x] /\ pcb' = [pcb EXCEPT !.segs = e]
  BY <1>1
<1>8. Len(x) = g + n
  <2> HIDE DEF c
  <2>1. app.got \in Seq(Int)
    BY Lengths
  <2> QED
    BY <1>6, <2>1, ConcatProperties
<1> HIDE DEF e, c
<1>9. /\ pcb'.ref = pcb.ref /\ pcb'.lw = pcb.lw /\ pcb'.segs = e /\ pcb'.eof = pcb.eof
      /\ pcb'.queue = pcb.queue /\ pcb'.wnd = pcb.wnd
  BY <1>0, <1>7 DEF PcbType
<1>10. app'.sent = app.sent /\ app'.got = x /\ app'.cut = app.cut /\ app'.end = app.end
  <2> HIDE DEF x
  <2> QED
    BY <1>0, <1>7 DEF AppType
<1>11. task'.pc = task.pc /\ task'.step = task.step /\ (task'.state = "STOPPED") = (task.state = "STOPPED")
  BY <1>0, <1>2, WakeGives
<1>12. /\ ring'.data = ring.data /\ ring'.rda = ring.rda
       /\ \/ ring'.rp = ring.rp /\ ring'.wp = ring.wp
          \/ ring'.rp = 0 /\ ring'.wp = 0 /\ ring.use - n = 0
  BY <1>0, <1>1 DEF ReadRelease, RingType
<1>13. Stages' /\ Upward' /\ UpEnds'
  BY <1>0, <1>2, <1>9, <1>10, <1>11, StagesStay, UpwardStays, UpEndsStay
<1>14. DownTodo' = l /\ DownIn' = k /\ Len(app'.got) = g + n /\ Len(pcb'.segs) = s - n
  BY <1>2, <1>4, <1>8, <1>9, <1>10 DEF DownTodo, DownIn
<1>15. Downward'
  <2>1. app.cut # "hole" => app.got = Run(0, g) /\ Sending = Run(g, s) /\ g + s + k + l <= d
    BY <1>0 DEF Downward
  <2>2. \A i \in 1 .. s : Sending[i] = ring.data[pcb.segs[i]]
    BY DEF Sending
  <2>3. app.cut # "hole" => \A i \in 1 .. s : ring.data[pcb.segs[i]] = g + i
    <3> HIDE DEF g, s
    <3>0. g \in Int /\ s \in Nat
      BY <1>3
    <3>00. \A i \in 1 .. s : Run(g, s)[i] = g + i
      BY <3>0, RunIs
    <3>1. app.cut # "hole" => \A i \in 1 .. s : Sending[i] = g + i
      BY <2>1, <3>00
    <3> QED
      BY <2>2, <3>1
  <2>4. app.cut # "hole" => x = Run(0, g + n)
    <3> SUFFICES ASSUME app.cut # "hole" PROVE x = Run(0, g + n)
      OBVIOUS
    <3> HIDE DEF g, s, x
    <3>1. \A i \in 1 .. Len(c) : c[i] = g + i
      <4>1. Len(c) = n /\ \A i \in 1 .. n : c[i] = ring.data[pcb.segs[i]]
        BY <1>6
      <4>2. n \in Nat /\ s \in Nat /\ n <= s
        BY <1>3
      <4>3. \A i \in 1 .. n : i \in 1 .. s
        BY <4>2
      <4> QED
        BY <2>3, <4>1, <4>3
    <3>2. g \in Int
      BY <1>3
    <3>3. c = Run(g, Len(c))
      BY <1>6, <3>1, <3>2, RunOf
    <3>4. Run(0, g) \o Run(0 + g, n) = Run(0, g + n)
      <4>1. 0 \in Int /\ g \in Nat /\ n \in Nat
        BY <1>3
      <4> QED
        BY <4>1, RunJoin
    <3>5. 0 + g = g
      BY <1>3
    <3> QED
      BY <1>6, <2>1, <3>3, <3>4, <3>5 DEF x
  <2>5. app.cut # "hole" => Sending' = Run(g + n, s - n)
    <3> SUFFICES ASSUME app.cut # "hole" PROVE Sending' = Run(g + n, s - n)
      OBVIOUS
    <3>1. Sending' = [i \in 1 .. s - n |-> ring.data[e[i]]]
      BY <1>4, <1>9, <1>12 DEF Sending
    <3> HIDE DEF g, s
    <3>2. \A i \in 1 .. s - n : ring.data[e[i]] = g + n + i
      <4> SUFFICES ASSUME NEW i \in 1 .. s - n PROVE ring.data[e[i]] = g + n + i
        OBVIOUS
      <4>1. i + n \in 1 .. s /\ g + (i + n) = g + n + i
        BY <1>3
      <4> QED
        BY <1>5, <2>3, <4>1
    <3> QED
      BY <3>1, <3>2 DEF Run
  <2>6. /\ (app.cut # "hole" => (g + n) + (s - n) + k + l <= d)
        /\ (task.state # "STOPPED" /\ ~fd.rst /\ app.cut = "no" /\ pcb.ref =>
              (g + n) + (s - n) + k + l = d)
    <3>1. task.state # "STOPPED" /\ ~fd.rst /\ app.cut = "no" /\ pcb.ref => g + s + k + l = d
      BY <1>0 DEF Downward
    <3> HIDE DEF g, s, k, l, d
    <3>2. (g + n) + (s - n) + k + l = g + s + k + l
      BY <1>3
    <3> QED
      BY <2>1, <3>1, <3>2
  <2>7. /\ Payload(srv.todo) = Run(d - l, l) /\ Payload(fd.in) = Run(d - l - k, k) /\ k + l <= d
    BY <1>0 DEF Downward
  <2>8. mode'.down = d /\ srv' = srv /\ fd' = fd
    BY <1>2
  <2> HIDE DEF g, s, k, l, d, x
  <2> QED
    BY <1>3, <1>9, <1>10, <1>11, <1>12, <1>14, <2>4, <2>5, <2>6, <2>7, <2>8 DEF Downward
<1>16. Slotted'
  <2> SUFFICES ASSUME res.b >= 0
               PROVE /\ ring'.rda = 0 /\ ring'.rp = ring'.wp
                     /\ \A i \in 1 .. s - n : e[i] = Slot(ring'.wp - (s - n) + i - 1)
    BY <1>2, <1>9, <1>14 DEF Slotted
  <2>1. /\ ring.rda = 0 /\ ring.rp = ring.wp
        /\ \A i \in 1 .. s : pcb.segs[i] = Slot(ring.wp - s + i - 1)
    BY <1>0, <1>2 DEF Slotted
  <2>2. ring'.rda = 0 /\ ring'.rp = ring'.wp
    BY <1>12, <2>1
  <2>3. ASSUME NEW i \in 1 .. s - n PROVE e[i] = Slot(ring'.wp - (s - n) + i - 1)
    <3>1. ring.use - n # 0
      <4>1. s + ring.rda <= ring.use /\ ring.use \in Int
        BY <1>0 DEF Ledger, RingType
      <4> HIDE DEF s
      <4> QED
        BY <1>3, <2>1, <2>3, <4>1
    <3>2. ring'.wp = ring.wp /\ ring.wp \in Int
      BY <1>0, <1>12, <3>1 DEF RingType, Slots
    <3> HIDE DEF s
    <3>3. i + n \in 1 .. s /\ ring.wp - s + (i + n) - 1 = ring.wp - (s - n) + i - 1
      BY <1>3, <3>2, SMTT(60)
    <3>4. pcb.segs[i + n] = Slot(ring.wp - s + (i + n) - 1)
      BY <2>1, <3>3
    <3> QED
      BY <1>5, <3>2, <3>3, <3>4
  <2> QED
    BY <2>2, <2>3
<1>17. DownEnds'
  <2>1. pcb.segs # <<>>
    BY <1>3
  <2>2. app.end = "open"
    BY <1>0, <2>1 DEF DownEnds
  <2>3. pcb.lw \in {"FIN_WAIT_1", "CLOSING", "LAST_ACK"} =>
          app.cut = "server" \/ (app.cut = "no" /\ fd.eof /\ g + s + l = d)
    BY <1>0, <1>2 DEF DownEnds
  <2>4. g + s + l = d => (g + n) + (s - n) + l = d
    <3> HIDE DEF g, s, l, d
    <3> QED
      BY <1>3
  <2> HIDE DEF g, s, l, d, x
  <2>5. mode'.down = d
    BY <1>2 DEF d
  <2> QED
    BY <1>0, <1>2, <1>9, <1>10, <1>14, <2>2, <2>3, <2>4, <2>5 DEF DownEnds
<1> QED
  BY <1>13, <1>15, <1>16, <1>17 DEF StreamInv

-----------------------------------------------------------------------------
(* The slots of the ring. *)

\* The slot x places from the start of the ring, counted to at most one turn after it.
Lap(x) == IF x >= MaxSize THEN x - MaxSize ELSE x

\* A remainder of a number that is at most one size away.
LEMMA ModIs ==
  ASSUME NEW M \in Nat \ {0}, NEW x \in Int
  PROVE  /\ x \in 0 .. M - 1 => x % M = x
         /\ x \in M .. 2 * M - 1 => x % M = x - M
         /\ x \in -M .. -1 => x % M = x + M
<1>1. x \in 0 .. M - 1 => x % M = x
  OBVIOUS
<1>2. x \in M .. 2 * M - 1 => x % M = x - M
  OBVIOUS
<1>3. x \in -M .. -1 => x % M = x + M
  OBVIOUS
<1> QED
  BY <1>1, <1>2, <1>3

\* One of the s slots before w is the last to be written again, going round from w.
LEMMA SlotBefore ==
  ASSUME NEW w \in Slots, NEW s \in 0 .. MaxSize, NEW i \in 1 .. s
  PROVE  Slot(w - s + i - 1) \in Slots
         /\ (Slot(w - s + i - 1) - w) % MaxSize = MaxSize - s + i - 1
<1> DEFINE M == MaxSize
           y == w - s + i - 1
           x == Slot(y) - w
<1>1. M \in Nat \ {0}
  BY SizeFacts
<1> HIDE DEF M
<1>2. w \in Int /\ 0 <= w /\ w < M /\ s \in Int /\ 0 <= s /\ s <= M /\ i \in Int /\ 1 <= i /\ i <= s
  BY <1>1 DEF Slots, M
<1>3. CASE y < 0
  <2>1. Slot(y) = y + M
    BY <1>3 DEF Slot, M
  <2> HIDE DEF x
  <2>2. y + M \in 0 .. M - 1
    BY <1>1, <1>2, <1>3
  <2>3. x = M - s + i - 1
    BY <1>1, <1>2, <2>1 DEF x
  <2>4. M - s + i - 1 \in 0 .. M - 1 /\ M - s + i - 1 \in Int
    BY <1>1, <1>2
  <2>5. x % M = x
    BY <1>1, <2>3, <2>4, ModIs
  <2> QED
    BY <2>1, <2>2, <2>3, <2>5 DEF x, M, Slots
<1>4. CASE ~(y < 0)
  <2>1. Slot(y) = y
    BY <1>4 DEF Slot
  <2> HIDE DEF x
  <2>2. y \in 0 .. M - 1
    BY <1>1, <1>2, <1>4
  <2>3. x = i - 1 - s
    BY <1>1, <1>2, <2>1 DEF x
  <2>4. i - 1 - s \in -M .. -1 /\ i - 1 - s \in Int
    BY <1>1, <1>2
  <2>5. x % M = x + M
    BY <1>1, <2>3, <2>4, ModIs
  <2>6. i - 1 - s + M = M - s + i - 1
    BY <1>1, <1>2
  <2> QED
    BY <2>1, <2>2, <2>3, <2>5, <2>6 DEF x, M, Slots
<1> QED
  BY <1>3, <1>4

\* The i-th slot from w on is the i-th to be written, going round from w.
LEMMA SlotAhead ==
  ASSUME NEW w \in Slots, NEW i \in 1 .. MaxSize
  PROVE  Lap(w + i - 1) \in Slots /\ (Lap(w + i - 1) - w) % MaxSize = i - 1
<1> DEFINE M == MaxSize
           y == w + i - 1
           x == Lap(y) - w
<1>1. M \in Nat \ {0}
  BY SizeFacts
<1> HIDE DEF M
<1>2. w \in Int /\ 0 <= w /\ w < M /\ i \in Int /\ 1 <= i /\ i <= M
  BY <1>1 DEF Slots, M
<1>3. CASE y >= M
  <2>1. Lap(y) = y - M
    BY <1>3 DEF Lap, M
  <2> HIDE DEF x
  <2>2. y - M \in 0 .. M - 1
    BY <1>1, <1>2, <1>3
  <2>3. x = i - 1 - M
    BY <1>1, <1>2, <2>1 DEF x
  <2>4. i - 1 - M \in -M .. -1 /\ i - 1 - M \in Int
    BY <1>1, <1>2
  <2>5. x % M = x + M
    BY <1>1, <2>3, <2>4, ModIs
  <2>6. i - 1 - M + M = i - 1
    BY <1>1, <1>2
  <2> QED
    BY <2>1, <2>2, <2>3, <2>5, <2>6 DEF x, M, Slots
<1>4. CASE ~(y >= M)
  <2>1. Lap(y) = y
    BY <1>4 DEF Lap, M
  <2> HIDE DEF x
  <2>2. y \in 0 .. M - 1
    BY <1>1, <1>2, <1>4
  <2>3. x = i - 1
    BY <1>1, <1>2, <2>1 DEF x
  <2>4. i - 1 \in 0 .. M - 1 /\ i - 1 \in Int
    BY <1>1, <1>2
  <2>5. x % M = x
    BY <1>1, <2>3, <2>4, ModIs
  <2> QED
    BY <2>1, <2>2, <2>3, <2>5 DEF x, M, Slots
<1> QED
  BY <1>3, <1>4

\* When the pointer w goes n on, the s slots before it and the n from it on become
\* the s + n slots before it.
LEMMA SlotMoves ==
  ASSUME NEW w \in Slots, NEW s \in Nat, NEW n \in Nat, s + n <= MaxSize
  PROVE  /\ (w + n) % MaxSize \in Slots
         /\ \A i \in 1 .. s : Slot(((w + n) % MaxSize) - (s + n) + i - 1) = Slot(w - s + i - 1)
         /\ \A i \in 1 .. n : Slot(((w + n) % MaxSize) - (s + n) + (s + i) - 1) = Lap(w + i - 1)
<1> DEFINE M == MaxSize
           v == (w + n) % M
<1>1. M \in Nat \ {0}
  BY SizeFacts
<1> HIDE DEF M
<1>2. w \in Int /\ 0 <= w /\ w < M /\ s + n <= M
  BY <1>1 DEF Slots, M
<1>3. v = (IF w + n >= M THEN w + n - M ELSE w + n) /\ v \in 0 .. M - 1
  <2>1. w + n \in Int /\ (w + n >= M => w + n \in M .. 2 * M - 1) /\ (~(w + n >= M) => w + n \in 0 .. M - 1)
    BY <1>1, <1>2
  <2> DEFINE x == w + n
  <2> HIDE DEF x
  <2>2. (x \in M .. 2 * M - 1 => x % M = x - M) /\ (x \in 0 .. M - 1 => x % M = x)
    <3>1. x \in Int
      BY <2>1 DEF x
    <3> QED
      BY <1>1, <3>1, ModIs
  <2> QED
    BY <1>1, <1>2, <2>1, <2>2 DEF x
<1> HIDE DEF v
<1>4. ASSUME NEW i \in 1 .. s PROVE Slot(v - (s + n) + i - 1) = Slot(w - s + i - 1)
  BY <1>1, <1>2, <1>3 DEF Slot, M
<1>5. ASSUME NEW i \in 1 .. n PROVE Slot(v - (s + n) + (s + i) - 1) = Lap(w + i - 1)
  BY <1>1, <1>2, <1>3 DEF Slot, Lap, M
<1> QED
  BY <1>3, <1>4, <1>5 DEF v, M, Slots

\* Filling the ring: the bytes are in the slots from the write pointer on, and the
\* slots before it, as many as were not free, keep theirs.
LEMMA WriteHolds ==
  ASSUME NEW r \in RingType, NEW bytes \in Seq(Int), NEW s \in Nat, s + Len(bytes) <= MaxSize
  PROVE  LET f == WriteFinish(r, bytes)
         IN  /\ f.rp = r.rp /\ f.wp = (r.wp + Len(bytes)) % MaxSize
             /\ \A i \in 1 .. s : f.data[Slot(r.wp - s + i - 1)] = r.data[Slot(r.wp - s + i - 1)]
             /\ \A i \in 1 .. Len(bytes) : f.data[Lap(r.wp + i - 1)] = bytes[i]
             /\ \A T : r.data \in [Slots -> T] /\ bytes \in Seq(T) => f.data \in [Slots -> T]
<1> DEFINE nth(i) == ((i - r.wp) % MaxSize) + 1
           d == [i \in Slots |-> IF nth(i) <= Len(bytes) THEN bytes[nth(i)] ELSE r.data[i]]
           k == Len(bytes)
           w == (r.wp + k) % MaxSize
           u == r.use + k
           v == r.rda + k
           f == WriteFinish(r, bytes)
<1>1. /\ k \in Nat /\ r.wp \in Slots /\ MaxSize \in Nat \ {0} /\ DOMAIN r.data = Slots
  BY SizeFacts DEF RingType
<1>2. f = [r EXCEPT !.data = d, !.wp = w, !.use = u, !.rda = v]
  BY <1>1 DEF WriteFinish, RingType
<1> HIDE DEF f, w, u, v, d
<1>3. f.rp = r.rp /\ f.wp = w /\ f.data = d
  BY <1>2 DEF RingType
<1>4. ASSUME NEW i \in 1 .. s
      PROVE d[Slot(r.wp - s + i - 1)] = r.data[Slot(r.wp - s + i - 1)]
  <2> DEFINE y == Slot(r.wp - s + i - 1)
  <2>1. y \in Slots /\ (y - r.wp) % MaxSize = MaxSize - s + i - 1
    <3>1. s \in 0 .. MaxSize
      <4> HIDE DEF k
      <4>1. s + k <= MaxSize
        BY DEF k
      <4> QED
        BY <1>1, <4>1
    <3> DEFINE wp == r.wp
    <3>2. wp \in Slots
      BY <1>1
    <3> HIDE DEF wp
    <3>3. Slot(wp - s + i - 1) \in Slots /\ (Slot(wp - s + i - 1) - wp) % MaxSize = MaxSize - s + i - 1
      BY <3>1, <3>2, SlotBefore
    <3> QED
      BY <3>3 DEF wp
  <2> HIDE DEF y
  <2>2. ~(nth(y) <= k)
    <3> DEFINE m == (y - r.wp) % MaxSize
    <3>1. m = MaxSize - s + i - 1 /\ s + k <= MaxSize
      BY <2>1
    <3>2. nth(y) = m + 1
      OBVIOUS
    <3> HIDE DEF m, nth, k
    <3>3. ~(m + 1 <= k)
      BY <1>1, <3>1
    <3> QED
      BY <3>2, <3>3
  <2>3. d[y] = IF nth(y) <= k THEN bytes[nth(y)] ELSE r.data[y]
    BY <2>1 DEF d
  <2>4. d[y] = r.data[y]
    <3> HIDE DEF nth, k
    <3> QED
      BY <2>2, <2>3
  <2> QED
    BY <2>4 DEF y
<1>5. ASSUME NEW i \in 1 .. k PROVE d[Lap(r.wp + i - 1)] = bytes[i]
  <2> DEFINE y == Lap(r.wp + i - 1)
  <2>1. y \in Slots /\ (y - r.wp) % MaxSize = i - 1
    <3>1. i \in 1 .. MaxSize
      <4> HIDE DEF k
      <4>1. s + k <= MaxSize
        BY DEF k
      <4> QED
        BY <1>1, <4>1
    <3> DEFINE wp == r.wp
    <3>2. wp \in Slots
      BY <1>1
    <3> HIDE DEF wp
    <3>3. Lap(wp + i - 1) \in Slots /\ (Lap(wp + i - 1) - wp) % MaxSize = i - 1
      BY <3>1, <3>2, SlotAhead
    <3> QED
      BY <3>3 DEF wp
  <2> HIDE DEF y
  <2>2. nth(y) = i
    <3> DEFINE m == (y - r.wp) % MaxSize
    <3>1. m = i - 1
      BY <2>1
    <3>2. nth(y) = m + 1
      OBVIOUS
    <3> HIDE DEF m, nth, k
    <3>3. m + 1 = i
      BY <1>1, <3>1
    <3> QED
      BY <3>2, <3>3
  <2>3. d[y] = IF nth(y) <= k THEN bytes[nth(y)] ELSE r.data[y]
    BY <2>1 DEF d
  <2>4. i <= k
    BY <1>1
  <2>5. d[y] = bytes[i]
    <3> HIDE DEF nth, k
    <3> QED
      BY <2>2, <2>3, <2>4
  <2> QED
    BY <2>5 DEF y
<1>6. ASSUME NEW T, r.data \in [Slots -> T], bytes \in Seq(T) PROVE d \in [Slots -> T]
  <2> SUFFICES ASSUME NEW i \in Slots
               PROVE (IF nth(i) <= Len(bytes) THEN bytes[nth(i)] ELSE r.data[i]) \in T
    BY DEF d
  <2>1. nth(i) \in Int /\ nth(i) >= 1
    BY <1>1 DEF Slots
  <2>2. CASE nth(i) <= Len(bytes)
    <3>1. nth(i) \in 1 .. Len(bytes)
      BY <1>1, <2>1, <2>2
    <3> HIDE DEF nth
    <3> QED
      BY <1>6, <2>2, <3>1, ElementOfSeq
  <2>3. CASE ~(nth(i) <= Len(bytes))
    <3> HIDE DEF nth
    <3> QED
      BY <1>6, <2>3
  <2> QED
    BY <2>2, <2>3
<1> QED
  BY <1>3, <1>4, <1>5, <1>6 DEF f, w, k

\* The slots to read are those from the read pointer on, in order.
LEMMA ReadingIs ==
  ASSUME NEW r \in RingType, 0 <= r.rda, r.rda <= MaxSize, r.rda # 0
  PROVE  \/ \E a \in Seq(Slots) :
              /\ Reading(r) = <<a>> /\ Len(a) = r.rda
              /\ \A i \in 1 .. Len(a) : a[i] = Lap(r.rp + i - 1)
         \/ \E a \in Seq(Slots), b \in Seq(Slots) :
              /\ Reading(r) = <<a, b>> /\ Len(a) + Len(b) = r.rda
              /\ \A i \in 1 .. Len(a) : a[i] = Lap(r.rp + i - 1)
              /\ \A i \in 1 .. Len(b) : b[i] = Lap(r.rp + Len(a) + i - 1)
<1> DEFINE upper == MaxSize - r.rp
           run(a, n) == [i \in 1 .. n |-> a + i - 1]
<1>0. r.rda \in Int /\ r.rp \in Int /\ 0 <= r.rp /\ r.rp < MaxSize /\ MaxSize \in Nat
  BY SizeFacts DEF RingType, Slots
<1>1. \A a \in Slots, n \in Nat : a + n <= MaxSize =>
        /\ run(a, n) \in Seq(Slots) /\ Len(run(a, n)) = n
        /\ \A i \in 1 .. n : run(a, n)[i] = a + i - 1
  <2> SUFFICES ASSUME NEW a \in Slots, NEW n \in Nat, a + n <= MaxSize
               PROVE  /\ run(a, n) \in Seq(Slots) /\ Len(run(a, n)) = n
                      /\ \A i \in 1 .. n : run(a, n)[i] = a + i - 1
    OBVIOUS
  <2>1. \A i \in 1 .. n : a + i - 1 \in Slots
    BY <1>0 DEF Slots
  <2> QED
    BY <2>1
<1>2. CASE r.rda <= upper
  <2>1. r.rda \in 1 .. upper /\ r.rda \in Nat /\ r.rp \in Slots /\ r.rp + r.rda <= MaxSize /\ ~(r.rda > upper)
    BY <1>0, <1>2 DEF Slots
  <2>2. Reading(r) = <<run(r.rp, r.rda)>>
    BY <1>0, <2>1 DEF Reading
  <2> DEFINE a == run(r.rp, r.rda)
  <2>3. a \in Seq(Slots) /\ Len(a) = r.rda /\ \A i \in 1 .. r.rda : a[i] = r.rp + i - 1
    BY <1>1, <2>1
  <2>4. \A i \in 1 .. r.rda : r.rp + i - 1 = Lap(r.rp + i - 1)
    BY <1>0, <2>1 DEF Lap
  <2>5. Reading(r) = <<a>>
    BY <2>2
  <2> HIDE DEF a, run
  <2>6. Len(a) = r.rda /\ \A i \in 1 .. Len(a) : a[i] = Lap(r.rp + i - 1)
    BY <2>3, <2>4
  <2> QED
    BY <2>3, <2>5, <2>6
<1>3. CASE r.rda > upper
  <2>1. /\ r.rda \notin 1 .. upper /\ upper \in Nat /\ r.rp \in Slots /\ r.rp + upper <= MaxSize
        /\ r.rda - upper \in Nat /\ 0 \in Slots /\ 0 + (r.rda - upper) <= MaxSize
        /\ upper + (r.rda - upper) = r.rda
    BY <1>0, <1>3 DEF Slots
  <2>2. Reading(r) = <<run(r.rp, upper), run(0, r.rda - upper)>>
    BY <1>0, <1>3, <2>1 DEF Reading
  <2> DEFINE a == run(r.rp, upper)
             b == run(0, r.rda - upper)
  <2>3. a \in Seq(Slots) /\ Len(a) = upper /\ \A i \in 1 .. upper : a[i] = r.rp + i - 1
    BY <1>1, <2>1
  <2>4. b \in Seq(Slots) /\ Len(b) = r.rda - upper /\ \A i \in 1 .. r.rda - upper : b[i] = 0 + i - 1
    BY <1>1, <2>1
  <2>5. Reading(r) = <<a, b>> /\ Len(a) + Len(b) = r.rda
    BY <2>1, <2>2, <2>3, <2>4
  <2>6. \A i \in 1 .. upper : r.rp + i - 1 = Lap(r.rp + i - 1)
    BY <1>0 DEF Lap
  <2>7. \A i \in 1 .. r.rda - upper : 0 + i - 1 = Lap(r.rp + upper + i - 1)
    BY <1>0 DEF Lap
  <2> HIDE DEF a, b, run, upper
  <2>8. \A i \in 1 .. Len(a) : a[i] = Lap(r.rp + i - 1)
    BY <2>3, <2>6
  <2>9. \A i \in 1 .. Len(b) : b[i] = Lap(r.rp + Len(a) + i - 1)
    BY <2>3, <2>4, <2>7
  <2> QED
    BY <2>3, <2>4, <2>5, <2>8, <2>9
<1> QED
  BY <1>0, <1>2, <1>3

\* tcp_write of a run: the segments stay, and a run it takes follows them.
LEMMA TcpWriteIs ==
  ASSUME NEW segs \in Seq(Slots), NEW run \in Seq(Slots), NEW mem
  PROVE  LET new == TcpWrite(segs, run, mem)
         IN  /\ new \in Seq(Slots) /\ \A i \in 1 .. Len(segs) : new[i] = segs[i]
             /\ \/ new = segs
                \/ /\ Len(new) = Len(segs) + Len(run)
                   /\ \A i \in 1 .. Len(run) : new[Len(segs) + i] = run[i]
<1> DEFINE c == segs \o run
<1>1. /\ Len(segs) \in Nat /\ Len(run) \in Nat /\ c \in Seq(Slots)
      /\ Len(c) = Len(segs) + Len(run)
      /\ \A i \in 1 .. Len(segs) + Len(run) :
           c[i] = IF i <= Len(segs) THEN segs[i] ELSE run[i - Len(segs)]
  BY ConcatProperties, LenProperties
<1>2. TcpWrite(segs, run, mem) = segs \/ TcpWrite(segs, run, mem) = c
  BY DEF TcpWrite
<1> HIDE DEF c
<1>3. \A i \in 1 .. Len(segs) : c[i] = segs[i]
  BY <1>1
<1>4. ASSUME NEW i \in 1 .. Len(run) PROVE c[Len(segs) + i] = run[i]
  <2> DEFINE x == Len(segs) + i
  <2>1. x \in 1 .. Len(segs) + Len(run) /\ ~(x <= Len(segs)) /\ x - Len(segs) = i
    BY <1>1
  <2> HIDE DEF x
  <2>2. c[x] = run[x - Len(segs)]
    BY <1>1, <2>1
  <2> QED
    BY <2>1, <2>2 DEF x
<1> QED
  BY <1>1, <1>2, <1>3, <1>4

\* All runs of the ring to lwIP: what it takes are the slots from the read pointer on,
\* unless it refuses the first of two runs and takes the second.
LEMMA WritesAre ==
  ASSUME NEW r \in RingType, 0 <= r.rda, r.rda # 0, r.rda <= MaxSize, NEW segs \in Seq(Slots), NEW mem
  PROVE  LET runs == Reading(r)
             one == TcpWrite(segs, runs[1], 1 \in mem)
             all == IF Len(runs) = 2 THEN TcpWrite(one, runs[2], 2 \in mem) ELSE one
         IN  /\ all \in Seq(Slots) /\ Len(all) \in Nat
             /\ Len(segs) <= Len(all) /\ Len(all) <= Len(segs) + r.rda
             /\ \A i \in 1 .. Len(segs) : all[i] = segs[i]
             /\ \/ one # all /\ Len(all) # Len(segs) + r.rda
                \/ \A i \in 1 .. Len(all) - Len(segs) : all[Len(segs) + i] = Lap(r.rp + i - 1)
<1>0. Len(segs) \in Nat /\ r.rda \in Int /\ r.rp \in Int
  BY DEF RingType, Slots
<1>1. CASE \E a \in Seq(Slots) :
              /\ Reading(r) = <<a>> /\ Len(a) = r.rda
              /\ \A i \in 1 .. Len(a) : a[i] = Lap(r.rp + i - 1)
  <2>1. PICK a \in Seq(Slots) :
              /\ Reading(r) = <<a>> /\ Len(a) = r.rda
              /\ \A i \in 1 .. Len(a) : a[i] = Lap(r.rp + i - 1)
    BY <1>1
  <2> DEFINE one == TcpWrite(segs, a, 1 \in mem)
  <2>2. /\ one \in Seq(Slots) /\ \A i \in 1 .. Len(segs) : one[i] = segs[i]
        /\ \/ one = segs
           \/ /\ Len(one) = Len(segs) + Len(a)
              /\ \A i \in 1 .. Len(a) : one[Len(segs) + i] = a[i]
    BY TcpWriteIs
  <2>3. Reading(r)[1] = a /\ Len(Reading(r)) # 2
    BY <2>1
  <2> HIDE DEF one
  <2>4. Len(one) \in Nat /\ Len(segs) <= Len(one) /\ Len(one) <= Len(segs) + r.rda
    <3>1. Len(one) = Len(segs) \/ Len(one) = Len(segs) + r.rda
      BY <2>1, <2>2
    <3> QED
      BY <1>0, <3>1
  <2>5. \A i \in 1 .. Len(one) - Len(segs) : one[Len(segs) + i] = Lap(r.rp + i - 1)
    <3>1. CASE one = segs
      BY <1>0, <3>1
    <3>2. CASE /\ Len(one) = Len(segs) + Len(a)
               /\ \A i \in 1 .. Len(a) : one[Len(segs) + i] = a[i]
      <4>1. Len(one) - Len(segs) = Len(a)
        BY <1>0, <2>1, <3>2
      <4> QED
        BY <2>1, <3>2, <4>1
    <3> QED
      BY <2>2, <3>1, <3>2
  <2> QED
    BY <2>2, <2>3, <2>4, <2>5 DEF one
<1>2. CASE \E a \in Seq(Slots), b \in Seq(Slots) :
              /\ Reading(r) = <<a, b>> /\ Len(a) + Len(b) = r.rda
              /\ \A i \in 1 .. Len(a) : a[i] = Lap(r.rp + i - 1)
              /\ \A i \in 1 .. Len(b) : b[i] = Lap(r.rp + Len(a) + i - 1)
  <2>1. PICK a \in Seq(Slots), b \in Seq(Slots) :
              /\ Reading(r) = <<a, b>> /\ Len(a) + Len(b) = r.rda
              /\ \A i \in 1 .. Len(a) : a[i] = Lap(r.rp + i - 1)
              /\ \A i \in 1 .. Len(b) : b[i] = Lap(r.rp + Len(a) + i - 1)
    BY <1>2
  <2>2. Len(a) \in Nat /\ Len(b) \in Nat
    OBVIOUS
  <2> DEFINE one == TcpWrite(segs, a, 1 \in mem)
             all == TcpWrite(one, b, 2 \in mem)
             s == Len(segs)
             p == Len(a)
             q == Len(b)
             rp == r.rp
  <2>3. /\ one \in Seq(Slots) /\ \A i \in 1 .. s : one[i] = segs[i]
        /\ \/ one = segs
           \/ Len(one) = s + p /\ \A i \in 1 .. p : one[s + i] = a[i]
    <3>1. /\ one \in Seq(Slots) /\ \A i \in 1 .. Len(segs) : one[i] = segs[i]
          /\ \/ one = segs
             \/ /\ Len(one) = Len(segs) + Len(a)
                /\ \A i \in 1 .. Len(a) : one[Len(segs) + i] = a[i]
      BY TcpWriteIs
    <3> HIDE DEF one
    <3> QED
      BY <3>1
  <2> HIDE DEF one
  <2>4. /\ all \in Seq(Slots) /\ \A i \in 1 .. Len(one) : all[i] = one[i]
        /\ \/ all = one
           \/ Len(all) = Len(one) + q /\ \A i \in 1 .. q : all[Len(one) + i] = b[i]
    BY <2>3, TcpWriteIs
  <2>5. Reading(r)[1] = a /\ Reading(r)[2] = b /\ Len(Reading(r)) = 2
    BY <2>1
  <2>6. /\ p + q = r.rda /\ p \in Nat /\ q \in Nat /\ s \in Nat /\ rp \in Int
        /\ \A i \in 1 .. p : a[i] = Lap(rp + i - 1)
        /\ \A i \in 1 .. q : b[i] = Lap(rp + p + i - 1)
    BY <1>0, <2>1, <2>2
  <2> HIDE DEF all, s, p, q, rp
  <2>7. Len(one) \in Nat /\ (Len(one) = s \/ Len(one) = s + p)
    BY <2>3, <2>6 DEF s
  <2>8. Len(all) \in Nat /\ (Len(all) = Len(one) \/ Len(all) = Len(one) + q)
    BY <2>4, <2>6, <2>7
  <2>9. s <= Len(all) /\ Len(all) <= s + r.rda
    BY <2>6, <2>7, <2>8
  <2>10. \A i \in 1 .. s : all[i] = segs[i]
    BY <2>3, <2>4, <2>6, <2>7
  <2>11. \/ one # all /\ Len(all) # s + r.rda
         \/ \A i \in 1 .. Len(all) - s : all[s + i] = Lap(rp + i - 1)
    <3>1. CASE one = segs /\ all = one
      <4>1. Len(all) - s = 0
        BY <2>6, <3>1 DEF s
      <4> QED
        BY <4>1
    <3>2. CASE one = segs /\ all # one
      <4>1. Len(one) = s /\ Len(all) = s + q
        BY <2>4, <3>2 DEF s
      <4>2. CASE p = 0
        <5>1. \A i \in 1 .. q : b[i] = Lap(rp + i - 1)
          BY <2>6, <4>2
        <5>2. Len(all) - s = q
          BY <2>6, <4>1
        <5> QED
          BY <2>4, <3>2, <4>1, <5>1, <5>2
      <4>3. CASE p # 0
        BY <2>6, <3>2, <4>1, <4>3
      <4> QED
        BY <4>2, <4>3
    <3>3. CASE Len(one) = s + p /\ (\A i \in 1 .. p : one[s + i] = a[i])
      <4>1. ASSUME NEW i \in 1 .. Len(all) - s, i <= p PROVE all[s + i] = Lap(rp + i - 1)
        <5>1. s + i \in 1 .. Len(one) /\ i \in 1 .. p
          BY <2>6, <2>8, <3>3, <4>1
        <5> QED
          BY <2>4, <2>6, <3>3, <5>1
      <4>2. ASSUME NEW i \in 1 .. Len(all) - s, ~(i <= p) PROVE all[s + i] = Lap(rp + i - 1)
        <5>1. Len(all) = Len(one) + q /\ all # one
          BY <2>4, <2>6, <2>8, <3>3, <4>2
        <5>2. i - p \in 1 .. q /\ Len(one) + (i - p) = s + i /\ rp + p + (i - p) - 1 = rp + i - 1
          <6> DEFINE o == Len(one)
                     c == Len(all)
          <6>1. /\ o = s + p /\ c = o + q /\ i \in 1 .. c - s /\ ~(i <= p)
                /\ p \in Nat /\ q \in Nat /\ s \in Nat /\ rp \in Int /\ o \in Nat /\ c \in Nat
            BY <2>6, <2>7, <2>8, <3>3, <4>2, <5>1
          <6> HIDE DEF o, c
          <6>2. i - p \in 1 .. q /\ o + (i - p) = s + i /\ rp + p + (i - p) - 1 = rp + i - 1
            BY <6>1
          <6> QED
            BY <6>2 DEF o
        <5>3. all[Len(one) + (i - p)] = b[i - p] /\ b[i - p] = Lap(rp + p + (i - p) - 1)
          BY <2>4, <2>6, <5>1, <5>2
        <5> QED
          BY <5>2, <5>3
      <4> QED
        BY <4>1, <4>2
    <3> QED
      BY <2>3, <3>1, <3>2, <3>3
  <2> QED
    BY <2>4, <2>5, <2>8, <2>9, <2>10, <2>11 DEF one, all, s, rp
<1> QED
  BY <1>1, <1>2, ReadingIs

\* What lwIP has after the first run of the ring r, and after all of them.
FirstSent(r, segs, mem) == TcpWrite(segs, Reading(r)[1], 1 \in mem)
AllSent(r, segs, mem) ==
  IF Len(Reading(r)) = 2 THEN TcpWrite(FirstSent(r, segs, mem), Reading(r)[2], 2 \in mem)
  ELSE FirstSent(r, segs, mem)

\* The ring r, filled with bytes and read to its end, has given lwIP what follows got.
HandedOver(r, segs, bytes, got, mem) ==
  LET f == WriteFinish(r, bytes)
      n == Len(bytes)
      one == FirstSent(f, segs, mem)
      all == AllSent(f, segs, mem)
      h == ReadFinish(f, f.rda)
  IN  /\ f.rda = n /\ h.rda = 0 /\ h.rp = h.wp /\ h.data = f.data
      /\ all \in Seq(Slots) /\ Len(all) \in Nat
      /\ Len(segs) <= Len(all) /\ Len(all) <= Len(segs) + n
      /\ mem = {} => Len(all) = Len(segs) + n
      /\ \/ one # all /\ Len(all) # Len(segs) + n
         \/ /\ \A i \in 1 .. Len(all) : h.data[all[i]] = Len(got) + i
            /\ Len(all) = Len(segs) + n =>
                 \A i \in 1 .. Len(all) : all[i] = Slot(h.wp - Len(all) + i - 1)

\* Bytes that follow what lwIP sends go into the ring and from there to lwIP: they
\* follow it there too, unless memory refuses a run.
LEMMA RingHands ==
  ASSUME NEW r \in RingType, r.rda = 0, r.rp = r.wp, NEW segs \in Seq(Slots),
         NEW got \in Seq(Int), NEW bytes \in Seq(Int), Len(bytes) # 0,
         Len(segs) + Len(bytes) <= MaxSize,
         \A i \in 1 .. Len(segs) : segs[i] = Slot(r.wp - Len(segs) + i - 1),
         \A i \in 1 .. Len(segs) : r.data[segs[i]] = Len(got) + i,
         \A i \in 1 .. Len(bytes) : bytes[i] = Len(got) + Len(segs) + i,
         NEW mem
  PROVE  HandedOver(r, segs, bytes, got, mem)
<1> DEFINE n == Len(bytes)
           g == Len(got)
<1>0. n \in Nat /\ g \in Nat /\ n # 0 /\ Len(segs) + n <= MaxSize
      /\ (\A i \in 1 .. Len(segs) : r.data[segs[i]] = g + i)
      /\ \A i \in 1 .. n : bytes[i] = g + Len(segs) + i
  OBVIOUS
<1> HIDE DEF n, g
<1> DEFINE f == WriteFinish(r, bytes)
           runs == Reading(f)
           one == TcpWrite(segs, runs[1], 1 \in mem)
           all == IF Len(runs) = 2 THEN TcpWrite(one, runs[2], 2 \in mem) ELSE one
           h == ReadFinish(f, f.rda)
           s == Len(segs)
           w == r.wp
           v == (w + n) % MaxSize
<1>1. /\ s \in Nat /\ n \in Nat /\ w \in Slots /\ s + n <= MaxSize /\ MaxSize \in Nat \ {0}
      /\ r.rda \in Int
  BY <1>0, SizeFacts DEF RingType
<1>2. f \in RingType /\ f.rda = r.rda + n
  <2>1. f \in RingType /\ f.rda = r.rda + Len(bytes)
    BY WriteGives
  <2> HIDE DEF f
  <2> QED
    BY <2>1 DEF n
<1>3. f.rda = n
  <2> HIDE DEF f
  <2> QED
    BY <1>1, <1>2
<1>4. /\ f.rp = w /\ f.wp = v
      /\ \A i \in 1 .. s : f.data[Slot(w - s + i - 1)] = r.data[Slot(w - s + i - 1)]
      /\ \A i \in 1 .. n : f.data[Lap(w + i - 1)] = bytes[i]
  <2>1. Len(segs) \in Nat /\ Len(segs) + Len(bytes) <= MaxSize
    BY <1>0 DEF n
  <2>2. /\ f.rp = r.rp /\ f.wp = (r.wp + Len(bytes)) % MaxSize
        /\ \A i \in 1 .. Len(segs) :
             f.data[Slot(r.wp - Len(segs) + i - 1)] = r.data[Slot(r.wp - Len(segs) + i - 1)]
        /\ \A i \in 1 .. Len(bytes) : f.data[Lap(r.wp + i - 1)] = bytes[i]
    BY <2>1, WriteHolds
  <2> HIDE DEF f
  <2> QED
    BY <2>2 DEF n
<1> HIDE DEF f
<1>5. h = [f EXCEPT !.rp = v, !.rda = 0]
  <2>1. f.rp + f.rda = w + n /\ f.rda - f.rda = 0
    BY <1>1, <1>3, <1>4
  <2>2. h = [f EXCEPT !.rp = (f.rp + f.rda) % MaxSize, !.rda = f.rda - f.rda]
    BY <1>2 DEF ReadFinish, RingType
  <2> HIDE DEF h
  <2> QED
    BY <2>1, <2>2
<1> HIDE DEF h, v
<1>6. h.rda = 0 /\ h.rp = v /\ h.wp = v /\ h.data = f.data
  BY <1>2, <1>4, <1>5 DEF RingType
<1>7. 0 <= f.rda /\ f.rda # 0 /\ f.rda <= MaxSize /\ Len(segs) + f.rda <= MaxSize
  <2>1. 0 <= n /\ n # 0 /\ n <= MaxSize /\ s + n <= MaxSize
    BY <1>0, <1>1
  <2> QED
    BY <1>3, <2>1
<1>8. /\ all \in Seq(Slots) /\ Len(all) \in Nat
      /\ Len(segs) <= Len(all) /\ Len(all) <= Len(segs) + f.rda
      /\ \A i \in 1 .. Len(segs) : all[i] = segs[i]
      /\ \/ one # all /\ Len(all) # Len(segs) + f.rda
         \/ \A i \in 1 .. Len(all) - Len(segs) : all[Len(segs) + i] = Lap(f.rp + i - 1)
  <2>1. f \in RingType /\ 0 <= f.rda /\ f.rda # 0 /\ f.rda <= MaxSize
    BY <1>2, <1>7
  <2>2. LET a == TcpWrite(segs, Reading(f)[1], 1 \in mem)
            b == IF Len(Reading(f)) = 2 THEN TcpWrite(a, Reading(f)[2], 2 \in mem) ELSE a
        IN  /\ b \in Seq(Slots) /\ Len(b) \in Nat
            /\ Len(segs) <= Len(b) /\ Len(b) <= Len(segs) + f.rda
            /\ \A i \in 1 .. Len(segs) : b[i] = segs[i]
            /\ \/ a # b /\ Len(b) # Len(segs) + f.rda
               \/ \A i \in 1 .. Len(b) - Len(segs) : b[Len(segs) + i] = Lap(f.rp + i - 1)
    BY <2>1, WritesAre, SMTT(60)
  <2> QED
    BY <2>2
<1>9. mem = {} => Len(all) = Len(segs) + f.rda
  BY <1>2, <1>7, WritesGive
<1> HIDE DEF runs, one, all
<1>10. CASE \A i \in 1 .. Len(all) - s : all[s + i] = Lap(w + i - 1)
  <2> DEFINE c == Len(all)
  <2>1. c \in Nat /\ s <= c /\ c <= s + n /\ \A i \in 1 .. s : all[i] = segs[i]
    BY <1>3, <1>8
  <2>2. /\ \A i \in 1 .. s : segs[i] = Slot(w - s + i - 1)
        /\ \A i \in 1 .. s : r.data[segs[i]] = g + i
        /\ \A i \in 1 .. n : bytes[i] = g + s + i
        /\ g \in Nat
    BY <1>0
  <2>3. \A i \in 1 .. c - s : all[s + i] = Lap(w + i - 1)
    BY <1>10
  <2> HIDE DEF c, s, w
  <2>4. \A i \in 1 .. c : i \in 1 .. s \/ (i - s \in 1 .. c - s /\ i - s \in 1 .. n /\ s + (i - s) = i)
    BY <1>1, <2>1
  <2>5. ASSUME NEW i \in 1 .. c PROVE h.data[all[i]] = g + i
    <3>1. CASE i \in 1 .. s
      <4>1. f.data[segs[i]] = r.data[segs[i]]
        BY <1>4, <2>2, <3>1
      <4> QED
        BY <1>6, <2>1, <2>2, <3>1, <4>1
    <3>2. CASE ~(i \in 1 .. s)
      <4> DEFINE m == i - s
      <4>1. m \in 1 .. c - s /\ m \in 1 .. n /\ s + m = i /\ g + s + m = g + i
        BY <1>0, <1>1, <2>1, <2>4, <3>2
      <4> HIDE DEF m
      <4>2. all[i] = Lap(w + m - 1)
        BY <2>3, <4>1
      <4>3. f.data[Lap(w + m - 1)] = bytes[m] /\ bytes[m] = g + s + m
        BY <1>4, <2>2, <4>1
      <4> QED
        BY <1>6, <4>1, <4>2, <4>3
    <3> QED
      BY <3>1, <3>2
  <2>6. ASSUME c = s + n, NEW i \in 1 .. c PROVE all[i] = Slot(h.wp - c + i - 1)
    <3>1. /\ \A x \in 1 .. s : Slot(v - (s + n) + x - 1) = Slot(w - s + x - 1)
          /\ \A x \in 1 .. n : Slot(v - (s + n) + (s + x) - 1) = Lap(w + x - 1)
      <4>1. s \in Nat /\ n \in Nat /\ w \in Slots /\ s + n <= MaxSize
        BY <1>1
      <4>2. /\ (w + n) % MaxSize \in Slots
            /\ \A x \in 1 .. s : Slot(((w + n) % MaxSize) - (s + n) + x - 1) = Slot(w - s + x - 1)
            /\ \A x \in 1 .. n : Slot(((w + n) % MaxSize) - (s + n) + (s + x) - 1) = Lap(w + x - 1)
        BY <4>1, SlotMoves
      <4> QED
        BY <4>2, Zenon DEF v
    <3>2. CASE i \in 1 .. s
      BY <1>6, <2>1, <2>2, <2>6, <3>1, <3>2
    <3>3. CASE ~(i \in 1 .. s)
      <4> DEFINE m == i - s
      <4>1. m \in 1 .. c - s /\ m \in 1 .. n /\ s + m = i
        BY <2>4, <3>3
      <4> HIDE DEF m
      <4>2. all[i] = Lap(w + m - 1)
        BY <2>3, <4>1
      <4>3. Slot(v - (s + n) + (s + m) - 1) = Lap(w + m - 1)
        BY <3>1, <4>1
      <4> QED
        BY <1>6, <2>6, <4>1, <4>2, <4>3
    <3> QED
      BY <3>2, <3>3
  <2> QED
    BY <1>3, <1>6, <1>8, <1>9, <2>5, <2>6 DEF c, s, n, g, h, f, all, one, runs, FirstSent, AllSent, HandedOver
<1>11. CASE one # all /\ Len(all) # s + n
  BY <1>3, <1>6, <1>8, <1>9, <1>11 DEF n, s, h, f, all, one, runs, FirstSent, AllSent, HandedOver
<1> QED
  BY <1>3, <1>4, <1>8, <1>10, <1>11

-----------------------------------------------------------------------------
(* Server to app. *)

\* The splice reads bytes and nothing but bytes, the next ones of the server's stream.
LEMMA SpliceBInput ==
  ASSUME SessionInv, StreamInv, task.pc = "splice_b", NEW n \in 0 .. Len(fd.in)
  PROVE  LET a == mode.down - DownTodo - DownIn
         IN  /\ a \in Nat /\ DownIn = Len(fd.in) /\ a + DownIn <= NDown
             /\ Take(fd.in, n) = Run(a, n) /\ Len(Take(fd.in, n)) = n
             /\ Take(fd.in, n) \in Seq(Int) /\ Take(fd.in, n) \in Seq(0 .. NDown)
             /\ \A i \in 1 .. n : Take(fd.in, n)[i] = a + i
             /\ Drop(fd.in, n) \in Seq(Int) /\ Len(Drop(fd.in, n)) = DownIn - n
             /\ Payload(Drop(fd.in, n)) = Run(a + n, DownIn - n)
             /\ \A i \in 1 .. DownIn - n : Drop(fd.in, n)[i] \notin Messages
<1>0. Stages /\ Downward
  BY DEF StreamInv
<1> DEFINE d == mode.down
           l == DownTodo
           k == DownIn
           a == d - l - k
           s == fd.in
           t == Take(s, n)
           e == Drop(s, n)
<1>1. d \in Nat /\ l \in Nat /\ k \in Nat /\ NDown \in Nat /\ d <= NDown /\ k + l <= d
  <2>1. l \in Nat /\ k \in Nat
    BY Lengths
  <2>2. d \in Nat /\ NDown \in Nat /\ d \in 0 .. NDown
    BY CaseIs
  <2>3. k + l <= d
    BY <1>0 DEF Downward
  <2> HIDE DEF d, l, k
  <2> QED
    BY <2>1, <2>2, <2>3
<1>2. s \in Seq(Int) /\ Len(s) \in Nat
  BY Lengths
<1>3. \A i \in 1 .. Len(s) : s[i] \notin Messages
  <2>1. CASE fd.rst
    <3>1. Len(s) = 0
      BY <1>0, <2>1 DEF Stages
    <3> QED
      BY <3>1
  <2>2. CASE ~fd.rst
    <3>1. task.step = Len(Handshake(mode)) + 1
      BY <1>0 DEF Stages
    <3>2. Pending(mode, task.step) = 0
      BY <3>1, CaseIs, PendingEnd
    <3>3. \A i \in 1 .. Len(fd.in) : fd.in[i] \in Messages <=> i <= Pending(mode, task.step)
      BY <1>0, <2>2 DEF Stages
    <3> HIDE DEF s
    <3>4. \A i \in 1 .. Len(s) : s[i] \in Messages <=> i <= 0
      BY <3>2, <3>3 DEF s
    <3> QED
      BY <1>2, <3>4
  <2> QED
    BY <2>1, <2>2
<1>4. Payload(s) = s
  <2> HIDE DEF s
  <2>1. Strip(s, Messages) = s
    BY <1>2, <1>3, StripAll
  <2> QED
    BY <2>1 DEF Payload
<1>5. k = Len(s)
  BY <1>4 DEF DownIn
<1>6. s = Run(a, k)
  BY <1>0, <1>4 DEF Downward
<1>7. n \in 0 .. k
  BY <1>5
<1> HIDE DEF d, l, k, s
<1>8. a \in Nat /\ a + k <= NDown /\ n \in Nat /\ k - n \in Nat /\ a + n \in Nat /\ n <= k
  BY <1>1, <1>7
<1> HIDE DEF a
<1>9. t = Run(a, n) /\ e = Run(a + n, k - n)
  <2>1. a \in Int /\ k \in Nat
    BY <1>1, <1>8
  <2>2. Take(Run(a, k), n) = Run(a, n) /\ Drop(Run(a, k), n) = Run(a + n, k - n)
    BY <1>7, <2>1, RunCut
  <2> QED
    BY <1>6, <2>2
<1>10. t \in Seq(Int) /\ Len(t) = n /\ \A i \in 1 .. n : t[i] = a + i
  <2>1. Run(a, n) \in Seq(Int) /\ Len(Run(a, n)) = n /\ \A i \in 1 .. n : Run(a, n)[i] = a + i
    BY <1>8, RunIs
  <2> HIDE DEF t
  <2> QED
    BY <1>9, <2>1
<1> DEFINE b == a + n
           m == k - n
<1>11. b \in Nat /\ m \in Nat
  BY <1>8
<1>12. e \in Seq(Int) /\ Len(e) = m /\ Payload(e) = Run(b, m) /\ \A i \in 1 .. m : e[i] \notin Messages
  <2>1. e = Run(b, m)
    BY <1>9
  <2> HIDE DEF b, m, e
  <2>2. e \in Seq(Int) /\ Len(e) = m /\ \A i \in 1 .. m : e[i] = b + i
    <3>1. b \in Int /\ m \in Nat
      BY <1>11
    <3>2. Run(b, m) \in Seq(Int) /\ Len(Run(b, m)) = m /\ \A i \in 1 .. m : Run(b, m)[i] = b + i
      BY <3>1, RunIs
    <3> QED
      BY <2>1, <3>2
  <2>3. Payload(e) = Run(b, m)
    BY <1>11, <2>1, RunPayload
  <2>4. \A i \in 1 .. m : e[i] \notin Messages
    BY <1>11, <2>2, MessagesBelow
  <2> QED
    BY <2>2, <2>3, <2>4
<1>13. t \in Seq(0 .. NDown)
  <2>1. \A i \in 1 .. n : a + i \in 0 .. NDown
    BY <1>1, <1>8
  <2>2. Run(a, n) \in Seq(0 .. NDown)
    BY <1>8, <2>1 DEF Run
  <2> HIDE DEF t
  <2> QED
    BY <1>9, <2>2
<1> HIDE DEF t, e
<1> QED
  BY <1>5, <1>8, <1>9, <1>10, <1>12, <1>13 DEF t, e, a, d, l, k, s

\* tcp_splice_b takes the next n bytes from the socket and either hands them to lwIP,
\* keeps them because the app is gone, finds nothing to do, or finds the end.
LEMMA SpliceBMoves ==
  ASSUME SessionInv, StreamInv, tcp_splice_b, res.b >= 0, task.pc = "splice_b", task.state # "STOPPED"
  PROVE  \E n \in 0 .. Len(fd.in) :
           LET s == Len(pcb.segs)
               t == Len(pcb'.segs)
           IN  /\ fd' = [fd EXCEPT !.in = Drop(fd.in, n)]
               /\ app'.sent = app.sent /\ app'.got = app.got /\ app'.end = app.end
               /\ ring'.data \in [Slots -> 0 .. NDown]
               /\ \/ ~pcb.ref /\ pcb' = pcb /\ app' = app
                  \/ /\ pcb.ref /\ pcb'.lw = pcb.lw /\ t \in Nat /\ s <= t /\ t <= s + n
                     /\ app'.cut # "hole" => \A i \in 1 .. t : ring'.data[pcb'.segs[i]] = Len(app.got) + i
                     /\ app'.cut = "no" => t = s + n
                     /\ res'.b >= 0 =>
                          /\ app'.cut = "no" /\ ring'.rda = 0 /\ ring'.rp = ring'.wp
                          /\ \A i \in 1 .. t : pcb'.segs[i] = Slot(ring'.wp - t + i - 1)
                  \/ pcb.ref /\ n = 0 /\ pcb' = pcb /\ ring' = ring /\ app' = app
                  \/ /\ pcb.ref /\ n = 0 /\ pcb'.segs = pcb.segs /\ ring' = ring /\ res'.b = -1
                     /\ pcb'.lw = (IF pcb.lw = "CLOSE_WAIT" THEN "LAST_ACK" ELSE "FIN_WAIT_1")
                     /\ \/ app'.cut = "server"
                        \/ app'.cut = "no" /\ ~fd.rst /\ fd.eof /\ fd.in = <<>>
<1>0. /\ res \in ResType /\ fd \in FdType /\ pcb \in PcbType /\ ring \in RingType /\ app \in AppType
      /\ Ledger /\ Stages /\ Downward /\ Slotted /\ DownEnds
  BY Parts DEF StreamInv
<1> DEFINE space == Writing(ring)
           m == Least(Len(fd.in), space)
           got == CASE space = 0 -> 0
                    [] space > 0 /\ fd.rst -> -1
                    [] space > 0 /\ ~fd.rst /\ m = 0 -> IF fd.eof THEN -1 ELSE 0
                    [] OTHER -> 1
           filled == IF got = 1 THEN WriteFinish(ring, Take(fd.in, m)) ELSE ring
           n == IF got = 1 THEN m ELSE 0
           s == Len(pcb.segs)
           g == Len(app.got)
           bytes == Take(fd.in, n)
           rest == Drop(fd.in, n)
           a == mode.down - DownTodo - DownIn
<1>1. /\ ring.use \in Int /\ ring.rda \in Int /\ s \in Nat /\ MaxSize \in Nat \ {0} /\ g \in Nat
      /\ 0 <= ring.rda /\ s + ring.rda <= ring.use /\ ring.use <= MaxSize
      /\ ~pcb.ref => pcb.segs = <<>>
      /\ ring.data \in [Slots -> 0 .. NDown]
  BY <1>0, SizeFacts DEF Ledger, RingType, PcbType, AppType, Downward
<1>2. space \in Nat /\ space = MaxSize - ring.use
  <2> HIDE DEF s
  <2> QED
    BY <1>1 DEF Writing
<1>3. fd.in \in Seq(Int) /\ Len(fd.in) \in Nat /\ (Len(fd.in) = 0 => fd.in = <<>>)
  BY <1>0 DEF FdType
<1>4. m \in 0 .. Len(fd.in) /\ m <= space /\ (m = 0 => Len(fd.in) = 0 \/ space = 0)
  <2> HIDE DEF space
  <2> QED
    BY <1>2, <1>3 DEF Least
<1>5. /\ got \in {-1, 0, 1}
      /\ got = 1 => m # 0 /\ ~fd.rst
      /\ got = -1 => fd.rst \/ (fd.in = <<>> /\ fd.eof)
  <2> HIDE DEF space, m
  <2> QED
    BY <1>2, <1>3, <1>4
<1> HIDE DEF got
<1>6. n \in 0 .. Len(fd.in) /\ n \in Nat /\ n <= space /\ (n = 0 <=> got # 1)
  <2> DEFINE c == Len(fd.in)
  <2>1. c \in Nat /\ m \in 0 .. c /\ m <= space /\ space \in Nat /\ (got = 1 => m # 0)
    BY <1>2, <1>3, <1>4, <1>5
  <2> HIDE DEF m, space, c
  <2>2. n \in 0 .. c /\ n \in Nat /\ n <= space /\ (n = 0 <=> got # 1)
    BY <2>1
  <2> QED
    BY <2>2 DEF c
<1>7. /\ Len(bytes) = n /\ bytes \in Seq(Int) /\ bytes \in Seq(0 .. NDown)
      /\ \A i \in 1 .. n : bytes[i] = a + i
  <2> HIDE DEF n
  <2> QED
    BY <1>6, SpliceBInput
<1>8. (got = 1 => filled = WriteFinish(ring, bytes)) /\ (got # 1 => filled = ring)
  OBVIOUS
<1>9. got # 1 => Drop(fd.in, 0) = fd.in /\ n = 0
  <2>1. Drop(fd.in, 0) = fd.in
    BY <1>3, SMTT(60) DEF Drop
  <2> QED
    BY <2>1
<1>10. /\ fd' = [fd EXCEPT !.in = rest]
       /\ ~pcb.ref => ring' = filled /\ pcb' = pcb /\ app' = app
       /\ pcb.ref /\ Reading(filled) = <<>> =>
            /\ ring' = filled
            /\ res' = [res EXCEPT !.b = got]
            /\ pcb' = IF got = -1
                        THEN [pcb EXCEPT !.lw = IF @ = "CLOSE_WAIT" THEN "LAST_ACK"
                                                ELSE "FIN_WAIT_1"]
                        ELSE pcb
            /\ app' = [app EXCEPT !.cut = IF got = -1 /\ fd.rst THEN "server" ELSE @]
  <2>1. fd' = [fd EXCEPT !.in = IF got = 1 THEN Drop(fd.in, m) ELSE fd.in]
    BY <1>0 DEF tcp_splice_b, got, m, space, FdType
  <2>2. (IF got = 1 THEN Drop(fd.in, m) ELSE fd.in) = rest
    <3> HIDE DEF m
    <3> QED
      BY <1>9 DEF n
  <2> HIDE DEF filled, rest
  <2> QED
    BY <1>0, <2>1, <2>2 DEF tcp_splice_b, got, filled, m, space
<1>11. pcb.ref /\ Reading(filled) # <<>> =>
         \E mem, out :
            LET runs == Reading(filled)
                one == TcpWrite(pcb.segs, runs[1], 1 \in mem)
                all == IF Len(runs) = 2 THEN TcpWrite(one, runs[2], 2 \in mem)
                       ELSE one
                ok == Len(all) = Len(pcb.segs) + filled.rda
                cut == CASE ok -> IF out THEN app.cut ELSE "tun"
                         [] ~ok /\ mem = {} -> "full"
                         [] ~ok /\ mem # {} -> IF one # all THEN "hole" ELSE "short"
            IN /\ pcb' = [pcb EXCEPT !.segs = all]
               /\ ring' = ReadFinish(filled, filled.rda)
               /\ res' = [res EXCEPT !.b = IF ok /\ out THEN 1 ELSE -1]
               /\ app' = [app EXCEPT !.cut = cut]
  <2>1. IF ~pcb.ref
        THEN ring' = filled /\ res' = [res EXCEPT !.b = -1] /\ UNCHANGED <<pcb, app>>
        ELSE IF Reading(filled) = <<>>
        THEN /\ ring' = filled
             /\ res' = [res EXCEPT !.b = got]
             /\ pcb' = IF got = -1
                       THEN [pcb EXCEPT !.lw = IF @ = "CLOSE_WAIT" THEN "LAST_ACK"
                                               ELSE "FIN_WAIT_1"]
                       ELSE pcb
             /\ app' = [app EXCEPT !.cut = IF got = -1 /\ fd.rst THEN "server" ELSE @]
        ELSE \E mem \in SUBSET (IF May("mem") THEN DOMAIN Reading(filled) ELSE {}),
                out \in (IF May("tun") THEN BOOLEAN ELSE {TRUE}) :
               LET one == TcpWrite(pcb.segs, Reading(filled)[1], 1 \in mem)
                   all == IF Len(Reading(filled)) = 2
                            THEN TcpWrite(one, Reading(filled)[2], 2 \in mem)
                            ELSE one
                   ok == Len(all) = Len(pcb.segs) + filled.rda
                   cut == CASE ok -> IF out THEN app.cut ELSE "tun"
                            [] ~ok /\ mem = {} -> "full"
                            [] ~ok /\ mem # {} -> IF one # all THEN "hole" ELSE "short"
               IN /\ pcb' = [pcb EXCEPT !.segs = all]
                  /\ ring' = ReadFinish(filled, filled.rda)
                  /\ res' = [res EXCEPT !.b = IF ok /\ out THEN 1 ELSE -1]
                  /\ app' = [app EXCEPT !.cut = cut]
    BY DEF tcp_splice_b, got
  <2> HIDE DEF filled
  <2> QED
    BY <2>1
<1> HIDE DEF space, m, filled, rest, bytes, a
<1>12. s + n <= MaxSize /\ n <= MaxSize
  <2> HIDE DEF n, s
  <2> QED
    BY <1>1, <1>2, <1>6
<1>13. filled.data \in [Slots -> 0 .. NDown] /\ filled \in RingType /\ filled.rda = ring.rda + n
  <2>1. CASE got = 1
    <3> HIDE DEF n, s
    <3>1. 0 \in Nat /\ 0 + Len(bytes) <= MaxSize
      BY <1>1, <1>6, <1>7, <1>12
    <3>2. ring.data \in [Slots -> 0 .. NDown] /\ bytes \in Seq(0 .. NDown) =>
            WriteFinish(ring, bytes).data \in [Slots -> 0 .. NDown]
      BY <1>0, <1>7, <3>1, WriteHolds
    <3>3. WriteFinish(ring, bytes) \in RingType /\ WriteFinish(ring, bytes).rda = ring.rda + Len(bytes)
      BY <1>0, <1>7, WriteGives
    <3>4. filled = WriteFinish(ring, bytes)
      BY <1>8, <2>1
    <3> QED
      BY <1>1, <1>7, <3>2, <3>3, <3>4
  <2>2. CASE got # 1
    <3>1. filled = ring /\ n = 0
      BY <1>8, <1>9, <2>2
    <3> HIDE DEF n, s
    <3> QED
      BY <1>0, <1>1, <3>1
  <2> QED
    BY <2>1, <2>2
<1>14. CASE ~pcb.ref
  <2>1. ring' = filled /\ pcb' = pcb /\ app' = app /\ fd' = [fd EXCEPT !.in = rest]
    BY <1>10, <1>14
  <2> HIDE DEF n
  <2> QED
    BY <1>6, <1>13, <1>14, <2>1 DEF rest
<1>15. CASE pcb.ref
  <2>1. /\ app.cut = "no" /\ app.end = "open" /\ pcb.lw \in {"ESTABLISHED", "CLOSE_WAIT"}
        /\ ring.rda = 0 /\ ring.rp = ring.wp
        /\ \A i \in 1 .. s : pcb.segs[i] = Slot(ring.wp - s + i - 1)
    BY <1>0, <1>15 DEF DownEnds, Slotted
  <2>2. filled.rda = n
    <3> HIDE DEF n
    <3> QED
      BY <1>6, <1>13, <2>1
  <2>3. 0 <= filled.rda /\ filled.rda <= MaxSize
    <3> HIDE DEF n, s
    <3> QED
      BY <1>6, <1>12, <2>2
  <2>4. CASE Reading(filled) = <<>>
    <3>1. filled.rda = 0
      <4>1. \A x, y : <<x>> # <<>> /\ <<x, y>> # <<>>
        OBVIOUS
      <4> QED
        BY <1>13, <2>3, <2>4, <4>1, ReadingGives
    <3>2. n = 0 /\ got # 1 /\ filled = ring
      <4>1. n = 0
        BY <2>2, <3>1
      <4> QED
        BY <1>6, <1>8, <4>1
    <3>3. /\ ring' = ring /\ res' = [res EXCEPT !.b = got]
          /\ pcb' = IF got = -1
                      THEN [pcb EXCEPT !.lw = IF @ = "CLOSE_WAIT" THEN "LAST_ACK"
                                              ELSE "FIN_WAIT_1"]
                      ELSE pcb
          /\ app' = [app EXCEPT !.cut = IF got = -1 /\ fd.rst THEN "server" ELSE @]
          /\ fd' = [fd EXCEPT !.in = rest]
      BY <1>10, <1>15, <2>4, <3>2
    <3>4. CASE got # -1
      <4>1. pcb' = pcb
        BY <3>3, <3>4
      <4>2. app' = app
        BY <1>0, <3>3, <3>4 DEF AppType
      <4> HIDE DEF n
      <4> QED
        BY <1>1, <1>6, <1>15, <3>2, <3>3, <4>1, <4>2 DEF rest
    <3>5. CASE got = -1
      <4> DEFINE l == IF pcb.lw = "CLOSE_WAIT" THEN "LAST_ACK" ELSE "FIN_WAIT_1"
                 c == IF fd.rst THEN "server" ELSE app.cut
      <4>1. pcb' = [pcb EXCEPT !.lw = l] /\ app' = [app EXCEPT !.cut = c] /\ res' = [res EXCEPT !.b = -1]
        BY <1>0, <3>3, <3>5 DEF PcbType, AppType
      <4>2. c = "server" \/ (c = "no" /\ ~fd.rst /\ fd.eof /\ fd.in = <<>>)
        BY <1>5, <2>1, <3>5
      <4> HIDE DEF l, c
      <4>3. pcb'.segs = pcb.segs /\ pcb'.lw = l
        BY <1>0, <4>1 DEF PcbType
      <4>4. app'.cut = c /\ app'.sent = app.sent /\ app'.got = app.got /\ app'.end = app.end
        BY <1>0, <4>1 DEF AppType
      <4>5. res'.b = -1
        BY <1>0, <4>1 DEF ResType
      <4> HIDE DEF n
      <4> QED
        BY <1>1, <1>6, <1>15, <3>2, <3>3, <4>2, <4>3, <4>4, <4>5 DEF rest, l
    <3> QED
      BY <3>4, <3>5
  <2>5. CASE Reading(filled) # <<>>
    <3>1. filled.rda # 0
      BY <1>13, <2>3, <2>5, ReadingGives
    <3>2. n # 0 /\ filled = WriteFinish(ring, bytes) /\ ~fd.rst
      <4>1. n # 0
        BY <2>2, <3>1
      <4>2. got = 1
        BY <1>6, <4>1
      <4> QED
        BY <1>5, <1>8, <4>1, <4>2
    <3>3. PICK mem, out :
            LET runs == Reading(filled)
                one == TcpWrite(pcb.segs, runs[1], 1 \in mem)
                all == IF Len(runs) = 2 THEN TcpWrite(one, runs[2], 2 \in mem)
                       ELSE one
                ok == Len(all) = Len(pcb.segs) + filled.rda
                cut == CASE ok -> IF out THEN app.cut ELSE "tun"
                         [] ~ok /\ mem = {} -> "full"
                         [] ~ok /\ mem # {} -> IF one # all THEN "hole" ELSE "short"
            IN /\ pcb' = [pcb EXCEPT !.segs = all]
               /\ ring' = ReadFinish(filled, filled.rda)
               /\ res' = [res EXCEPT !.b = IF ok /\ out THEN 1 ELSE -1]
               /\ app' = [app EXCEPT !.cut = cut]
      BY <1>11, <1>15, <2>5
    <3> DEFINE runs == Reading(filled)
               one == TcpWrite(pcb.segs, runs[1], 1 \in mem)
               all == IF Len(runs) = 2 THEN TcpWrite(one, runs[2], 2 \in mem) ELSE one
               ok == Len(all) = Len(pcb.segs) + filled.rda
               cut == CASE ok -> IF out THEN app.cut ELSE "tun"
                        [] ~ok /\ mem = {} -> "full"
                        [] ~ok /\ mem # {} -> IF one # all THEN "hole" ELSE "short"
               b == IF ok /\ out THEN 1 ELSE -1
               h == ReadFinish(filled, filled.rda)
    <3>4. /\ pcb' = [pcb EXCEPT !.segs = all] /\ ring' = h
          /\ res' = [res EXCEPT !.b = b] /\ app' = [app EXCEPT !.cut = cut]
      BY <3>3
    <3>5. a = g + s
      <4>1. g + s + DownIn + DownTodo = mode.down
        BY <1>0, <1>15, <2>1, <3>2 DEF Downward
      <4>2. DownIn \in Nat /\ DownTodo \in Nat /\ mode.down \in Nat
        BY Lengths, CaseIs
      <4> DEFINE k == DownIn
                 l == DownTodo
                 d == mode.down
      <4>3. g + s + k + l = d /\ k \in Nat /\ l \in Nat /\ d \in Nat /\ a = d - l - k
        BY <4>1, <4>2 DEF a
      <4> HIDE DEF k, l, d, g, s
      <4> QED
        BY <1>1, <4>3
    <3>6. \A i \in 1 .. s : ring.data[pcb.segs[i]] = g + i
      <4>1. Sending = Run(g, s)
        BY <1>0, <2>1 DEF Downward
      <4>2. \A i \in 1 .. s : Sending[i] = ring.data[pcb.segs[i]]
        BY DEF Sending
      <4> HIDE DEF g, s
      <4>3. g \in Int /\ s \in Nat
        BY <1>1
      <4>4. \A i \in 1 .. s : Run(g, s)[i] = g + i
        BY <4>3, RunIs
      <4> QED
        BY <4>1, <4>2, <4>4
    <3>7. /\ h.rda = 0 /\ h.rp = h.wp /\ h.data = filled.data
          /\ all \in Seq(Slots) /\ Len(all) \in Nat
          /\ s <= Len(all) /\ Len(all) <= s + n
          /\ mem = {} => Len(all) = s + n
          /\ \/ one # all /\ Len(all) # s + n
             \/ /\ \A i \in 1 .. Len(all) : h.data[all[i]] = g + i
                /\ Len(all) = s + n =>
                     \A i \in 1 .. Len(all) : all[i] = Slot(h.wp - Len(all) + i - 1)
      <4> DEFINE segs == pcb.segs
      <4>1. /\ segs \in Seq(Slots) /\ Len(segs) = s /\ ring \in RingType /\ ring.rda = 0 /\ ring.rp = ring.wp
            /\ g \in Nat /\ n \in Nat /\ n # 0 /\ bytes \in Seq(Int) /\ Len(bytes) = n
            /\ Len(segs) + n <= MaxSize
        BY <1>0, <1>1, <1>6, <1>7, <1>12, <2>1, <3>2 DEF PcbType
      <4>2. \A i \in 1 .. Len(segs) : segs[i] = Slot(ring.wp - Len(segs) + i - 1)
        BY <2>1
      <4>3. \A i \in 1 .. Len(segs) : ring.data[segs[i]] = g + i
        BY <3>6
      <4>4. \A i \in 1 .. n : bytes[i] = g + Len(segs) + i
        BY <1>7, <3>5
      <4> HIDE DEF segs, g, n, s
      <4>5. LET ff == WriteFinish(ring, bytes)
                x == TcpWrite(segs, Reading(ff)[1], 1 \in mem)
                y == IF Len(Reading(ff)) = 2 THEN TcpWrite(x, Reading(ff)[2], 2 \in mem) ELSE x
                z == ReadFinish(ff, ff.rda)
            IN  /\ ff.rda = n /\ z.rda = 0 /\ z.rp = z.wp /\ z.data = ff.data
                /\ y \in Seq(Slots) /\ Len(y) \in Nat
                /\ Len(segs) <= Len(y) /\ Len(y) <= Len(segs) + n
                /\ mem = {} => Len(y) = Len(segs) + n
                /\ \/ x # y /\ Len(y) # Len(segs) + n
                   \/ /\ \A i \in 1 .. Len(y) : z.data[y[i]] = g + i
                      /\ Len(y) = Len(segs) + n =>
                           \A i \in 1 .. Len(y) : y[i] = Slot(z.wp - Len(y) + i - 1)
        <5> DEFINE r == ring
        <5>1. r \in RingType /\ r.rda = 0 /\ r.rp = r.wp
          BY <4>1
        <5>2. \A i \in 1 .. Len(segs) : segs[i] = Slot(r.wp - Len(segs) + i - 1)
          BY <4>2
        <5>3. \A i \in 1 .. Len(segs) : r.data[segs[i]] = g + i
          BY <4>3
        <5> HIDE DEF r
        <5>4. /\ segs \in Seq(Slots) /\ g \in Nat /\ n \in Nat /\ n # 0 /\ bytes \in Seq(Int)
              /\ Len(bytes) = n /\ Len(segs) + n <= MaxSize
          BY <4>1
        <5> DEFINE given == app.got
        <5>5. /\ segs \in Seq(Slots) /\ given \in Seq(Int) /\ bytes \in Seq(Int) /\ Len(bytes) # 0
              /\ Len(segs) + Len(bytes) <= MaxSize
              /\ (\A i \in 1 .. Len(segs) : r.data[segs[i]] = Len(given) + i)
              /\ \A i \in 1 .. Len(bytes) : bytes[i] = Len(given) + Len(segs) + i
          BY <1>0, <4>4, <5>3, <5>4 DEF AppType, g
        <5> HIDE DEF given
        <5>6. HandedOver(r, segs, bytes, given, mem)
          BY <5>1, <5>2, <5>5, RingHands
        <5>7. LET ff == WriteFinish(r, bytes)
                  x == FirstSent(ff, segs, mem)
                  y == AllSent(ff, segs, mem)
                  z == ReadFinish(ff, ff.rda)
              IN  /\ ff.rda = n /\ z.rda = 0 /\ z.rp = z.wp /\ z.data = ff.data
                  /\ y \in Seq(Slots) /\ Len(y) \in Nat
                  /\ Len(segs) <= Len(y) /\ Len(y) <= Len(segs) + n
                  /\ mem = {} => Len(y) = Len(segs) + n
                  /\ \/ x # y /\ Len(y) # Len(segs) + n
                     \/ /\ \A i \in 1 .. Len(y) : z.data[y[i]] = g + i
                        /\ Len(y) = Len(segs) + n =>
                             \A i \in 1 .. Len(y) : y[i] = Slot(z.wp - Len(y) + i - 1)
          BY <5>4, <5>6 DEF given, g, HandedOver
        <5> QED
          BY <5>7, Zenon DEF r, FirstSent, AllSent
      <4> QED
        BY <3>2, <4>1, <4>5 DEF segs
    <3> HIDE DEF h, runs, one, all
    <3>8. ok <=> Len(all) = s + n
      BY <2>2
    <3>9. /\ b \in {1, -1} /\ (~ok => b = -1)
          /\ ok => cut \in {"no", "tun"} /\ (b = 1 => cut = "no")
          /\ ~ok => cut \in {"hole", "short"} /\ (cut = "short" => one = all)
      <4>1. ok \in BOOLEAN /\ (~ok => mem # {})
        BY <3>7, <3>8
      <4> HIDE DEF ok
      <4> QED
        BY <2>1, <4>1
    <3> HIDE DEF ok, cut, b
    <3>10. pcb'.segs = all /\ pcb'.lw = pcb.lw
      BY <1>0, <3>4 DEF PcbType
    <3>11. app'.cut = cut /\ app'.sent = app.sent /\ app'.got = app.got /\ app'.end = app.end
      BY <1>0, <3>4 DEF AppType
    <3>12. res'.b = b
      BY <1>0, <3>4 DEF ResType
    <3>13. /\ cut # "hole" => \A i \in 1 .. Len(all) : h.data[all[i]] = g + i
           /\ cut = "no" => Len(all) = s + n
           /\ b >= 0 => /\ cut = "no" /\ h.rda = 0 /\ h.rp = h.wp
                        /\ \A i \in 1 .. Len(all) : all[i] = Slot(h.wp - Len(all) + i - 1)
      <4> HIDE DEF g, s, n
      <4>1. CASE ok
        BY <3>7, <3>8, <3>9, <4>1
      <4>2. CASE ~ok
        BY <3>7, <3>8, <3>9, <4>2
      <4> QED
        BY <4>1, <4>2
    <3>14. ring'.data \in [Slots -> 0 .. NDown]
      BY <1>13, <3>4, <3>7
    <3>15. fd' = [fd EXCEPT !.in = rest]
      BY <1>10
    <3>16. LET t == Len(pcb'.segs)
           IN  /\ pcb.ref /\ pcb'.lw = pcb.lw /\ t \in Nat /\ s <= t /\ t <= s + n
               /\ app'.cut # "hole" => \A i \in 1 .. t : ring'.data[pcb'.segs[i]] = Len(app.got) + i
               /\ app'.cut = "no" => t = s + n
               /\ res'.b >= 0 =>
                    /\ app'.cut = "no" /\ ring'.rda = 0 /\ ring'.rp = ring'.wp
                    /\ \A i \in 1 .. t : pcb'.segs[i] = Slot(ring'.wp - t + i - 1)
      <4> HIDE DEF n, s
      <4> QED
        BY <1>15, <3>4, <3>7, <3>10, <3>11, <3>12, <3>13
    <3> HIDE DEF n
    <3> QED
      BY <1>6, <3>11, <3>14, <3>15, <3>16 DEF rest
  <2> QED
    BY <2>4, <2>5
<1> QED
  BY <1>14, <1>15

\* The downward half of the splice loop: the bytes go from the socket to the end of
\* what lwIP sends.
LEMMA SpliceBStreams == ASSUME SessionInv, StreamInv, SpliceB PROVE StreamInv'
<1>0. /\ task \in TaskType /\ res \in ResType /\ fd \in FdType /\ pcb \in PcbType /\ Scheduled /\ Ledger
      /\ Stages /\ Upward /\ UpEnds /\ Downward /\ Slotted /\ DownEnds
  BY Parts DEF StreamInv
<1>1. /\ task.pc = "splice_b" /\ task.state = "RUNNING" /\ UNCHANGED <<mode, srv>> /\ task' = Decide(res')
  BY <1>0 DEF SpliceB, At, Scheduled
<1>2. SessionInv' /\ res' \in ResType /\ task' \in TaskType
  <2>1. SessionInv'
    BY SpliceBKeeps
  <2> QED
    BY <2>1 DEF SessionInv, Types
<1>3. task'.step = task.step /\ task'.pc \in {"splice", "drain"} /\ task'.state # "STOPPED"
  <2> DEFINE w == WaitIO(task, "splice", "drain")
  <2>1. "splice" \in Pcs /\ "drain" \in Pcs
    BY DEF Pcs
  <2>2. /\ w.step = task.step
        /\ \/ w.pc = "drain" /\ w.state = task.state
           \/ w.pc = "splice" /\ w.state = "WAITING"
    BY <1>0, <2>1, WaitIOGives
  <2>3. \/ task' = [[task EXCEPT !.cpu = FALSE] EXCEPT !.pc = "splice"]
        \/ task' = [task EXCEPT !.pc = "drain"]
        \/ task' = w
    <3>1. /\ res'.f \in {-1, 0, 1} /\ res'.b \in {-1, 0, 1}
      BY <1>2 DEF ResType
    <3> HIDE DEF w
    <3> QED
      BY <1>1, <3>1 DEF Decide, Yield, w
  <2> HIDE DEF w
  <2>4. CASE task' = [[task EXCEPT !.cpu = FALSE] EXCEPT !.pc = "splice"]
    BY <1>0, <1>1, <2>4 DEF TaskType
  <2>5. CASE task' = [task EXCEPT !.pc = "drain"]
    BY <1>0, <1>1, <2>5 DEF TaskType
  <2>6. CASE task' = w
    BY <1>1, <2>2, <2>6
  <2> QED
    BY <2>3, <2>4, <2>5, <2>6
<1>4. CASE ~(res.b >= 0)
  <2>1. UNCHANGED <<mode, res, fd, pcb, ring, app, srv>>
    BY <1>1, <1>4 DEF SpliceB
  <2>2. Stages' /\ Upward'
    BY <1>0, <1>1, <1>3, <2>1, StagesStay, UpwardStays
  <2>3. UpEnds' /\ Downward'
    BY <1>0, <1>1, <1>3, <2>1, UpEndsStay, DownwardStays
  <2>4. Slotted' /\ DownEnds'
    BY <1>0, <1>1, <1>3, <2>1, SlottedStays, DownEndsStay
  <2> QED
    BY <2>2, <2>3, <2>4 DEF StreamInv
<1>5. CASE res.b >= 0
  <2>1. tcp_splice_b
    BY <1>5 DEF SpliceB
  <2>2. /\ res'.f = res.f /\ pcb'.ref = pcb.ref /\ pcb'.eof = pcb.eof
        /\ pcb'.queue = pcb.queue /\ pcb'.wnd = pcb.wnd /\ pcb' \in PcbType /\ ring' \in RingType
    BY <1>5, <2>1, SpliceBDoes
  <2> DEFINE s == Len(pcb.segs)
             t == Len(pcb'.segs)
             d == mode.down
             l == DownTodo
             k == DownIn
             g == Len(app.got)
             a == d - l - k
  <2>3. PICK n \in 0 .. Len(fd.in) :
               /\ fd' = [fd EXCEPT !.in = Drop(fd.in, n)]
               /\ app'.sent = app.sent /\ app'.got = app.got /\ app'.end = app.end
               /\ ring'.data \in [Slots -> 0 .. NDown]
               /\ \/ ~pcb.ref /\ pcb' = pcb /\ app' = app
                  \/ /\ pcb.ref /\ pcb'.lw = pcb.lw /\ t \in Nat /\ s <= t /\ t <= s + n
                     /\ app'.cut # "hole" => \A i \in 1 .. t : ring'.data[pcb'.segs[i]] = Len(app.got) + i
                     /\ app'.cut = "no" => t = s + n
                     /\ res'.b >= 0 =>
                          /\ app'.cut = "no" /\ ring'.rda = 0 /\ ring'.rp = ring'.wp
                          /\ \A i \in 1 .. t : pcb'.segs[i] = Slot(ring'.wp - t + i - 1)
                  \/ pcb.ref /\ n = 0 /\ pcb' = pcb /\ ring' = ring /\ app' = app
                  \/ /\ pcb.ref /\ n = 0 /\ pcb'.segs = pcb.segs /\ ring' = ring /\ res'.b = -1
                     /\ pcb'.lw = (IF pcb.lw = "CLOSE_WAIT" THEN "LAST_ACK" ELSE "FIN_WAIT_1")
                     /\ \/ app'.cut = "server"
                        \/ app'.cut = "no" /\ ~fd.rst /\ fd.eof /\ fd.in = <<>>
    BY <1>1, <1>5, <2>1, SpliceBMoves
  <2> DEFINE e == Drop(fd.in, n)
  <2>4. /\ a \in Nat /\ k = Len(fd.in) /\ e \in Seq(Int) /\ Len(e) = k - n
        /\ Payload(e) = Run(a + n, k - n) /\ \A i \in 1 .. k - n : e[i] \notin Messages
    BY <1>1, SpliceBInput
  <2>5. fd' = [fd EXCEPT !.in = e]
    BY <2>3
  <2>6. /\ d \in Nat /\ l \in Nat /\ k \in Nat /\ g \in Nat /\ s \in Nat /\ t \in Nat
    <3>1. d \in Nat /\ l \in Nat /\ k \in Nat /\ g \in Nat /\ s \in Nat
      BY Lengths, CaseIs
    <3>2. t \in Nat
      BY <2>2 DEF PcbType
    <3> QED
      BY <3>1, <3>2
  <2>7. n \in Nat /\ n <= k /\ k - n \in Nat /\ a + n \in Nat
    <3>1. n \in 0 .. k
      BY <2>4
    <3> HIDE DEF k, a
    <3>2. k \in Nat /\ a \in Nat
      BY <2>4, <2>6
    <3> QED
      BY <3>1, <3>2
  <2> HIDE DEF e
  <2>8. /\ fd'.in = e /\ fd'.out = fd.out /\ fd'.eof = fd.eof /\ fd'.rst = fd.rst
        /\ fd'.shut = fd.shut /\ fd'.state = fd.state
    BY <1>0, <2>5 DEF FdType
  <2>9. DownTodo' = l /\ mode'.down = d /\ srv' = srv
    BY <1>1 DEF DownTodo
  <2>10. DownIn' = k - n
    <3>1. Len(Run(a + n, k - n)) = k - n
      <4> DEFINE b == a + n
                 c == k - n
      <4>1. b \in Int /\ c \in Nat
        BY <2>7
      <4> HIDE DEF b, c
      <4>2. Len(Run(b, c)) = c
        BY <4>1, RunIs
      <4> QED
        BY <4>2 DEF b, c
    <3> QED
      BY <2>4, <2>8, <3>1 DEF DownIn
  <2>11. Upward'
    BY <1>0, <1>1, <1>3, <2>2, <2>3, <2>8, <2>9, UpwardStays
  <2>12. pcb.lw \notin {"ESTABLISHED", "FIN_WAIT_1", "FIN_WAIT_2"} =>
           pcb'.lw \notin {"ESTABLISHED", "FIN_WAIT_1", "FIN_WAIT_2"}
    <3>1. CASE pcb'.lw = pcb.lw
      BY <3>1
    <3>2. CASE pcb.ref /\ pcb'.lw = (IF pcb.lw = "CLOSE_WAIT" THEN "LAST_ACK" ELSE "FIN_WAIT_1")
      <4>1. pcb.lw \in {"ESTABLISHED", "CLOSE_WAIT"}
        BY <1>0, <1>5, <3>2 DEF DownEnds
      <4> QED
        BY <3>2, <4>1
    <3> QED
      BY <2>3, <3>1, <3>2
  <2>13. UpEnds'
    BY <1>0, <1>1, <1>3, <2>2, <2>3, <2>8, <2>9, <2>12, UpEndsStay
  <2>14. Stages'
    <3>1. /\ task.step = Len(Handshake(mode)) + 1 /\ Len(Handshake(mode)) \in Nat
          /\ Len(fd.in) <= FdRcv /\ (fd.rst => fd.in = <<>>)
      BY <1>0, <1>1, CaseIs, HandshakeIs DEF Stages
    <3>2. Len(e) <= FdRcv
      <4> HIDE DEF k
      <4>1. k <= FdRcv
        BY <2>4, <3>1
      <4> QED
        BY <2>4, <2>6, <2>7, <4>1, SizeFacts
    <3>3. fd.rst => e = <<>>
      <4>1. fd.rst => k = 0
        BY <2>4, <3>1
      <4> HIDE DEF k
      <4>2. fd.rst => Len(e) = 0
        BY <2>4, <2>6, <2>7, <4>1
      <4> QED
        BY <2>4, <4>2, EmptySeq
    <3>4. task.step \in 1 .. Len(Handshake(mode)) + 1 /\ Pending(mode, task.step) = 0
      BY <3>1, CaseIs, PendingEnd
    <3>5. ~fd.rst => \A i \in 1 .. Len(e) : e[i] \in Messages <=> i <= 0
      <4> SUFFICES ASSUME NEW i \in 1 .. Len(e) PROVE e[i] \in Messages <=> i <= 0
        OBVIOUS
      <4>1. e[i] \notin Messages
        BY <2>4
      <4>2. i \in Int /\ i >= 1
        OBVIOUS
      <4>3. ~(i <= 0)
        BY <4>2
      <4> QED
        BY <4>1, <4>3
    <3>6. ~fd.rst => \A i \in 1 .. Len(srv.todo) : srv.todo[i] \in Messages <=> Len(e) + i <= 0
      <4> SUFFICES ASSUME ~fd.rst, NEW i \in 1 .. Len(srv.todo)
                   PROVE  srv.todo[i] \in Messages <=> Len(e) + i <= 0
        OBVIOUS
      <4>1. srv.todo[i] \in Messages <=> Len(fd.in) + i <= Pending(mode, task.step)
        BY <1>0, <1>1 DEF Stages
      <4> HIDE DEF k
      <4>2. srv.todo[i] \in Messages <=> k + i <= 0
        BY <2>4, <3>4, <4>1
      <4>3. Len(e) \in Nat /\ Len(e) = k - n
        BY <2>4, <2>7
      <4>4. ~(k + i <= 0) /\ ~(Len(e) + i <= 0)
        BY <2>6, <4>3
      <4> QED
        BY <4>2, <4>4
    <3>7. task'.step = task.step /\ mode' = mode /\ srv' = srv /\ fd'.in = e /\ fd'.rst = fd.rst
      BY <1>1, <1>3, <2>8
    <3> QED
      BY <1>3, <3>1, <3>2, <3>3, <3>4, <3>5, <3>6, <3>7 DEF Stages
  <2>15. pcb.ref => app.cut = "no" /\ app.end = "open" /\ pcb.lw \in {"ESTABLISHED", "CLOSE_WAIT"}
    BY <1>0, <1>5 DEF DownEnds
  <2>16. ~pcb.ref => pcb.segs = <<>> /\ s = 0
    BY <1>0 DEF Ledger
  <2>17. /\ s <= t /\ t <= s + n /\ (pcb.ref /\ app'.cut = "no" => t = s + n)
         /\ (app.cut = "hole" => app'.cut = "hole")
    <3>1. CASE pcb'.segs = pcb.segs /\ (~pcb.ref \/ n = 0) /\ (~pcb.ref => app' = app)
      <4>1. t = s
        BY <3>1
      <4> HIDE DEF s, t
      <4> QED
        BY <2>6, <2>7, <2>15, <3>1, <4>1
    <3>2. CASE pcb.ref /\ s <= t /\ t <= s + n /\ (app'.cut = "no" => t = s + n)
      BY <2>15, <3>2
    <3> QED
      BY <2>3, <3>1, <3>2
  <2>18. app'.cut # "hole" => \A i \in 1 .. t : ring'.data[pcb'.segs[i]] = g + i
    <3>1. CASE ~pcb.ref /\ pcb' = pcb
      <4>1. t = 0
        BY <2>16, <3>1
      <4> QED
        BY <4>1
    <3>2. CASE pcb'.segs = pcb.segs /\ ring' = ring /\ pcb.ref
      <4>1. Sending = Run(g, s)
        BY <1>0, <2>15, <3>2 DEF Downward
      <4>2. \A i \in 1 .. s : Sending[i] = ring.data[pcb.segs[i]]
        BY DEF Sending
      <4>3. t = s
        BY <3>2
      <4> HIDE DEF g, s, t
      <4>4. g \in Int /\ s \in Nat
        BY <2>6
      <4>5. \A i \in 1 .. s : Run(g, s)[i] = g + i
        BY <4>4, RunIs
      <4> QED
        BY <3>2, <4>1, <4>2, <4>3, <4>5
    <3>3. CASE app'.cut # "hole" => \A i \in 1 .. t : ring'.data[pcb'.segs[i]] = Len(app.got) + i
      BY <3>3
    <3> QED
      BY <2>3, <3>1, <3>2, <3>3
  <2>19. app'.cut # "hole" => Sending' = Run(g, t)
    <3>1. Sending' = [i \in 1 .. t |-> ring'.data[pcb'.segs[i]]]
      BY DEF Sending
    <3> HIDE DEF g, t
    <3> QED
      BY <2>18, <3>1 DEF Run
  <2>20. /\ (k - n) + l <= d /\ a + n = d - l - (k - n)
         /\ (app.cut # "hole" => g + t + (k - n) + l <= d)
         /\ (~fd.rst /\ app'.cut = "no" /\ pcb.ref => g + t + (k - n) + l = d)
    <3>1. /\ k + l <= d /\ (app.cut # "hole" => g + s + k + l <= d)
          /\ (~fd.rst /\ app.cut = "no" /\ pcb.ref => g + s + k + l = d)
      BY <1>0, <1>1 DEF Downward
    <3>2. pcb.ref => app.cut = "no"
      BY <2>15
    <3>3. t <= s + n /\ (pcb.ref /\ app'.cut = "no" => t = s + n)
      BY <2>17
    <3> HIDE DEF g, s, t, k, l, d
    <3>4. (k - n) + l <= d /\ d - l - k + n = d - l - (k - n)
      BY <2>6, <2>7, <3>1
    <3>5. g + s + k + l <= d => g + t + (k - n) + l <= d
      BY <2>6, <2>7, <3>3
    <3>6. t = s + n /\ g + s + k + l = d => g + t + (k - n) + l = d
      BY <2>6, <2>7
    <3> QED
      BY <3>1, <3>2, <3>3, <3>4, <3>5, <3>6
  <2>21. Downward'
    <3>1. /\ Payload(srv.todo) = Run(d - l, l) /\ (app.cut # "hole" => app.got = Run(0, g))
      BY <1>0 DEF Downward
    <3>2. Payload(fd'.in) = Run(d - l - (k - n), k - n)
      <4>1. Payload(e) = Run(a + n, k - n) /\ a + n = d - l - (k - n)
        BY <2>4, <2>20
      <4> HIDE DEF a, k, l, d
      <4> QED
        BY <2>8, <4>1
    <3>3. /\ ring'.data \in [Slots -> 0 .. NDown] /\ app'.got = app.got /\ Len(app'.got) = g
          /\ Len(pcb'.segs) = t
      BY <2>3
    <3>4. app'.cut # "hole" => app.cut # "hole"
      BY <2>17
    <3> HIDE DEF g, s, t, k, l, d, a
    <3>5. Payload(srv'.todo) = Run(mode'.down - DownTodo', DownTodo')
      BY <2>9, <3>1
    <3>6. Payload(fd'.in) = Run(mode'.down - DownTodo' - DownIn', DownIn')
      BY <2>9, <2>10, <3>2
    <3>7. DownIn' + DownTodo' <= mode'.down
      BY <2>9, <2>10, <2>20
    <3>8. app'.cut # "hole" =>
            /\ app'.got = Run(0, Len(app'.got)) /\ Sending' = Run(Len(app'.got), Len(pcb'.segs))
            /\ Len(app'.got) + Len(pcb'.segs) + DownIn' + DownTodo' <= mode'.down
      BY <2>9, <2>10, <2>19, <2>20, <3>1, <3>3, <3>4
    <3>9. ~fd'.rst /\ app'.cut = "no" /\ pcb'.ref =>
            Len(app'.got) + Len(pcb'.segs) + DownIn' + DownTodo' = mode'.down
      BY <2>2, <2>8, <2>9, <2>10, <2>20, <3>3
    <3> QED
      BY <3>3, <3>5, <3>6, <3>7, <3>8, <3>9 DEF Downward
  <2>22. Slotted'
    <3> SUFFICES ASSUME pcb.ref, res'.b >= 0
                 PROVE  /\ ring'.rda = 0 /\ ring'.rp = ring'.wp
                        /\ \A i \in 1 .. t : pcb'.segs[i] = Slot(ring'.wp - t + i - 1)
      BY <2>2 DEF Slotted
    <3>1. CASE pcb' = pcb /\ ring' = ring
      BY <1>0, <1>5, <3>1 DEF Slotted
    <3>2. CASE res'.b = -1
      BY <3>2
    <3>3. CASE /\ ring'.rda = 0 /\ ring'.rp = ring'.wp
               /\ \A i \in 1 .. t : pcb'.segs[i] = Slot(ring'.wp - t + i - 1)
      BY <3>3
    <3> QED
      BY <2>3, <3>1, <3>2, <3>3
  <2>23. DownEnds'
    <3>1. CASE ~pcb.ref
      <4>1. pcb' = pcb /\ app' = app
        BY <2>3, <3>1
      <4> QED
        BY <1>0, <3>1, <4>1 DEF DownEnds
    <3>2. CASE pcb.ref /\ pcb'.lw = pcb.lw /\ (res'.b >= 0 => app'.cut = "no")
      <4>1. app'.end = "open" /\ pcb'.lw \in {"ESTABLISHED", "CLOSE_WAIT"}
        BY <2>3, <2>15, <3>2
      <4> QED
        BY <3>2, <4>1 DEF DownEnds
    <3>3. CASE /\ pcb.ref /\ n = 0 /\ res'.b = -1
               /\ \/ app'.cut = "server"
                  \/ app'.cut = "no" /\ ~fd.rst /\ fd.eof /\ fd.in = <<>>
      <4>1. app'.end = "open" /\ fd'.eof = fd.eof /\ DownTodo' = l /\ Len(app'.got) = g /\ mode'.down = d
            /\ Len(pcb'.segs) = t
        BY <2>3, <2>8, <2>9, <2>15, <3>3
      <4>2. app'.cut = "no" /\ ~fd.rst /\ fd.in = <<>> => g + t + l = d
        <5> SUFFICES ASSUME app'.cut = "no", ~fd.rst, fd.in = <<>> PROVE g + t + l = d
          OBVIOUS
        <5>1. k = 0 /\ g + t + (k - n) + l = d
          BY <2>4, <2>20, <3>3
        <5> HIDE DEF g, t, k, l, d
        <5> QED
          BY <2>6, <3>3, <5>1
      <4> HIDE DEF g, t, l, d
      <4> QED
        BY <3>3, <4>1, <4>2 DEF DownEnds
    <3>4. CASE pcb.ref /\ pcb' = pcb /\ app' = app
      BY <2>15, <3>2, <3>4
    <3> QED
      BY <2>3, <3>1, <3>2, <3>3, <3>4
  <2> QED
    BY <2>11, <2>13, <2>14, <2>21, <2>22, <2>23 DEF StreamInv
<1> QED
  BY <1>4, <1>5

-----------------------------------------------------------------------------
(* The beginning. *)

\* The bytes of a direction are a run.
LEMMA BytesRun == ASSUME NEW n \in Nat PROVE Bytes(n) = Run(0, n)
BY DEF Bytes, Run

\* What the server has to send at first: its answers and then its bytes.
LEMMA TodoStart ==
  ASSUME Init
  PROVE  /\ DownTodo = mode.down /\ Payload(srv.todo) = Run(0, mode.down)
         /\ \A i \in 1 .. Len(srv.todo) : srv.todo[i] \in Messages <=> i <= Pending(mode, 1)
<1>1. mode \in Cases /\ mode.down \in Nat
  BY SessionConstants DEF Init
<1> DEFINE h == Handshake(mode)
           m == Strip(h, Written)
           b == Run(0, mode.down)
<1>2. srv.todo = m \o b
  BY <1>1, BytesRun DEF Init
<1>3. h \in Seq(Messages)
  BY <1>1, HandshakeIs
<1> HIDE DEF h
<1>4. m \in Seq(Messages) /\ m \in Seq(Int) /\ Len(m) \in Nat
  <2>1. m \in Seq(Messages)
    BY <1>3, StripType
  <2> HIDE DEF m
  <2> QED
    BY <2>1, MessagesBelow
<1>5. Pending(mode, 1) = Len(m)
  BY <1>1, PendingStart DEF h
<1> HIDE DEF m
<1>6. /\ b \in Seq(Int) /\ Len(b) = mode.down
      /\ \A i \in 1 .. mode.down : b[i] = i
  <2> DEFINE c == mode.down
             a == 0
  <2>1. c \in Nat /\ a \in Int /\ a = 0
    BY <1>1
  <2> HIDE DEF c, a
  <2>2. /\ Run(a, c) \in Seq(Int) /\ Len(Run(a, c)) = c
        /\ \A i \in 1 .. c : Run(a, c)[i] = a + i
    BY <2>1, RunIs
  <2>3. Run(a, c) = b
    BY <2>1 DEF c
  <2> QED
    BY <2>1, <2>2, <2>3 DEF c
<1>7. Payload(b) = b
  BY <1>1, RunPayload
<1> HIDE DEF b
<1>8. \A i \in 1 .. Len(m) : m[i] \in Messages
  BY <1>4
<1>9. Payload(m) = <<>>
  BY <1>4, <1>8, StripNothing DEF Payload
<1>10. Payload(m \o b) = Payload(m) \o Payload(b)
  BY <1>4, <1>6, PayloadJoin
<1>11. Payload(srv.todo) = b
  BY <1>2, <1>6, <1>7, <1>9, <1>10, ConcatEmptySeq
<1>12. DownTodo = mode.down
  BY <1>6, <1>11 DEF DownTodo
<1>13. \A i \in 1 .. Len(srv.todo) : srv.todo[i] \in Messages <=> i <= Pending(mode, 1)
  <2> SUFFICES ASSUME NEW i \in 1 .. Len(m \o b)
               PROVE  (m \o b)[i] \in Messages <=> i <= Len(m)
    BY <1>2, <1>5
  <2>1. CASE i <= Len(m)
    BY <2>1, <1>4, <1>6, <1>8
  <2>2. CASE i > Len(m)
    <3>1. i - Len(m) \in 1 .. mode.down /\ (m \o b)[i] = b[i - Len(m)]
      BY <2>2, <1>4, <1>6, <1>1
    <3>2. b[i - Len(m)] = i - Len(m) /\ i - Len(m) \in Int /\ i - Len(m) > 0
      BY <3>1, <1>6, <1>4, <1>1
    <3>3. b[i - Len(m)] \notin Messages
      BY <3>2, MessagesBelow
    <3> QED
      BY <3>1, <3>3, <2>2, <1>4
  <2> QED
    BY <2>1, <2>2, <1>4
<1> QED
  BY <1>11, <1>12, <1>13 DEF b

\* Nothing is under way when the session is accepted.
LEMMA StreamStart == Init => StreamInv
<1> SUFFICES ASSUME Init PROVE StreamInv
  OBVIOUS
<1> DEFINE z == <<>>
<1>1. z \in Seq(Int) /\ Len(z) = 0 /\ Payload(z) = z
  BY StripEmpty DEF Payload
<1>2. \A a : Run(a, 0) = z
  BY DEF Run
<1>3. /\ mode \in Cases /\ mode.down \in 0 .. NDown /\ mode.up \in Nat /\ mode.down \in Nat /\ NDown \in Nat
  BY SessionConstants DEF Init
<1>4. /\ task.pc = "connect" /\ task.step = 1 /\ task.state = "RUNNING"
      /\ res.f = 1 /\ res.b = 1
      /\ pcb.ref /\ ~pcb.eof /\ pcb.queue = z /\ pcb.segs = z /\ pcb.wnd = TcpWnd
      /\ pcb.lw = "ESTABLISHED"
  BY DEF Init
<1>5. /\ fd.state = "none" /\ fd.in = z /\ fd.out = z /\ ~fd.eof /\ ~fd.rst /\ ~fd.shut
      /\ app.sent = 0 /\ app.got = z /\ app.end = "open" /\ app.cut = "no"
      /\ srv.got = z /\ srv.end = "open"
  BY DEF Init
<1>6. /\ ring.data \in [Slots -> 0 .. NDown] /\ ring.rda = 0 /\ ring.rp = 0 /\ ring.wp = 0
  BY <1>3 DEF Init, RingInit, Slots
<1> HIDE DEF z
<1>7. UpGot = 0 /\ UpOut = 0 /\ DownIn = 0
  BY <1>1, <1>5 DEF UpGot, UpOut, DownIn
<1>8. /\ DownTodo = mode.down /\ Payload(srv.todo) = Run(0, mode.down)
      /\ \A i \in 1 .. Len(srv.todo) : srv.todo[i] \in Messages <=> i <= Pending(mode, 1)
  BY TodoStart
<1>9. Stages
  <2>1. Len(Handshake(mode)) \in 1 .. 8
    BY <1>3, HandshakeIs
  <2>2. srv.todo \in Seq(Int)
    BY SessionInit, Lengths
  <2>3. \A i \in 1 .. Len(srv.todo) : Len(fd.in) + i = i
    BY <1>1, <1>5, <2>2
  <2>4. Len(fd.in) = 0 /\ ~fd.rst /\ Len(fd.in) <= FdRcv /\ \A i \in 1 .. Len(fd.in) : FALSE
    BY <1>1, <1>5, SizeFacts
  <2>5. /\ \A i \in 1 .. Len(fd.in) : fd.in[i] \in Messages <=> i <= Pending(mode, task.step)
        /\ \A i \in 1 .. Len(srv.todo) :
             srv.todo[i] \in Messages <=> Len(fd.in) + i <= Pending(mode, task.step)
    <3>1. /\ \A i \in 1 .. Len(srv.todo) : srv.todo[i] \in Messages <=> i <= Pending(mode, 1)
          /\ task.step = 1
      BY <1>4, <1>8
    <3>2. \A i \in 1 .. Len(srv.todo) :
            srv.todo[i] \in Messages <=> Len(fd.in) + i <= Pending(mode, task.step)
      BY <3>1, <2>3
    <3> QED
      BY <3>2, <2>4
  <2>6. /\ task.step \in 1 .. Len(Handshake(mode)) + 1 /\ task.step <= Len(Handshake(mode))
        /\ task.pc = "connect"
    <3> DEFINE k == Len(Handshake(mode))
    <3>1. k \in 1 .. 8 /\ task.step = 1 /\ task.pc = "connect"
      BY <1>4, <2>1
    <3> HIDE DEF k
    <3>2. task.step \in 1 .. k + 1 /\ task.step <= k
      BY <3>1
    <3> QED
      BY <3>1, <3>2 DEF k
  <2> QED
    BY <2>4, <2>5, <2>6 DEF Stages
<1>10. Upward
  <2>1. pcb.queue = Run(app.sent - Len(pcb.queue), Len(pcb.queue))
    BY <1>1, <1>2, <1>4, <1>5
  <2>2. Payload(srv.got) = Run(0, UpGot) /\ Payload(fd.out) = Run(UpGot, UpOut)
    BY <1>1, <1>2, <1>5, <1>7
  <2> QED
    BY <2>1, <2>2, <1>1, <1>3, <1>4, <1>5, <1>7, SizeFacts DEF Upward
<1>11. UpEnds
  BY <1>4, <1>5 DEF UpEnds
<1>12. Downward
  <2>1. Payload(srv.todo) = Run(mode.down - DownTodo, DownTodo)
    BY <1>8, <1>3
  <2>2. Payload(fd.in) = Run(mode.down - DownTodo - DownIn, DownIn)
    BY <1>1, <1>2, <1>5, <1>7
  <2>3. app.got = Run(0, Len(app.got)) /\ Sending = Run(Len(app.got), Len(pcb.segs))
    <3>1. Len(pcb.segs) = 0 /\ app.got = Run(0, Len(app.got)) /\ Run(Len(app.got), Len(pcb.segs)) = z
      BY <1>1, <1>2, <1>4, <1>5
    <3>2. Sending = z
      BY <3>1 DEF Sending, z
    <3> QED
      BY <3>1, <3>2
  <2>4. Len(app.got) = 0 /\ Len(pcb.segs) = 0
    BY <1>1, <1>4, <1>5
  <2> QED
    BY <2>1, <2>2, <2>3, <2>4, <1>3, <1>6, <1>7, <1>8 DEF Downward
<1>13. Slotted
  BY <1>1, <1>4, <1>6 DEF Slotted
<1>14. DownEnds
  BY <1>4, <1>5 DEF DownEnds
<1> QED
  BY <1>9, <1>10, <1>11, <1>12, <1>13, <1>14 DEF StreamInv

\* Every step keeps the invariant of the streams.
LEMMA StreamStep == SessionInv /\ StreamInv /\ [Next]_vars => StreamInv'
<1> SUFFICES ASSUME SessionInv, StreamInv, [Next]_vars PROVE StreamInv'
  OBVIOUS
<1>1. CASE Resume \/ Expire \/ IoPoll \/ TerminateSession \/ Connect \/ SpliceDrain \/ SrvConnect
  BY <1>1, QuietKeeps, ResumeQuiet, ExpireQuiet, IoPollQuiet, TerminateQuiet, ConnectQuiet,
     DrainQuiet, SrvConnectQuiet
<1>2. CASE HandshakeStep \/ SpliceF \/ SpliceB \/ Destruct
  BY <1>2, HandshakeStreams, SpliceFStreams, SpliceBStreams, DestructStreams
<1>3. CASE AppSend \/ AppFin \/ AppAck \/ AppAckFin \/ PcbError \/ TimeWaitOver
  BY <1>3, AppSendStreams, AppFinStreams, AppAckStreams, AppAckFinStreams, PcbErrorStreams,
     TimeWaitStreams
<1>4. CASE SrvRead \/ SrvEof \/ SrvCut \/ SrvSend \/ SrvClose \/ SrvReset
  BY <1>4, SrvReadStreams, SrvEofStreams, SrvSendStreams, SrvCloseStreams, ResetStreams
     DEF SrvCut, SrvReset
<1>5. CASE UNCHANGED vars
  <2>1. Quiet
    BY <1>5 DEF vars, Quiet
  <2> QED
    BY <2>1, QuietKeeps
<1> QED
  BY <1>1, <1>2, <1>3, <1>4, <1>5 DEF Next, TaskStep

\* The invariants of the session and of its streams hold in every state.
LEMMA StreamInductive == Spec => [](SessionInv /\ StreamInv)
<1>1. Init => SessionInv /\ StreamInv
  BY SessionInit, StreamStart
<1>2. SessionInv /\ StreamInv /\ [Next]_vars => (SessionInv /\ StreamInv)'
  BY SessionStep, StreamStep
<1> QED
  BY <1>1, <1>2, PTL DEF Spec

-----------------------------------------------------------------------------
(* What the invariant says of the ring and of the streams. *)

\* Every variable has its values.
LEMMA SessionTypes == ASSUME SessionInv, StreamInv PROVE TypeOK
<1>1. Stages /\ Upward /\ Downward /\ Ledger /\ Scheduled
  BY Parts DEF StreamInv
<1>2. mode \in Cases
  BY CaseIs
<1>3. task \in [state : {"RUNNING", "WAITING", "STOPPED"}, cpu : BOOLEAN, pc : Pcs,
                fail : Pcs, step : 1 .. 9, armed : BOOLEAN, expired : BOOLEAN,
                timeout : {-1, 0, 1}]
  <2>1. Len(Handshake(mode)) \in 1 .. 8
    BY <1>2, HandshakeIs
  <2>2. task \in TaskType /\ task.step \in 1 .. Len(Handshake(mode)) + 1
    BY <1>1, Parts DEF Stages
  <2> DEFINE k == Len(Handshake(mode))
  <2> HIDE DEF k
  <2>3. k \in 1 .. 8 /\ task.step \in 1 .. k + 1
    BY <2>1, <2>2 DEF k
  <2>4. task.step \in 1 .. 9
    BY <2>3
  <2> QED
    BY <2>2, <2>4 DEF TaskType, Pcs
<1>4. res \in [f : {-1, 0, 1}, b : {-1, 0, 1}]
  BY Parts DEF ResType
<1>5. /\ pcb.ref \in BOOLEAN /\ pcb.eof \in BOOLEAN /\ pcb.lw \in States
      /\ pcb.segs \in Seq(0 .. MaxSize - 1)
  BY Parts DEF PcbType, Slots
<1>6. pcb.wnd \in 0 .. TcpWnd
  BY <1>1 DEF Upward
<1>7. pcb.queue \in Seq(1 .. NUp)
  <2> DEFINE q == pcb.queue
             c == Len(q)
             a == app.sent - c
  <2>1. /\ q \in Seq(Int) /\ c \in Nat /\ UpGot \in Nat /\ UpOut \in Nat /\ app.sent \in Int
    BY Lengths
  <2>2. mode.up \in 0 .. NUp /\ NUp \in Nat
    BY CaseIs
  <2>3. /\ app.sent \in 0 .. mode.up /\ q = Run(a, c) /\ UpGot + UpOut + c <= app.sent
    BY <1>1 DEF Upward
  <2> HIDE DEF q, c
  <2>4. a \in Int /\ a >= 0 /\ a + c <= NUp
    BY <2>1, <2>2, <2>3
  <2> HIDE DEF a
  <2>5. Run(a, c) \in Seq(1 .. NUp)
    <3>1. \A i \in 1 .. c : a + i \in 1 .. NUp
      BY <2>1, <2>2, <2>4
    <3> QED
      BY <3>1, <2>1 DEF Run
  <2> QED
    BY <2>3, <2>5 DEF q
<1>8. /\ ring.rp \in 0 .. MaxSize - 1 /\ ring.wp \in 0 .. MaxSize - 1
      /\ ring.rda \in Int /\ ring.use \in Int
  BY Parts DEF RingType, Slots
<1>9. ring.use \in 0 .. MaxSize /\ ring.rda \in 0 .. ring.use
  <2>1. 0 <= ring.rda /\ Len(pcb.segs) + ring.rda <= ring.use /\ ring.use <= MaxSize
    BY <1>1 DEF Ledger
  <2>2. Len(pcb.segs) \in Nat
    BY Lengths
  <2> QED
    BY <2>1, <2>2, <1>8, SizeFacts
<1>10. ring.data \in [0 .. MaxSize - 1 -> 0 .. NDown]
  BY <1>1 DEF Downward, Slots
<1>11. Len(fd.in) <= FdRcv /\ Len(fd.out) <= FdSnd
  BY <1>1 DEF Stages, Scheduled
<1> QED
  BY <1>2, <1>3, <1>4, <1>5, <1>6, <1>7, <1>8, <1>9, <1>10, <1>11 DEF TypeOK

\* A shorter run from the same start is a prefix of a longer one.
LEMMA RunPrefix ==
  ASSUME NEW n \in Nat, NEW m \in Nat, n <= m
  PROVE  IsPrefix(Run(0, n), Bytes(m))
<1>1. Bytes(m) = Run(0, m)
  BY BytesRun
<1>2. Len(Run(0, n)) = n /\ Len(Run(0, m)) = m
  BY RunIs
<1>3. Take(Run(0, m), n) = Run(0, n)
  BY RunCut
<1>4. Take(Run(0, n), n) = Run(0, n)
  BY RunCut
<1> QED
  BY <1>1, <1>2, <1>3, <1>4 DEF IsPrefix, Take

\* Two runs that follow one another, from the first byte on, are one.
LEMMA RunChain ==
  ASSUME NEW a \in Nat, NEW b \in Nat
  PROVE  Run(0, a) \o Run(a, b) = Run(0, a + b)
<1> DEFINE o == 0
<1>1. o \in Int /\ o + a = a
  OBVIOUS
<1> HIDE DEF o
<1>2. Run(o, a) \o Run(o + a, b) = Run(o, a + b)
  BY <1>1, RunJoin
<1> QED
  BY <1>1, <1>2 DEF o

\* Neither stream loses, repeats or reorders a byte.
LEMMA StreamsAre == ASSUME SessionInv, StreamInv PROVE StreamsConserved
<1> DEFINE up == Payload(srv.got) \o Payload(fd.out) \o pcb.queue
           down == app.got \o Sending \o Payload(fd.in) \o Payload(srv.todo)
           whole == task.state # "STOPPED" /\ ~fd.rst
           u == UpGot
           o == UpOut
           q == Len(pcb.queue)
           s == app.sent
           g == Len(app.got)
           l == Len(pcb.segs)
           i == DownIn
           t == DownTodo
           d == mode.down
<1>1. Upward /\ Downward
  BY DEF StreamInv
<1>2. /\ u \in Nat /\ o \in Nat /\ q \in Nat /\ g \in Nat /\ l \in Nat /\ i \in Nat /\ t \in Nat
      /\ s \in Int
  BY Lengths
<1>3. d \in 0 .. NDown /\ d \in Nat /\ NDown \in Nat
  BY CaseIs
<1>4. /\ s >= 0 /\ u + o + q <= s /\ (whole => u + o + q = s)
      /\ Payload(srv.got) = Run(0, u) /\ Payload(fd.out) = Run(u, o) /\ pcb.queue = Run(s - q, q)
  BY <1>1 DEF Upward
<1>5. /\ Payload(srv.todo) = Run(d - t, t) /\ Payload(fd.in) = Run(d - t - i, i)
      /\ app.cut # "hole" => /\ app.got = Run(0, g) /\ Sending = Run(g, l)
                             /\ g + l + i + t <= d
      /\ whole /\ app.cut = "no" /\ pcb.ref => g + l + i + t = d
  BY <1>1 DEF Downward
<1> HIDE DEF u, o, q, s, g, l, i, t, d
<1>6. s \in Nat /\ u <= s
  BY <1>2, <1>4
<1>7. IsPrefix(Payload(srv.got), Bytes(s))
  BY <1>2, <1>4, <1>6, RunPrefix
<1>8. app.cut # "hole" => IsPrefix(app.got \o Sending, Bytes(NDown))
  <2> SUFFICES ASSUME app.cut # "hole" PROVE IsPrefix(app.got \o Sending, Bytes(NDown))
    OBVIOUS
  <2>0. Run(0, g) \o Run(g, l) = Run(0, g + l)
    BY <1>2, RunChain
  <2>1. app.got \o Sending = Run(0, g + l)
    BY <1>5, <2>0
  <2> DEFINE k == g + l
  <2>2. k \in Nat /\ k <= NDown
    BY <1>2, <1>3, <1>5
  <2> HIDE DEF k
  <2>3. IsPrefix(Run(0, k), Bytes(NDown))
    BY <1>3, <2>2, RunPrefix
  <2> QED
    BY <2>1, <2>3 DEF k
<1>9. whole => up = Bytes(s)
  <2> SUFFICES ASSUME whole PROVE up = Bytes(s)
    OBVIOUS
  <2>1. s - q = u + o /\ s = u + o + q
    BY <1>2, <1>4, <1>6
  <2> DEFINE a == u + o
  <2>2. Run(0, u) \o Run(u, o) = Run(0, a) /\ a \in Nat /\ s - q = a /\ s = a + q
    <3>1. Run(0, u) \o Run(u, o) = Run(0, u + o)
      BY <1>2, RunChain
    <3>2. a \in Nat /\ s - q = a /\ s = a + q
      BY <1>2, <2>1
    <3> QED
      BY <3>1, <3>2
  <2> HIDE DEF a
  <2>3. Run(0, a) \o Run(a, q) = Run(0, a + q)
    BY <1>2, <2>2, RunChain
  <2>4. Payload(srv.got) = Run(0, u) /\ Payload(fd.out) = Run(u, o) /\ pcb.queue = Run(s - q, q)
    BY <1>4
  <2>5. up = Run(0, s)
    BY <2>2, <2>3, <2>4
  <2> QED
    BY <2>5, <1>6, BytesRun
<1>10. whole /\ app.cut = "no" /\ pcb.ref => down = Bytes(d)
  <2> SUFFICES ASSUME whole, app.cut = "no", pcb.ref PROVE down = Bytes(d)
    OBVIOUS
  <2> DEFINE k == g + l
  <2>1. k \in Nat /\ d - t - i = k /\ d - t = k + i /\ d = k + i + t
    BY <1>2, <1>3, <1>5
  <2>2. Run(0, g) \o Run(g, l) = Run(0, k)
    BY <1>2, RunChain
  <2> HIDE DEF k
  <2> DEFINE a == k + i
  <2>3. Run(0, k) \o Run(k, i) = Run(0, a) /\ a \in Nat /\ d - t = a /\ d = a + t
    <3>1. Run(0, k) \o Run(k, i) = Run(0, k + i)
      BY <1>2, <2>1, RunChain
    <3>2. a \in Nat /\ d - t = a /\ d = a + t
      BY <1>2, <2>1
    <3> QED
      BY <3>1, <3>2
  <2> HIDE DEF a
  <2>4. Run(0, a) \o Run(a, t) = Run(0, a + t) /\ d - t - i = k
    BY <1>2, <2>1, <2>3, RunChain
  <2>5. /\ Payload(srv.todo) = Run(d - t, t) /\ Payload(fd.in) = Run(d - t - i, i)
        /\ app.got = Run(0, g) /\ Sending = Run(g, l)
    BY <1>5
  <2>6. down = Run(0, d)
    BY <2>2, <2>3, <2>4, <2>5
  <2> QED
    BY <2>6, <1>3, BytesRun
<1> QED
  BY <1>7, <1>8, <1>9, <1>10 DEF StreamsConserved, Sending, s, d

\* The ring's accounts are in order and no byte of either stream is lost, repeated or
\* reordered on its way through the queue, the sockets and the ring that lwIP sends from
\* without a copy, for any sizes and any interleaving of the two peers with the session
\* (tcp_splice_f, tcp_splice_b, hev-ring-buffer.c, the handshake's reads).
THEOREM StreamsAreConserved == Spec => []RingAccounts
<1>1. SessionInv /\ StreamInv => RingAccounts
  <2> SUFFICES ASSUME SessionInv, StreamInv PROVE RingAccounts
    OBVIOUS
  <2>1. TypeOK /\ StreamsConserved
    BY SessionTypes, StreamsAre
  <2>2. RingLedger
    BY DEF SessionInv, Ledger, RingLedger
  <2> QED
    BY <2>1, <2>2 DEF RingAccounts
<1> QED
  BY <1>1, StreamInductive, PTL

-----------------------------------------------------------------------------
(* Each direction is a byte stream. *)

\* The first n bytes of a direction.
LEMMA FirstBytes ==
  ASSUME NEW N \in Nat, NEW n \in 0 .. N
  PROVE  SubSeq(Bytes(N), 1, n) = Run(0, n) /\ Len(Bytes(N)) = N
<1>1. Bytes(N) = Run(0, N)
  BY BytesRun
<1> DEFINE o == 0
<1>2. o \in Int
  OBVIOUS
<1> HIDE DEF o
<1>3. Take(Run(o, N), n) = Run(o, n) /\ Len(Run(o, N)) = N
  BY <1>2, RunCut, RunIs
<1> QED
  BY <1>1, <1>3 DEF o, Take

\* A step that leaves alone what the app has sent, and what the server got and how it ended.
UpStays == app'.sent = app.sent /\ srv'.got = srv.got /\ srv'.end = srv.end

\* A step that leaves alone what the server has still to send, and what the app got and
\* how it ended.
DownStays == mode' = mode /\ srv'.todo = srv.todo /\ app'.got = app.got /\ app'.end = app.end

\* The steps that move no byte at either end of a stream.
LEMMA InnerStays ==
  ASSUME SessionInv, StreamInv,
         \/ Resume \/ Connect \/ HandshakeStep \/ SpliceF \/ SpliceB \/ SpliceDrain
         \/ Expire \/ IoPoll \/ TerminateSession \/ AppFin \/ TimeWaitOver
         \/ SrvConnect \/ SrvClose \/ UNCHANGED vars
  PROVE  UpStays /\ DownStays
<1>1. CASE Resume \/ Connect \/ SpliceDrain \/ Expire \/ IoPoll \/ TerminateSession \/ SrvConnect
  <2>1. Quiet
    BY <1>1, ResumeQuiet, ExpireQuiet, IoPollQuiet, TerminateQuiet, ConnectQuiet, DrainQuiet,
       SrvConnectQuiet
  <2> QED
    BY <2>1 DEF Quiet, UpStays, DownStays
<1>2. CASE HandshakeStep
  <2>1. UNCHANGED <<mode, app, srv>>
    BY <1>2, HandshakeDoes
  <2> QED
    BY <2>1 DEF UpStays, DownStays
<1>3. CASE SpliceF
  BY <1>3 DEF SpliceF, UpStays, DownStays
<1>4. CASE SpliceB
  <2>1. UNCHANGED <<mode, srv>>
    BY <1>4 DEF SpliceB
  <2>2. app'.sent = app.sent /\ app'.got = app.got /\ app'.end = app.end
    <3>1. CASE res.b >= 0
      <4>1. tcp_splice_b /\ task.pc = "splice_b" /\ task.cpu
        BY <1>4, <3>1 DEF SpliceB, At
      <4>2. task.state # "STOPPED"
        BY <4>1, Parts DEF Scheduled
      <4> QED
        BY <3>1, <4>1, <4>2, SpliceBMoves
    <3>2. CASE ~(res.b >= 0)
      BY <1>4, <3>2 DEF SpliceB
    <3> QED
      BY <3>1, <3>2
  <2> QED
    BY <2>1, <2>2 DEF UpStays, DownStays
<1>5. CASE AppFin \/ TimeWaitOver \/ SrvClose
  BY <1>5 DEF AppFin, TimeWaitOver, SrvClose, UpStays, DownStays
<1>6. CASE UNCHANGED vars
  BY <1>6 DEF vars, UpStays, DownStays
<1> QED
  BY <1>1, <1>2, <1>3, <1>4, <1>5, <1>6

\* Nothing has been sent yet.
LEMMA UpStart == Init => Up!StreamInit
<1> SUFFICES ASSUME Init PROVE Up!StreamInit
  OBVIOUS
<1>1. app.sent = 0 /\ srv.got = <<>> /\ srv.end = "open"
  BY DEF Init
<1>2. Payload(srv.got) = <<>>
  BY <1>1, StripEmpty DEF Payload
<1> QED
  BY <1>1, <1>2 DEF Up!StreamInit

\* A step that does nothing to the app's stream is a stutter of it.
LEMMA UpStutter == ASSUME UpStays PROVE UNCHANGED Up!streamVars
BY DEF UpStays, Up!streamVars

\* The app sends.
LEMMA UpSend == ASSUME SessionInv, StreamInv, AppSend PROVE Up!Send
<1>1. Upward' /\ mode' = mode
  BY AppSendStreams DEF StreamInv, AppSend
<1>2. PICK n \in 1 .. Least(pcb.wnd, mode.up - app.sent) : app' = [app EXCEPT !.sent = @ + n]
  BY DEF AppSend
<1>3. app \in AppType /\ app.sent \in Int
  BY Parts DEF AppType
<1>4. app'.sent = app.sent + n /\ app'.got = app.got
  BY <1>2, <1>3 DEF AppType
<1>5. n \in Int /\ n >= 1
  BY <1>2
<1>6. app'.sent \in 0 .. mode.up
  BY <1>1 DEF Upward
<1>7. mode.up \in 0 .. NUp /\ NUp \in Nat
  BY CaseIs
<1>8. Len(Bytes(NUp)) = NUp
  BY <1>7, FirstBytes
<1>9. app'.sent \in app.sent + 1 .. Len(Bytes(NUp))
  BY <1>3, <1>4, <1>5, <1>6, <1>7, <1>8
<1>10. srv' = srv
  BY DEF AppSend
<1> QED
  BY <1>9, <1>10 DEF Up!Send, Payload

\* The server reads: it gets the next bytes, or messages only.
LEMMA UpDeliver ==
  ASSUME SessionInv, StreamInv, SrvRead
  PROVE  Up!Deliver \/ UNCHANGED Up!streamVars
<1>1. Upward /\ UpEnds /\ Upward'
  BY SrvReadStreams DEF StreamInv
<1>2. app' = app /\ mode' = mode /\ fd.out # <<>> /\ srv' = [srv EXCEPT !.got = @ \o fd.out]
  BY DEF SrvRead
<1>3. srv \in SrvType
  BY Parts
<1>4. srv'.got = srv.got \o fd.out /\ srv'.end = srv.end
  BY <1>2, <1>3 DEF SrvType
<1>5. srv.end = "open"
  BY <1>1, <1>2 DEF UpEnds
<1>6. srv.got \in Seq(Int) /\ fd.out \in Seq(Int) /\ UpGot \in Nat /\ UpOut \in Nat /\ app.sent \in Int
      /\ Len(pcb.queue) \in Nat
  BY Lengths
<1> DEFINE b == Payload(srv.got)
           c == Payload(fd.out)
           n == UpGot + UpOut
<1>7. Payload(srv.got \o fd.out) = b \o c
  BY <1>6, PayloadJoin
<1>8. b = Run(0, UpGot) /\ c = Run(UpGot, UpOut) /\ UpGot + UpOut + Len(pcb.queue) <= app.sent
      /\ app.sent \in 0 .. mode.up
  BY <1>1 DEF Upward
<1>9. Run(0, UpGot) \o Run(UpGot, UpOut) = Run(0, UpGot + UpOut)
  BY <1>6, RunChain
<1>10. Payload(srv'.got) = Run(0, n)
  BY <1>4, <1>7, <1>8, <1>9
<1>11. mode.up \in 0 .. NUp /\ NUp \in Nat
  BY CaseIs
<1>12. n \in 0 .. NUp /\ n <= app.sent /\ n \in Nat
  <2> DEFINE u == UpGot
             o == UpOut
             q == Len(pcb.queue)
             t == app.sent
  <2>1. /\ u \in Nat /\ o \in Nat /\ q \in Nat /\ t \in Int /\ u + o + q <= t
        /\ t \in 0 .. mode.up /\ mode.up \in 0 .. NUp /\ NUp \in Nat
    BY <1>6, <1>8, <1>11
  <2> HIDE DEF u, o, q, t
  <2>2. u + o \in 0 .. NUp /\ u + o <= t /\ u + o \in Nat
    BY <2>1
  <2> QED
    BY <2>2 DEF u, o, t
<1> HIDE DEF n
<1>13. SubSeq(Bytes(NUp), 1, n) = Run(0, n)
  BY <1>11, <1>12, FirstBytes
<1>14. CASE UpOut = 0
  <2>1. n = UpGot
    BY <1>6, <1>14 DEF n
  <2>2. Payload(srv'.got) = Payload(srv.got)
    BY <2>1, <1>8, <1>10
  <2>3. UNCHANGED Up!streamVars
    BY <2>2, <1>2, <1>4 DEF Up!streamVars, Payload
  <2> QED
    BY <2>3
<1>15. CASE UpOut # 0
  <2>1. n \in Len(Payload(srv.got)) + 1 .. app.sent
    BY <1>6, <1>12, <1>15 DEF n, UpGot
  <2>2. \E m \in Len(Payload(srv.got)) + 1 .. app.sent : Payload(srv'.got) = SubSeq(Bytes(NUp), 1, m)
    BY <2>1, <1>10, <1>13
  <2>3. Up!Deliver
    BY <2>2, <1>2, <1>4, <1>5 DEF Up!Deliver, Payload
  <2> QED
    BY <2>3
<1> QED
  BY <1>14, <1>15

\* The server finds the end: behind the app's last byte, or where a session given up
\* closed its socket.
LEMMA UpFinish ==
  ASSUME SessionInv, StreamInv, SrvEof
  PROVE  Up!Finish \/ (Up!Truncate /\ fd.state = "closed" /\ ~fd.shut)
<1>1. Upward /\ UpEnds
  BY DEF StreamInv
<1>2. /\ app' = app /\ srv.end = "open" /\ fd.out = <<>> /\ ~fd.rst
      /\ srv' = [srv EXCEPT !.end = "fin"] /\ (fd.shut \/ fd.state = "closed")
  BY DEF SrvEof
<1>3. srv \in SrvType
  BY Parts
<1>4. srv'.got = srv.got /\ srv'.end = "fin"
  BY <1>2, <1>3 DEF SrvType
<1>5. CASE fd.shut
  <2>1. UpGot + UpOut = app.sent /\ Payload(srv.got) = Run(0, UpGot)
    BY <1>1, <1>2, <1>5 DEF UpEnds, Upward
  <2>2. UpOut = 0
    BY <1>2, StripEmpty DEF UpOut, Payload
  <2>3. UpGot \in Nat
    BY Lengths
  <2>4. UpGot = app.sent
    BY <2>1, <2>2, <2>3
  <2>5. app.sent \in 0 .. mode.up /\ mode.up \in 0 .. NUp /\ NUp \in Nat
    BY <1>1, CaseIs DEF Upward
  <2>6. app.sent \in 0 .. NUp
    BY <2>5
  <2>7. SubSeq(Bytes(NUp), 1, app.sent) = Run(0, app.sent)
    BY <2>5, <2>6, FirstBytes
  <2>8. Payload(srv'.got) = SubSeq(Bytes(NUp), 1, app.sent)
    BY <1>4, <2>1, <2>4, <2>7
  <2>9. Up!Finish
    BY <1>2, <1>4, <1>5, <2>8 DEF Up!Finish, Payload
  <2> QED
    BY <2>9
<1>6. CASE ~fd.shut
  <2>1. Up!Truncate
    BY <1>2, <1>4 DEF Up!Truncate, Payload
  <2> QED
    BY <1>2, <1>6, <2>1
<1> QED
  BY <1>5, <1>6

\* The connection is reset.
LEMMA UpCut == ASSUME SessionInv, Reset PROVE Up!Cut \/ UNCHANGED Up!streamVars
<1>1. app' = app /\ srv' = [srv EXCEPT !.end = IF @ = "open" THEN "cut" ELSE @]
  BY DEF Reset
<1>2. srv \in SrvType
  BY Parts
<1>3. srv'.got = srv.got /\ srv'.end = IF srv.end = "open" THEN "cut" ELSE srv.end
  BY <1>1, <1>2 DEF SrvType
<1>4. CASE srv.end = "open"
  <2>1. Up!Cut
    BY <1>1, <1>3, <1>4 DEF Up!Cut, Payload
  <2> QED
    BY <2>1
<1>5. CASE srv.end # "open"
  <2>1. UpStays
    BY <1>1, <1>3, <1>5 DEF UpStays
  <2> QED
    BY <2>1, UpStutter
<1> QED
  BY <1>4, <1>5

\* Every step is a step of the app's stream, or none, but for the end of a session given up.
LEMMA UpStep ==
  SessionInv /\ StreamInv /\ [Next]_vars =>
    [Up!StreamNext \/ (Up!Truncate /\ fd.state = "closed" /\ ~fd.shut)]_(Up!streamVars)
<1> SUFFICES ASSUME SessionInv, StreamInv, [Next]_vars
             PROVE  \/ Up!StreamNext \/ (Up!Truncate /\ fd.state = "closed" /\ ~fd.shut)
                    \/ UNCHANGED Up!streamVars
  OBVIOUS
<1>1. CASE AppSend
  BY <1>1, UpSend DEF Up!StreamNext
<1>2. CASE SrvRead
  BY <1>2, UpDeliver DEF Up!StreamNext
<1>3. CASE SrvEof
  BY <1>3, UpFinish DEF Up!StreamNext
<1>4. CASE SrvCut \/ SrvReset
  BY <1>4, UpCut DEF Up!StreamNext, SrvCut, SrvReset
<1>5. CASE \/ Resume \/ Connect \/ HandshakeStep \/ SpliceF \/ SpliceB \/ SpliceDrain
           \/ Expire \/ IoPoll \/ TerminateSession \/ AppFin \/ TimeWaitOver
           \/ SrvConnect \/ SrvClose \/ UNCHANGED vars
  BY <1>5, InnerStays, UpStutter
<1>6. CASE Destruct \/ AppAck \/ AppAckFin \/ PcbError \/ SrvSend
  <2>1. app \in AppType /\ srv \in SrvType
    BY Parts
  <2>2. UpStays
    <3>1. CASE Destruct \/ AppAckFin \/ PcbError
      BY <2>1, <3>1 DEF Destruct, AppAckFin, PcbError, UpStays, AppType
    <3>2. CASE AppAck
      BY <2>1, <3>2 DEF AppAck, UpStays, AppType
    <3>3. CASE SrvSend
      BY <2>1, <3>3 DEF SrvSend, UpStays, SrvType
    <3> QED
      BY <1>6, <3>1, <3>2, <3>3
  <2> QED
    BY <2>2, UpStutter
<1> QED
  BY <1>1, <1>2, <1>3, <1>4, <1>5, <1>6 DEF Next, TaskStep

\* The app has got nothing yet.
LEMMA DownStart == Init => Down!StreamInit
<1> SUFFICES ASSUME Init PROVE Down!StreamInit
  OBVIOUS
<1>1. app.got = <<>> /\ app.end = "open" /\ mode.down \in Nat
  BY SessionConstants DEF Init
<1>2. Len(Payload(srv.todo)) = mode.down
  BY TodoStart DEF DownTodo
<1>3. mode.down - Len(Payload(srv.todo)) = 0
  BY <1>1, <1>2
<1> QED
  BY <1>1, <1>3 DEF Down!StreamInit

\* A step that does nothing to the server's stream is a stutter of it.
LEMMA DownStutter == ASSUME DownStays PROVE UNCHANGED Down!streamVars
BY DEF DownStays, Down!streamVars

\* The server answers, or sends a byte.
LEMMA DownSend ==
  ASSUME SessionInv, StreamInv, SrvSend
  PROVE  Down!Send \/ UNCHANGED Down!streamVars
<1>1. mode' = mode /\ app' = app /\ srv.todo # <<>> /\ srv' = [srv EXCEPT !.todo = Tail(@)]
  BY DEF SrvSend
<1>2. srv \in SrvType
  BY Parts
<1> DEFINE o == srv.todo
           p == Payload(o)
           r == Payload(Tail(o))
           d == mode.down
<1>3. srv'.todo = Tail(o)
  BY <1>1, <1>2 DEF SrvType
<1>4. o \in Seq(Int) /\ o # <<>> /\ DownTodo \in Nat
  BY <1>1, Lengths
<1>5. d \in 0 .. NDown /\ NDown \in Nat
  BY CaseIs
<1>6. Len(Bytes(NDown)) = NDown
  BY <1>5, FirstBytes
<1> HIDE DEF o, d
<1>7. Tail(o) \in Seq(Int) /\ Head(o) \in Int
  BY <1>4
<1>8. p = IF Head(o) \in Messages THEN r ELSE <<Head(o)>> \o r
  BY <1>4, PayloadTail
<1>9. r \in Seq(Int) /\ Len(r) \in Nat
  BY <1>7, PayloadType
<1> HIDE DEF p, r
<1>10. CASE Head(o) \in Messages
  <2>1. Payload(srv'.todo) = Payload(srv.todo)
    BY <1>3, <1>8, <1>10 DEF p, r, o
  <2>2. UNCHANGED Down!streamVars
    BY <1>1, <2>1 DEF Down!streamVars, Payload
  <2> QED
    BY <2>2
<1>11. CASE Head(o) \notin Messages
  <2>1. p = <<Head(o)>> \o r
    BY <1>8, <1>11
  <2>2. Len(p) = Len(r) + 1
    BY <2>1, <1>7, <1>9
  <2>3. d - Len(r) \in (d - Len(p)) + 1 .. NDown
    BY <2>2, <1>5, <1>9
  <2>4. d - Len(Payload(srv'.todo)) \in (d - Len(Payload(srv.todo))) + 1 .. Len(Bytes(NDown))
    BY <2>3, <1>3, <1>6 DEF p, r, o
  <2>5. Down!Send
    BY <2>4, <1>1 DEF Down!Send, Payload, d
  <2> QED
    BY <2>5
<1> QED
  BY <1>10, <1>11

\* The app acknowledges: it has got the next bytes, but for the hole.
LEMMA DownDeliver ==
  ASSUME SessionInv, StreamInv, AppAck
  PROVE  Down!Deliver \/ app'.cut = "hole"
<1>1. Downward' /\ DownEnds /\ Downward
  BY AppAckStreams DEF StreamInv
<1> DEFINE got(n) == [i \in 1 .. n |-> ring.data[pcb.segs[i]]]
<1>3. PICK n \in 1 .. Len(pcb.segs) : app' = [app EXCEPT !.got = @ \o got(n)]
  BY DEF AppAck
<1>4. UNCHANGED <<mode, srv>>
  BY DEF AppAck
<1>5. app \in AppType /\ pcb.segs \in Seq(Slots) /\ app.got \in Seq(Int) /\ Len(app.got) \in Nat
      /\ Len(pcb.segs) \in Nat /\ DownTodo \in Nat
  BY Parts, Lengths
<1>6. n \in Nat /\ n >= 1 /\ pcb.segs # <<>>
  BY <1>3, <1>5
<1>7. Len(got(n)) = n /\ got(n) \in Seq(Int)
  <2>1. ring.data \in [Slots -> Int]
    BY Parts DEF RingType
  <2>2. \A i \in 1 .. n : pcb.segs[i] \in Slots
    BY <1>3, <1>5, ElementOfSeq
  <2>3. \A i \in 1 .. n : ring.data[pcb.segs[i]] \in Int
    BY <2>1, <2>2
  <2> QED
    BY <2>3, <1>6
<1> HIDE DEF got
<1>8. app'.got = app.got \o got(n) /\ app'.end = app.end /\ app'.sent = app.sent
  BY <1>3, <1>5 DEF AppType
<1>9. Len(app'.got) = Len(app.got) + n
  <2> DEFINE x == app.got
             y == got(n)
  <2>1. x \in Seq(Int) /\ y \in Seq(Int) /\ Len(y) = n
    BY <1>5, <1>7
  <2> HIDE DEF x, y
  <2>2. Len(x \o y) = Len(x) + Len(y)
    BY <2>1, ConcatProperties
  <2> QED
    BY <2>1, <2>2, <1>8 DEF x, y
<1>10. app.end = "open"
  BY <1>1, <1>6 DEF DownEnds
<1>11. CASE app'.cut # "hole"
  <2> DEFINE h == Len(app'.got)
             g == Len(app.got)
             l == Len(pcb.segs)
             i == DownIn
             d == mode.down
             t == Len(Payload(srv.todo))
  <2>1. app'.got = Run(0, h)
    BY <1>1, <1>11 DEF Downward
  <2>2. app.cut # "hole"
    BY <1>3, <1>5, <1>11 DEF AppType
  <2>3. g + l + i + t <= d
    BY <1>1, <2>2 DEF Downward, DownTodo
  <2>4. d \in 0 .. NDown /\ NDown \in Nat
    BY CaseIs
  <2>5. h = g + n /\ n \in 1 .. l /\ g \in Nat /\ l \in Nat /\ i \in Nat /\ t \in Nat
    BY <1>3, <1>5, <1>9, Lengths DEF DownTodo
  <2> HIDE DEF h, g, l, i, d, t
  <2>6. h \in Nat /\ h <= NDown /\ h \in g + 1 .. d - t
    BY <2>3, <2>4, <2>5
  <2>7. SubSeq(Bytes(NDown), 1, h) = Run(0, h)
    <3>1. h \in 0 .. NDown
      BY <2>4, <2>6
    <3> QED
      BY <3>1, <2>4, FirstBytes
  <2>8. \E m \in g + 1 .. d - t : app'.got = SubSeq(Bytes(NDown), 1, m)
    BY <2>1, <2>6, <2>7
  <2>9. Down!Deliver
    BY <1>4, <1>8, <1>10, <2>8 DEF Down!Deliver, g, d, t
  <2> QED
    BY <2>9
<1> QED
  BY <1>11

\* The app acknowledges the session's FIN: it comes behind the server's last byte, or
\* stands for the server's reset.
LEMMA DownFinish ==
  ASSUME SessionInv, StreamInv, AppAckFin
  PROVE  Down!Finish \/ (Down!Truncate /\ app.cut = "server")
<1>1. Downward /\ DownEnds
  BY DEF StreamInv
<1>2. /\ UNCHANGED <<mode, srv>> /\ pcb.segs = <<>> /\ pcb.ref
      /\ pcb.lw \in {"FIN_WAIT_1", "CLOSING", "LAST_ACK"}
      /\ app' = [app EXCEPT !.end = "fin"]
  BY DEF AppAckFin, Callbacks
<1>3. app \in AppType
  BY Parts
<1>4. app'.got = app.got /\ app'.end = "fin"
  BY <1>2, <1>3 DEF AppType
<1>5. app.end = "open"
  BY <1>1, <1>2 DEF DownEnds
<1>6. CASE app.cut = "server"
  <2>1. Down!Truncate
    BY <1>2, <1>4, <1>5 DEF Down!Truncate, Payload
  <2> QED
    BY <1>6, <2>1
<1>7. CASE app.cut # "server"
  <2> DEFINE g == Len(app.got)
             d == mode.down
             t == Len(Payload(srv.todo))
  <2>1. app.cut = "no" /\ g + Len(pcb.segs) + t = d
    BY <1>1, <1>2, <1>7 DEF DownEnds, DownTodo
  <2>2. app.got = Run(0, g)
    BY <1>1, <2>1 DEF Downward
  <2>3. g \in Nat /\ t \in Nat /\ Len(pcb.segs) = 0
    BY <1>2, Lengths DEF DownTodo
  <2>4. d \in 0 .. NDown /\ NDown \in Nat
    BY CaseIs
  <2> HIDE DEF g, d, t
  <2>5. d - t = g /\ g \in 0 .. NDown
    BY <2>1, <2>3, <2>4
  <2>6. SubSeq(Bytes(NDown), 1, g) = Run(0, g)
    BY <2>4, <2>5, FirstBytes
  <2>7. app'.got = SubSeq(Bytes(NDown), 1, d - t)
    BY <1>4, <2>2, <2>5, <2>6
  <2>8. Down!Finish
    BY <1>2, <1>4, <1>5, <1>7, <2>7 DEF Down!Finish, Payload, d, t
  <2> QED
    BY <2>8
<1> QED
  BY <1>6, <1>7

\* A reset by the app, and the end of the session, cut what has not ended.
LEMMA DownCut ==
  ASSUME SessionInv, PcbError \/ Destruct
  PROVE  Down!Cut \/ UNCHANGED Down!streamVars
<1>1. app \in AppType
  BY Parts
<1>2. /\ UNCHANGED <<mode, srv>> /\ app'.got = app.got
      /\ app'.end = IF app.end = "open" THEN "cut" ELSE app.end
  BY <1>1 DEF PcbError, Destruct, AppType
<1>3. CASE app.end = "open"
  <2>1. Down!Cut
    BY <1>2, <1>3 DEF Down!Cut, Payload
  <2> QED
    BY <2>1
<1>4. CASE app.end # "open"
  <2>1. DownStays
    BY <1>2, <1>4 DEF DownStays
  <2> QED
    BY <2>1, DownStutter
<1> QED
  BY <1>3, <1>4

\* Every step is a step of the server's stream, or none, but for the hole and
\* the FIN that stands for the server's reset.
LEMMA DownStep ==
  SessionInv /\ StreamInv /\ [Next]_vars =>
    [Down!StreamNext \/ app.cut' = "hole" \/ (Down!Truncate /\ app.cut = "server")]_(Down!streamVars)
<1> SUFFICES ASSUME SessionInv, StreamInv, [Next]_vars
             PROVE  \/ Down!StreamNext \/ app.cut' = "hole" \/ (Down!Truncate /\ app.cut = "server")
                    \/ UNCHANGED Down!streamVars
  OBVIOUS
<1>1. CASE SrvSend
  BY <1>1, DownSend DEF Down!StreamNext
<1>2. CASE AppAck
  BY <1>2, DownDeliver DEF Down!StreamNext
<1>3. CASE AppAckFin
  BY <1>3, DownFinish DEF Down!StreamNext
<1>4. CASE PcbError \/ Destruct
  BY <1>4, DownCut DEF Down!StreamNext
<1>5. CASE \/ Resume \/ Connect \/ HandshakeStep \/ SpliceF \/ SpliceB \/ SpliceDrain
           \/ Expire \/ IoPoll \/ TerminateSession \/ AppFin \/ TimeWaitOver
           \/ SrvConnect \/ SrvClose \/ UNCHANGED vars
  BY <1>5, InnerStays, DownStutter
<1>6. CASE AppSend \/ SrvRead \/ SrvEof \/ SrvCut \/ SrvReset
  <2>1. app \in AppType /\ srv \in SrvType
    BY Parts
  <2>2. DownStays
    <3>1. CASE AppSend
      BY <2>1, <3>1 DEF AppSend, DownStays, AppType
    <3>2. CASE SrvRead \/ SrvEof \/ SrvCut \/ SrvReset
      BY <2>1, <3>2 DEF SrvRead, SrvEof, SrvCut, SrvReset, Reset, DownStays, SrvType
    <3> QED
      BY <1>6, <3>1, <3>2
  <2> QED
    BY <2>2, DownStutter
<1> QED
  BY <1>1, <1>2, <1>3, <1>4, <1>5, <1>6 DEF Next, TaskStep

\* The session implements a byte stream in each direction: what one side sends the other
\* gets, in order and each byte once; the server's end of stream comes after every byte
\* the app sent (shutdown, SHUT_WR), the app's FIN after every byte the server sent
\* (tcp_splice_f, tcp_splice_b); and what is cut short looks like a clean end only where
\* the server reset the connection, or the session was given up before its shutdown.
THEOREM SessionIsByteStreams == Spec => ByteStreams
<1>1. Spec => UpIsStream
  BY UpStart, UpStep, StreamInductive, PTL DEF Spec, UpIsStream
<1>2. Spec => DownIsStream
  BY DownStart, DownStep, StreamInductive, PTL DEF Spec, DownIsStream
<1> QED
  BY <1>1, <1>2 DEF ByteStreams
=============================================================================
