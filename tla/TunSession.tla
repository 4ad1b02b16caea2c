----------------------------- MODULE TunSession -----------------------------
(***************************************************************************)
(* One TCP session of the tun2socks engine: the coroutine that connects to *)
(* the SOCKS server, shakes hands and splices the app's connection, which  *)
(* lwIP terminates (pcb), with the server's socket (fd).                   *)
(*                                                                         *)
(* The scheduler is cooperative: while the session's task is on the CPU no *)
(* lwIP callback runs, but the kernel's sockets and the server do.  epoll  *)
(* is edge triggered: an event that arrives while the task is runnable is  *)
(* consumed and not repeated.  The ring buffer is handed to lwIP without   *)
(* copying, so its slots must stay untouched until they are acknowledged.  *)
(***************************************************************************)
EXTENDS SequencesExt, SeqFilter

CONSTANTS
  NUp,        \* the most bytes the app sends
  NDown,      \* the most bytes the server sends
  TcpWnd,     \* TCP_WND, lwIP's receive window
  SndBuf,     \* TCP_SND_BUF, lwIP's send buffer
  BufferSize, \* misc.tcp-buffer-size of the configuration
  FdSnd,      \* what the socket to the server holds unread by the server
  FdRcv,      \* and unread by the session
  Iov,        \* how much one writev takes of the queue (64 pbufs)
  Cases       \* the handshakes, the bytes to send, and what may go wrong

FaultKinds == {"terminate", "timer", "reset", "server", "mem", "tun", "timewait"}

ASSUME SessionConstants ==
  /\ {NUp, NDown} \subseteq Nat
  /\ {TcpWnd, SndBuf, BufferSize, FdSnd, FdRcv, Iov} \subseteq Nat \ {0}
  /\ Cases \subseteq [pipeline : BOOLEAN, auth : BOOLEAN, up : 0 .. NUp,
                      down : 0 .. NDown, faults : SUBSET FaultKinds]

VARIABLES
  mode,  \* the case of this session
  task,  \* the coroutine: state, on CPU, where it is, its sleep and timeout
  res,   \* res_f and res_b of the splice loop
  pcb,   \* the session's view of the app's connection and lwIP's
  ring,  \* the ring buffer between the server and lwIP
  fd,    \* the socket to the SOCKS server
  app,   \* the app behind the TUN device
  srv    \* the SOCKS server

vars == <<mode, task, res, pcb, ring, fd, app, srv>>

-----------------------------------------------------------------------------
May(fault) == fault \in mode.faults

(* Messages.  Payload bytes are 1, 2, ...; handshake messages are negative. *)

METHODS == -1
CREDS   == -2
REQUEST == -3
METHOD  == -4
GRANTED == -5
REPLY   == -6
ADDR    == -7
REFUSED == -8

Messages == {METHODS, CREDS, REQUEST, METHOD, GRANTED, REPLY, ADDR, REFUSED}

Bytes(n) == [i \in 1 .. n |-> i]
Payload(s) == Strip(s, Messages)
Least(a, b) == IF a < b THEN a ELSE b
Drop(s, n) == SubSeq(s, n + 1, Len(s))
Take(s, n) == SubSeq(s, 1, n)

(* The handshake as the sequence of messages to write and to read. *)
Handshake(m) ==
  LET creds == IF m.auth THEN <<CREDS>> ELSE <<>>
      granted == IF m.auth THEN <<GRANTED>> ELSE <<>>
  IN IF m.pipeline
     THEN <<METHODS>> \o creds \o <<REQUEST, METHOD>> \o granted \o <<REPLY, ADDR>>
     ELSE <<METHODS, METHOD>> \o creds \o granted \o <<REQUEST, REPLY, ADDR>>

Written == {METHODS, CREDS, REQUEST}

-----------------------------------------------------------------------------
(* The ring buffer (hev-ring-buffer.c). *)

(* Mutant: the configured size is taken as it is. *)
MaxSizeUnclamped == BufferSize

(* hev_config clamps the ring to lwIP's send buffer. *)
MaxSize == Least(BufferSize, SndBuf)

RingInit == [data |-> [i \in 0 .. MaxSize - 1 |-> 0],
             rp |-> 0, wp |-> 0, rda |-> 0, use |-> 0]

(* The slots to read, in at most two runs as an iovec gives them. *)
Reading(r) ==
  LET upper == MaxSize - r.rp
      run(a, n) == [i \in 1 .. n |-> a + i - 1]
  IN CASE r.rda = 0 -> <<>>
       [] r.rda \in 1 .. upper -> <<run(r.rp, r.rda)>>
       [] r.rda > upper -> <<run(r.rp, upper), run(0, r.rda - upper)>>

ReadFinish(r, n) == [r EXCEPT !.rp = (@ + n) % MaxSize, !.rda = @ - n]

ReadRelease(r, n) ==
  LET left == r.use - n
  IN IF left = 0 THEN [r EXCEPT !.use = 0, !.rp = 0, !.wp = 0]
     ELSE [r EXCEPT !.use = left]

(* readv fills the free slots from wp on, around the end, and write_finish *)
(* accounts for them.                                                      *)
Writing(r) == MaxSize - r.use

WriteFinish(r, bytes) ==
  LET nth(i) == ((i - r.wp) % MaxSize) + 1
  IN [r EXCEPT !.data = [i \in DOMAIN @ |->
                           IF nth(i) <= Len(bytes) THEN bytes[nth(i)] ELSE @[i]],
               !.wp = (@ + Len(bytes)) % MaxSize,
               !.use = @ + Len(bytes), !.rda = @ + Len(bytes)]

-----------------------------------------------------------------------------
(* The task system, as this task sees it. *)

Wake(t) == IF t.state = "WAITING" THEN [t EXCEPT !.state = "RUNNING"] ELSE t

(* Mutant: the timeout is 0 but nobody wakes the task. *)
TerminateAsleep(t) == [t EXCEPT !.timeout = 0]

(* hev_socks5_session_terminate *)
Terminate(t) == [Wake(t) EXCEPT !.timeout = 0]

(* A yield of type HEV_TASK_YIELD: back in the run queue. *)
Yield(t) == [t EXCEPT !.cpu = FALSE]

(* The yielder's HEV_TASK_WAITIO, to go on at pc when it returns 0 and at  *)
(* fail when it returns -1: a timeout of 0 fails at once, any other sleeps.*)
WaitIO(t, pc, fail) ==
  IF t.timeout = 0 THEN [t EXCEPT !.pc = fail]
  ELSE [t EXCEPT !.pc = pc, !.fail = fail, !.cpu = FALSE,
                 !.state = "WAITING", !.armed = TRUE]

(* The scheduler resumes the task; a sleep of which nothing is left fails. *)
Resume ==
  /\ task.state = "RUNNING" /\ ~task.cpu
  /\ task' = [task EXCEPT !.cpu = TRUE, !.armed = FALSE, !.expired = FALSE,
                          !.pc = IF task.expired THEN task.fail ELSE @]
  /\ UNCHANGED <<mode, res, pcb, ring, fd, app, srv>>

(* The sleep runs out: it wakes the task, or the task was woken before and *)
(* has not run yet.                                                        *)
Expire ==
  /\ May("timer")
  /\ task.armed /\ ~task.expired
  /\ task' = [Wake(task) EXCEPT !.expired = TRUE]
  /\ UNCHANGED <<mode, res, pcb, ring, fd, app, srv>>

(* io_poll: epoll reports the socket's edge. *)
IoPoll ==
  /\ fd.edge /\ ~task.cpu /\ task.state # "STOPPED"
  /\ fd' = [fd EXCEPT !.edge = FALSE]
  /\ task' = Wake(task)
  /\ UNCHANGED <<mode, res, pcb, ring, app, srv>>

(* The tunnel terminates the session: a stop, or the session limit. *)
TerminateSession ==
  /\ May("terminate")
  /\ ~task.cpu /\ task.state # "STOPPED" /\ ~app.terminated
  /\ task' = Terminate(task)
  /\ app' = [app EXCEPT !.terminated = TRUE]
  /\ UNCHANGED <<mode, res, pcb, ring, fd, srv>>

-----------------------------------------------------------------------------
(* Connecting and the handshake. *)

At(pc) == task.cpu /\ task.pc = pc

Connect ==
  /\ At("connect")
  /\ CASE fd.state = "none" ->
            /\ fd' = [fd EXCEPT !.state = "connecting"]
            /\ task' = WaitIO([task EXCEPT !.timeout = 1], "connect", "destruct")
       [] fd.state = "connecting" ->
            /\ task' = WaitIO(task, "connect", "destruct")
            /\ UNCHANGED fd
       [] fd.state = "refused" ->
            /\ task' = [task EXCEPT !.pc = "destruct"]
            /\ UNCHANGED fd
       [] fd.state = "up" ->
            /\ task' = [task EXCEPT !.pc = "handshake", !.timeout = 1]
            /\ UNCHANGED fd
  /\ UNCHANGED <<mode, res, pcb, ring, app, srv>>

(* The next message of the handshake is written or read; the last one read *)
(* starts the splice, which gives up when the app is gone already.         *)
HandshakeStep ==
  LET msg == Handshake(mode)[task.step]
      last == task.step = Len(Handshake(mode))
      next == [task EXCEPT !.step = @ + 1,
                           !.pc = IF ~last THEN @
                                  ELSE IF pcb.ref THEN "splice" ELSE "destruct"]
      failed == [task EXCEPT !.pc = "destruct"]
      again == WaitIO(task, "handshake", "destruct")
  IN /\ At("handshake")
     /\ IF msg \in Written
        THEN CASE fd.rst -> task' = failed /\ UNCHANGED fd
               [] ~fd.rst /\ Len(fd.out) = FdSnd ->
                    task' = again /\ fd' = [fd EXCEPT !.nospace = TRUE]
               [] OTHER -> task' = next /\ fd' = [fd EXCEPT !.out = Append(@, msg)]
        ELSE CASE fd.rst \/ (fd.in = <<>> /\ fd.eof) ->
                    task' = failed /\ UNCHANGED fd
               [] ~fd.rst /\ fd.in = <<>> /\ ~fd.eof ->
                    task' = again /\ UNCHANGED fd
               [] OTHER ->
                    /\ task' = IF Head(fd.in) = msg THEN next ELSE failed
                    /\ fd' = [fd EXCEPT !.in = Tail(@)]
     /\ UNCHANGED <<mode, res, pcb, ring, app, srv>>

-----------------------------------------------------------------------------
(* The splice loop. *)

(* Mutant: nothing opens the window again. *)
tcp_recvedNot(p, n) == p

tcp_recved(p, n) == IF p.ref THEN [p EXCEPT !.wnd = Least(@ + n, TcpWnd)] ELSE p

(* Mutant: the app's FIN is passed on ahead of what is still queued. *)
tcp_splice_fEager ==
  LET n == Least(Least(Len(pcb.queue), Iov), FdSnd - Len(fd.out))
  IN IF pcb.eof
     THEN res' = [res EXCEPT !.f = -1] /\ fd' = [fd EXCEPT !.shut = TRUE] /\ UNCHANGED pcb
     ELSE /\ res' = [res EXCEPT !.f = IF n > 0 THEN 1 ELSE 0]
          /\ fd' = [fd EXCEPT !.out = @ \o Take(pcb.queue, n),
                              !.nospace = n < Len(pcb.queue)]
          /\ pcb' = tcp_recved([pcb EXCEPT !.queue = Drop(@, n)], n)

(* App to server: writev from the queue, then open lwIP's window again. *)
tcp_splice_f ==
  LET want == Least(Len(pcb.queue), Iov)
      n == Least(want, FdSnd - Len(fd.out))
  IN CASE pcb.queue = <<>> /\ pcb.eof ->
            /\ res' = [res EXCEPT !.f = -1]
            /\ fd' = [fd EXCEPT !.shut = TRUE]
            /\ UNCHANGED pcb
       [] pcb.queue = <<>> /\ ~pcb.eof ->
            res' = [res EXCEPT !.f = 0] /\ UNCHANGED <<fd, pcb>>
       [] pcb.queue # <<>> /\ fd.rst ->
            res' = [res EXCEPT !.f = -1] /\ UNCHANGED <<fd, pcb>>
       [] pcb.queue # <<>> /\ ~fd.rst /\ n = 0 ->
            /\ res' = [res EXCEPT !.f = 0]
            /\ fd' = [fd EXCEPT !.nospace = TRUE]
            /\ UNCHANGED pcb
       [] OTHER ->
            /\ res' = [res EXCEPT !.f = 1]
            /\ fd' = [fd EXCEPT !.out = @ \o Take(pcb.queue, n), !.nospace = n < want]
            /\ pcb' = tcp_recved([pcb EXCEPT !.queue = Drop(@, n)], n)

SpliceF ==
  /\ At("splice")
  /\ IF res.f >= 0 THEN tcp_splice_f ELSE UNCHANGED <<res, fd, pcb>>
  /\ task' = [task EXCEPT !.pc = "splice_b"]
  /\ UNCHANGED <<mode, ring, app, srv>>

(* lwIP's tcp_write of each run, without copying: refused as a whole when  *)
(* it does not fit the send buffer or memory is short.                     *)
TcpWrite(segs, run, mem) ==
  IF mem \/ Len(segs) + Len(run) > SndBuf THEN segs ELSE segs \o run

(* Server to app: readv into the ring, then all of it to lwIP. *)
tcp_splice_b ==
  LET space == Writing(ring)
      n == Least(Len(fd.in), space)
      got == CASE space = 0 -> 0
               [] space > 0 /\ fd.rst -> -1
               [] space > 0 /\ ~fd.rst /\ n = 0 -> IF fd.eof THEN -1 ELSE 0
               [] OTHER -> 1
      filled == IF got = 1 THEN WriteFinish(ring, Take(fd.in, n)) ELSE ring
      runs == Reading(filled)
  IN /\ fd' = [fd EXCEPT !.in = IF got = 1 THEN Drop(@, n) ELSE @]
     /\ IF ~pcb.ref
        THEN ring' = filled /\ res' = [res EXCEPT !.b = -1] /\ UNCHANGED <<pcb, app>>
        ELSE IF runs = <<>>
        THEN /\ ring' = filled
             /\ res' = [res EXCEPT !.b = got]
             /\ pcb' = IF got = -1
                       THEN [pcb EXCEPT !.lw = IF @ = "CLOSE_WAIT" THEN "LAST_ACK"
                                               ELSE "FIN_WAIT_1"]
                       ELSE pcb
             /\ app' = [app EXCEPT !.cut = IF got = -1 /\ fd.rst THEN "server" ELSE @]
        ELSE \E mem \in SUBSET (IF May("mem") THEN DOMAIN runs ELSE {}),
                out \in (IF May("tun") THEN BOOLEAN ELSE {TRUE}) :
               LET one == TcpWrite(pcb.segs, runs[1], 1 \in mem)
                   all == IF Len(runs) = 2 THEN TcpWrite(one, runs[2], 2 \in mem)
                          ELSE one
                   ok == Len(all) = Len(pcb.segs) + filled.rda
                   cut == CASE ok -> IF out THEN app.cut ELSE "tun"
                            [] ~ok /\ mem = {} -> "full"
                            [] ~ok /\ mem # {} -> IF one # all THEN "hole" ELSE "short"
               IN /\ pcb' = [pcb EXCEPT !.segs = all]
                  /\ ring' = ReadFinish(filled, filled.rda)
                  /\ res' = [res EXCEPT !.b = IF ok /\ out THEN 1 ELSE -1]
                  /\ app' = [app EXCEPT !.cut = cut]

(* How the loop goes on: at once, after an event, or no more. *)
Decide(r) ==
  CASE r.f > 0 \/ r.b > 0 -> [Yield(task) EXCEPT !.pc = "splice"]
    [] r.f = -1 /\ r.b = -1 -> [task EXCEPT !.pc = "drain"]
    [] OTHER -> WaitIO(task, "splice", "drain")

SpliceB ==
  /\ At("splice_b")
  /\ IF res.b >= 0 THEN tcp_splice_b ELSE UNCHANGED <<res, fd, pcb, ring, app>>
  /\ task' = Decide(res')
  /\ UNCHANGED <<mode, srv>>

(* What the app has not acknowledged keeps the session, for one timeout. *)
SpliceDrain ==
  /\ At("drain")
  /\ task' = IF ~pcb.ref \/ ring.use = 0 THEN [task EXCEPT !.pc = "destruct"]
             ELSE WaitIO(task, "drain", "destruct")
  /\ UNCHANGED <<mode, res, pcb, ring, fd, app, srv>>

(* The task's end: the connection is aborted, the socket closed with what  *)
(* it holds in either direction.                                           *)
Destruct ==
  /\ At("destruct")
  /\ task' = [task EXCEPT !.cpu = FALSE, !.state = "STOPPED"]
  /\ pcb' = [pcb EXCEPT !.ref = FALSE, !.queue = <<>>, !.segs = <<>>,
                        !.lw = IF pcb.ref THEN "FREED" ELSE @]
  /\ app' = [app EXCEPT !.end = IF @ = "open" THEN "cut" ELSE @]
  /\ fd' = [fd EXCEPT !.state = IF @ = "up" THEN "closed" ELSE "none", !.edge = FALSE]
  /\ UNCHANGED <<mode, res, ring, srv>>

-----------------------------------------------------------------------------
(* lwIP: a segment of the app, or a timer, runs the session's callbacks.   *)

Callbacks == ~task.cpu /\ task.state # "STOPPED" /\ pcb.ref /\ pcb.lw # "FREED"

(* Mutant: the task is not told. *)
tcp_recv_handlerQuiet(bytes) ==
  /\ pcb' = [pcb EXCEPT !.queue = @ \o bytes, !.wnd = @ - Len(bytes)]
  /\ UNCHANGED task

(* tcp_recv_handler with data *)
tcp_recv_handler(bytes) ==
  /\ pcb.queue = <<>> \/ Len(pcb.queue) <= TcpWnd
  /\ pcb' = [pcb EXCEPT !.queue = @ \o bytes, !.wnd = @ - Len(bytes)]
  /\ task' = Wake(task)

AppSend ==
  /\ Callbacks /\ pcb.lw \in {"ESTABLISHED", "FIN_WAIT_1", "FIN_WAIT_2"}
  /\ \E n \in 1 .. Least(pcb.wnd, mode.up - app.sent) :
       /\ tcp_recv_handler([i \in 1 .. n |-> app.sent + i])
       /\ app' = [app EXCEPT !.sent = @ + n]
  /\ UNCHANGED <<mode, res, ring, fd, srv>>

(* tcp_recv_handler without data: the app's FIN. *)
AppFin ==
  /\ Callbacks /\ app.sent = mode.up
  /\ pcb.lw \in {"ESTABLISHED", "FIN_WAIT_1", "FIN_WAIT_2"}
  /\ pcb' = [pcb EXCEPT !.eof = TRUE,
                        !.lw = CASE @ = "ESTABLISHED" -> "CLOSE_WAIT"
                                 [] @ = "FIN_WAIT_1" -> "CLOSING"
                                 [] @ = "FIN_WAIT_2" -> "TIME_WAIT"]
  /\ task' = Wake(task)
  /\ UNCHANGED <<mode, res, ring, fd, app, srv>>

(* Mutant: room in the ring wakes nobody. *)
AppAckQuiet ==
  /\ Callbacks
  /\ \E n \in 1 .. Len(pcb.segs) :
       /\ app' = [app EXCEPT !.got = @ \o [i \in 1 .. n |-> ring.data[pcb.segs[i]]]]
       /\ pcb' = [pcb EXCEPT !.segs = Drop(@, n)]
       /\ ring' = ReadRelease(ring, n)
  /\ UNCHANGED <<mode, task, res, fd, srv>>

(* The app acknowledges what lwIP sends it out of the ring: tcp_sent_handler. *)
AppAck ==
  /\ Callbacks
  /\ \E n \in 1 .. Len(pcb.segs) :
       /\ app' = [app EXCEPT !.got = @ \o [i \in 1 .. n |-> ring.data[pcb.segs[i]]]]
       /\ pcb' = [pcb EXCEPT !.segs = Drop(@, n)]
       /\ ring' = ReadRelease(ring, n)
  /\ task' = Wake(task)
  /\ UNCHANGED <<mode, res, fd, srv>>

tcp_err_handler(p) == [p EXCEPT !.ref = FALSE]

(* The app acknowledges the FIN, which is the same whether the server      *)
(* closed or reset its connection.  The last one of LAST_ACK frees the pcb *)
(* and reports it: tcp_err_handler with ERR_CLSD.                          *)
AppAckFin ==
  /\ Callbacks /\ pcb.segs = <<>>
  /\ pcb.lw \in {"FIN_WAIT_1", "CLOSING", "LAST_ACK"}
  /\ app' = [app EXCEPT !.end = "fin"]
  /\ IF pcb.lw = "LAST_ACK"
     THEN /\ pcb' = tcp_err_handler([pcb EXCEPT !.lw = "FREED"])
          /\ task' = Terminate(task)
     ELSE /\ pcb' = [pcb EXCEPT !.lw = IF @ = "FIN_WAIT_1" THEN "FIN_WAIT_2"
                                       ELSE "TIME_WAIT"]
          /\ UNCHANGED task
  /\ UNCHANGED <<mode, res, ring, fd, srv>>

(* A reset by the app, or lwIP giving up on it: tcp_err_handler. *)
PcbError ==
  /\ May("reset")
  /\ Callbacks /\ pcb.lw # "TIME_WAIT"
  /\ pcb' = tcp_err_handler([pcb EXCEPT !.lw = "FREED", !.segs = <<>>])
  /\ app' = [app EXCEPT !.cut = IF @ = "no" THEN "reset" ELSE @,
                        !.end = IF @ = "open" THEN "cut" ELSE @]
  /\ task' = Terminate(task)
  /\ UNCHANGED <<mode, res, ring, fd, srv>>

(* tcp_slowtmr frees a pcb whose TIME_WAIT is over, and tells nobody.  A   *)
(* task does not stay runnable that long; it may be asleep that long, each *)
(* event starting its timeout again.                                       *)
TimeWaitOver ==
  /\ May("timewait")
  /\ task.state = "WAITING" /\ pcb.lw = "TIME_WAIT"
  /\ pcb' = [pcb EXCEPT !.lw = "FREED"]
  /\ UNCHANGED <<mode, task, res, ring, fd, app, srv>>

-----------------------------------------------------------------------------
(* The SOCKS server and the kernel's socket between it and the session.    *)

SrvConnect ==
  /\ fd.state = "connecting"
  /\ \E s \in {"up"} \cup (IF May("server") THEN {"refused"} ELSE {}) :
       fd' = [fd EXCEPT !.state = s, !.edge = TRUE]
  /\ UNCHANGED <<mode, task, res, pcb, ring, app, srv>>

(* The server reads, also what a closed socket still holds; room in a      *)
(* socket that ran out of it is an edge.                                   *)
SrvRead ==
  /\ fd.state \in {"up", "closed"} /\ fd.out # <<>> /\ ~fd.rst
  /\ srv' = [srv EXCEPT !.got = @ \o fd.out]
  /\ fd' = [fd EXCEPT !.out = <<>>, !.nospace = FALSE,
                      !.edge = @ \/ (fd.nospace /\ fd.state = "up")]
  /\ UNCHANGED <<mode, task, res, pcb, ring, app>>

(* and finds the end: shutdown and close both send a FIN. *)
SrvEof ==
  /\ srv.end = "open" /\ fd.out = <<>> /\ ~fd.rst
  /\ fd.shut \/ (fd.state = "closed" /\ fd.in = <<>>)
  /\ srv' = [srv EXCEPT !.end = "fin"]
  /\ UNCHANGED <<mode, task, res, pcb, ring, fd, app>>

(* A reset, by either side: what was on its way is lost. *)
Reset ==
  /\ fd' = [fd EXCEPT !.rst = TRUE, !.in = <<>>, !.out = <<>>, !.edge = TRUE]
  /\ srv' = [srv EXCEPT !.end = IF @ = "open" THEN "cut" ELSE @]
  /\ UNCHANGED <<mode, task, res, pcb, ring, app>>

(* The kernel resets a closed socket that held bytes unread, or that the   *)
(* server goes on sending to; the server may have read all there was.      *)
SrvCut ==
  /\ srv.end = "open" /\ fd.state = "closed" /\ ~fd.rst
  /\ fd.in # <<>> \/ (srv.todo # <<>> /\ ~fd.eof)
  /\ Reset

(* The server answers what it has read, then sends its bytes. *)
SrvSend ==
  LET msg == Head(srv.todo)
      asked == CASE msg = METHOD -> METHODS [] msg = GRANTED -> CREDS
                 [] msg = REPLY -> REQUEST [] OTHER -> METHODS
  IN /\ fd.state = "up" /\ srv.todo # <<>> /\ ~fd.eof /\ ~fd.rst
     /\ Len(fd.in) < FdRcv
     /\ asked \in Range(srv.got)
     /\ \E m \in {msg} \cup (IF May("server") /\ msg = REPLY THEN {REFUSED} ELSE {}) :
          fd' = [fd EXCEPT !.in = Append(@, m), !.edge = TRUE]
     /\ srv' = [srv EXCEPT !.todo = Tail(@)]
     /\ UNCHANGED <<mode, task, res, pcb, ring, app>>

SrvClose ==
  /\ fd.state = "up" /\ ~fd.eof /\ ~fd.rst
  /\ May("server") \/ (srv.todo = <<>> /\ Len(Payload(srv.got)) = mode.up)
  /\ fd' = [fd EXCEPT !.eof = TRUE, !.edge = TRUE]
  /\ UNCHANGED <<mode, task, res, pcb, ring, app, srv>>

SrvReset ==
  /\ May("server")
  /\ fd.state = "up" /\ ~fd.rst
  /\ Reset

-----------------------------------------------------------------------------
Init ==
  /\ mode \in Cases
  /\ task = [state |-> "RUNNING", cpu |-> FALSE, pc |-> "connect", step |-> 1,
             fail |-> "destruct", armed |-> FALSE, expired |-> FALSE, timeout |-> -1]
  /\ res = [f |-> 1, b |-> 1]
  /\ pcb = [ref |-> TRUE, eof |-> FALSE, queue |-> <<>>, segs |-> <<>>,
            wnd |-> TcpWnd, lw |-> "ESTABLISHED"]
  /\ ring = RingInit
  /\ fd = [state |-> "none", in |-> <<>>, out |-> <<>>, eof |-> FALSE, rst |-> FALSE,
           shut |-> FALSE, nospace |-> FALSE, edge |-> FALSE]
  /\ app = [sent |-> 0, got |-> <<>>, end |-> "open",
            cut |-> "no", terminated |-> FALSE]
  /\ srv = [got |-> <<>>, end |-> "open",
            todo |-> Strip(Handshake(mode), Written) \o Bytes(mode.down)]

TaskStep == \/ Resume \/ Connect \/ HandshakeStep \/ SpliceF \/ SpliceB
            \/ SpliceDrain \/ Destruct

Next == \/ TaskStep \/ Expire \/ IoPoll \/ TerminateSession
        \/ AppSend \/ AppFin \/ AppAck \/ AppAckFin \/ PcbError \/ TimeWaitOver
        \/ SrvConnect \/ SrvRead \/ SrvEof \/ SrvCut \/ SrvSend \/ SrvClose \/ SrvReset

Spec == Init /\ [][Next]_vars

(* The scheduler runs every runnable task and polls the sockets; the rest  *)
(* is what the two peers do when they do what a connection is for.         *)
Fairness == WF_vars(TaskStep) /\ WF_vars(IoPoll)
Peers == WF_vars(AppSend \/ AppFin \/ AppAck) /\ WF_vars(SrvConnect \/ SrvRead \/ SrvSend)

FairSpec == Spec /\ Fairness /\ Peers

-----------------------------------------------------------------------------
States == {"ESTABLISHED", "CLOSE_WAIT", "FIN_WAIT_1", "FIN_WAIT_2", "CLOSING",
           "LAST_ACK", "TIME_WAIT", "FREED"}

Pcs == {"connect", "handshake", "splice", "splice_b", "drain", "destruct"}

(* The values of every variable, the ring's indices and counts within it.  *)
TypeOK ==
  /\ mode \in Cases
  /\ task \in [state : {"RUNNING", "WAITING", "STOPPED"}, cpu : BOOLEAN, pc : Pcs,
                fail : Pcs, step : 1 .. 9, armed : BOOLEAN, expired : BOOLEAN,
                timeout : {-1, 0, 1}]
  /\ res \in [f : {-1, 0, 1}, b : {-1, 0, 1}]
  /\ pcb.ref \in BOOLEAN /\ pcb.eof \in BOOLEAN /\ pcb.lw \in States
  /\ pcb.wnd \in 0 .. TcpWnd
  /\ pcb.segs \in Seq(0 .. MaxSize - 1) /\ pcb.queue \in Seq(1 .. NUp)
  /\ ring.rp \in 0 .. MaxSize - 1 /\ ring.wp \in 0 .. MaxSize - 1
  /\ ring.use \in 0 .. MaxSize /\ ring.rda \in 0 .. ring.use
  /\ ring.data \in [0 .. MaxSize - 1 -> 0 .. NDown]
  /\ Len(fd.in) <= FdRcv /\ Len(fd.out) <= FdSnd

(* Neither stream loses, repeats or reorders a byte on its way through the *)
(* queue, the sockets and the ring whose slots lwIP sends from without a   *)
(* copy, and the handshake takes nothing of the payload behind it          *)
(* (tcp_splice_f, tcp_splice_b, hev-ring-buffer.c, read_response).  One    *)
(* fault is excepted: when memory refuses the first run of a wrapped ring  *)
(* and not the second, tcp_splice_b still sends the second.                *)
StreamsConserved ==
  LET up == Payload(srv.got) \o Payload(fd.out) \o pcb.queue
      sending == [i \in 1 .. Len(pcb.segs) |-> ring.data[pcb.segs[i]]]
      down == app.got \o sending \o Payload(fd.in) \o Payload(srv.todo)
      whole == task.state # "STOPPED" /\ ~fd.rst
  IN /\ IsPrefix(Payload(srv.got), Bytes(app.sent))
     /\ app.cut # "hole" => IsPrefix(app.got \o sending, Bytes(NDown))
     /\ whole => up = Bytes(app.sent)
     /\ whole /\ app.cut = "no" /\ pcb.ref => down = Bytes(mode.down)

Up == INSTANCE ByteStream WITH
        Data <- Bytes(NUp), sent <- app.sent, got <- Payload(srv.got), end <- srv.end

(* The way up implements ByteStream: the clean end that tcp_splice_f makes *)
(* with shutdown(SHUT_WR) reaches the server after every byte the app      *)
(* sent.  One end is excepted: a session given up before it got that far   *)
(* closes its socket, and the server reads a clean end wherever it was.    *)
UpIsStream ==
  Up!StreamInit
  /\ [][Up!StreamNext \/ (Up!Truncate /\ fd.state = "closed" /\ ~fd.shut)]_(Up!streamVars)

Down == INSTANCE ByteStream WITH
          Data <- Bytes(NDown), sent <- mode.down - Len(Payload(srv.todo)),
          got <- app.got, end <- app.end

(* So does the way down: the FIN that tcp_splice_b sends the app comes     *)
(* after every byte the server sent, and data cut short by a refused       *)
(* tcp_write, a full TUN device or a session given up ends in a reset.     *)
(* Two faults are excepted: the hole of StreamsConserved, and a reset by   *)
(* the server, which tcp_splice_b passes on as that same FIN.              *)
DownIsStream ==
  Down!StreamInit
  /\ [][Down!StreamNext \/ app.cut' = "hole" \/ (Down!Truncate /\ app.cut = "server")]_(Down!streamVars)

(* The session is a byte stream in each direction, and cuts one short with *)
(* a clean end only after a server's reset or when it is given up early.   *)
ByteStreams == UpIsStream /\ DownIsStream

(* With edge-triggered events nobody repeats a wakeup: a task asleep in    *)
(* the splice loop with no edge left to report has nothing it could do in  *)
(* either direction, and one asleep in the last loop waits for the app.    *)
NeverAsleepWithWork ==
  task.state = "WAITING" /\ ~fd.edge =>
    /\ task.pc = "splice" =>
         /\ res.f = 0 => IF pcb.queue = <<>> THEN ~pcb.eof
                         ELSE Len(fd.out) = FdSnd /\ ~fd.rst
         /\ res.b = 0 => \/ ring.use = MaxSize /\ Len(pcb.segs) > 0
                         \/ fd.in = <<>> /\ ~fd.eof /\ ~fd.rst
    /\ task.pc = "drain" => ring.use > 0
    /\ task.pc = "handshake" /\ Handshake(mode)[task.step] \notin Written =>
         fd.in = <<>> /\ ~fd.eof /\ ~fd.rst

(* What lwIP's window lacks is what the queue holds: every byte written to *)
(* the server opens the window again (tcp_recved), so that the app is      *)
(* never left with a closed window and nothing queued, and the refusal in  *)
(* tcp_recv_handler never happens.                                         *)
WindowCredit == pcb.ref => pcb.wnd + Len(pcb.queue) = TcpWnd

(* The ring's accounts and lwIP's agree, and the ring, which hev-config    *)
(* clamps to lwIP's send buffer, never hands lwIP more than fits it.       *)
RingLedger ==
  /\ app.cut # "full"
  /\ pcb.ref /\ app.cut \in {"no", "tun"} /\ task.state # "STOPPED" =>
       ring.use = Len(pcb.segs) + ring.rda

(* With its accounts in order the streams through the ring are conserved.  *)
RingAccounts == TypeOK /\ StreamsConserved /\ RingLedger

(* The session never holds a pcb lwIP has freed: it uses it in tcp_recved  *)
(* and in tcp_abort.  The silent end of TIME_WAIT breaks it.               *)
PcbAlive == pcb.ref => pcb.lw # "FREED"

(* Without faults both streams arrive whole: no wakeup is lost on the way. *)
Delivered ==
  mode.faults = {} =>
    <>(app.got = Bytes(mode.down) /\ Payload(srv.got) = Bytes(mode.up))

(* A session terminated once it is connected ends, without waiting for a   *)
(* timeout (hev_socks5_session_terminate).  While it connects the timeout  *)
(* of the next stage replaces the 0 and the termination is lost.           *)
TerminateEnds ==
  (app.terminated /\ task.timeout = 0 /\ task.pc # "connect") ~> task.state = "STOPPED"
=============================================================================
