----------------------------- MODULE SocksBridge -----------------------------
(***************************************************************************)
(* The non-blocking SOCKS bridge between tun2socks and the local           *)
(* slipstream server (app/tunnel/MiniSlipstreamSocksBridge.kt, with the    *)
(* incremental parsers of shared/tunnel/SocksProtocol.kt).                 *)
(*                                                                         *)
(* One selector thread serves every connection; a connection is a state    *)
(* machine driven by readiness and by its interest set.  A SOCKS message   *)
(* is one token: a message that has not arrived completely is one that has *)
(* not arrived.  Data tokens are told apart, so loss and reordering show.  *)
(* What a channel operation may yield is a set of outcomes: a read takes   *)
(* some of what has arrived, a write some of what is buffered.             *)
(***************************************************************************)
EXTENDS SeqFilter, FiniteSets

CONSTANTS
    Ids,            \* the connections tun2socks opens
    MaxActive,      \* maxActiveClients
    Cap,            \* RELAY_BUF, in tokens
    HsCap,          \* HS_BUF, in tokens
    Cases           \* what each client and its server send ("FIN" at the end; a
                    \* client that sends nothing does not connect); is a local
                    \* login configured; may a write move nothing; may connects
                    \* fail, channels break, deadlines pass, the bridge be stopped

\* Nothing follows the end of a stream.
EndsAtFin(seq) == \A i \in DOMAIN seq : seq[i] = "FIN" => i = Len(seq)

ASSUME BridgeAssumption ==
    /\ MaxActive \in Nat \ {0} /\ Cap \in Nat \ {0} /\ HsCap \in Nat \ {0}
    /\ Cases \subseteq [client : [Ids -> Seq(STRING)], remote : [Ids -> Seq(STRING)],
                        localAuth : BOOLEAN, stalls : BOOLEAN, faults : BOOLEAN]
    /\ \A m \in Cases, c \in Ids : EndsAtFin(m.client[c]) /\ EndsAtFin(m.remote[c])

VARIABLES
    mode,           \* the case
    running,        \* is the bridge started?
    conn,           \* the state of every connection
    active,         \* activeClients
    halfClosed      \* halfClosedClients

vars == <<mode, running, conn, active, halfClosed>>

Control == {"greet", "greetX", "auth", "authX", "request", "requestX", "FIN",
            "g0", "g2", "gX", "a", "aX", "k", "kX",
            "method", "reject", "authOk", "authNo", "ok", "err5", "err7", "ug", "ua", "uc"}
Wrong == {"greetX", "authX", "requestX", "gX", "aX", "kX"}
Data(seq) == Strip(seq, Control)

ClientPhases == {"greeting", "auth", "request"}
RemotePhases == {"upGreeting", "upAuth", "upCommand"}

\* A connection the server socket has not accepted yet: state is "new", "open"
\* or "closed"; cIn, rIn: arrived and not read; cTodo, rTodo: not sent yet;
\* cGot, rGot: written to the peer; cShut, rShut: FIN sent to the peer.
New(cs, rs) ==
    [state |-> "new", phase |-> "greeting", hs |-> << >>, early |-> << >>,
     toRemote |-> << >>, toClient |-> << >>, clientEof |-> FALSE, remoteEof |-> FALSE,
     closeAfterFlush |-> FALSE, half |-> FALSE, remote |-> "none",
     ck |-> {}, rk |-> {}, sent |-> cs, replies |-> rs,
     cIn |-> << >>, cTodo |-> cs, cGot |-> << >>, cShut |-> FALSE,
     rIn |-> << >>, rTodo |-> rs, rGot |-> << >>, rShut |-> FALSE]

Init ==
    /\ running = TRUE
    /\ mode \in Cases
    /\ conn = [c \in Ids |-> New(mode.client[c], mode.remote[c])]
    /\ active = 0 /\ halfClosed = 0

-----------------------------------------------------------------------------
(***************************************************************************)
(* Channel operations: the outcomes for a connection x.                    *)
(***************************************************************************)
Drop(seq, n) == SubSeq(seq, n + 1, Len(seq))
Take(seq, n) == SubSeq(seq, 1, n)
Lesser(m, n) == IF m < n THEN m ELSE n

\* How many tokens a read with this room takes; FIN is read as end of stream.
ReadSizes(in, room) ==
    LET avail == Len(Strip(in, {"FIN"}))
    IN  IF avail = 0 \/ room = 0 THEN {0} ELSE 1..Lesser(avail, room)
AtEof(in) == in # << >> /\ Head(in) = "FIN"

WriteSizes(buf) == (IF mode.stalls \/ buf = << >> THEN 0 ELSE 1)..Len(buf)

FlushClient(x) ==
    {[x EXCEPT !.toClient = Drop(@, w), !.cGot = @ \o Take(x.toClient, w)] :
        w \in WriteSizes(x.toClient)}
FlushRemote(x) ==
    IF x.remote # "open" THEN {x}
    ELSE {[x EXCEPT !.toRemote = Drop(@, w), !.rGot = @ \o Take(x.toRemote, w)] :
            w \in WriteSizes(x.toRemote)}

Room(buf) == IF Len(buf) < Cap THEN Cap - Len(buf) ELSE 0

\* closeConn, but for the counters.
Closed(x) == [x EXCEPT !.state = "closed", !.ck = {}, !.rk = {}]

\* updateInterest: what each channel is watched for.
ClientKey(x) ==
    (IF \/ x.phase \in ClientPhases /\ ~x.closeAfterFlush
        \/ x.phase = "relay" /\ ~x.clientEof /\ Room(x.toRemote) > 0
       THEN {"read"} ELSE {})
    \cup (IF x.toClient # << >> THEN {"write"} ELSE {})
RemoteKey(x) ==
    IF x.remote = "none" THEN {}
    ELSE (IF x.phase = "connecting" THEN {"connect"} ELSE {})
         \cup (IF \/ x.phase \in RemotePhases
                  \/ x.phase = "relay" /\ ~x.remoteEof /\ Room(x.toClient) > 0
                 THEN {"read"} ELSE {})
         \cup (IF x.toRemote # << >> THEN {"write"} ELSE {})

\* Mutant of Interest: the client is read whatever room there is for its data.
InterestGreedy(x) ==
    [x EXCEPT !.ck = ClientKey([x EXCEPT !.toRemote = << >>]), !.rk = RemoteKey(x)]

\* Mutant of Interest: what is left for the server waits for nobody.
InterestMute(x) ==
    [x EXCEPT !.ck = ClientKey(x), !.rk = RemoteKey([x EXCEPT !.toRemote = << >>])]

Interest(x) == [x EXCEPT !.ck = ClientKey(x), !.rk = RemoteKey(x)]

-----------------------------------------------------------------------------
(***************************************************************************)
(* The client's handshake.                                                 *)
(***************************************************************************)
Reply(x, token) == [x EXCEPT !.toClient = Append(@, token)]
Reject(x, token) == [Reply(x, token) EXCEPT !.closeAfterFlush = TRUE]
Consume(x) == [x EXCEPT !.hs = Tail(@)]

\* One round of readClientHandshake's loop; what is left in `hs' after the
\* request is early data.
ClientMessage(x) ==
    LET token == Head(x.hs)
    IN  CASE x.phase = "greeting" /\ token = "greet" ->
               [Reply(Consume(x), "method") EXCEPT
                  !.phase = IF mode.localAuth THEN "auth" ELSE "request"]
          [] x.phase = "greeting" /\ token = "greetX" -> Reject(Consume(x), "reject")
          [] x.phase = "auth" /\ token = "auth" ->
               [Reply(Consume(x), "authOk") EXCEPT !.phase = "request"]
          [] x.phase = "auth" /\ token = "authX" -> Reject(Consume(x), "authNo")
          [] x.phase = "request" /\ token = "request" ->
               [x EXCEPT !.hs = << >>, !.early = Tail(x.hs), !.phase = "connecting",
                         !.remote = "connecting"]
          [] x.phase = "request" /\ token # "request" -> Reject(x, "err7")
          [] OTHER -> Closed(x)

Proceed(x) ==
    IF x.phase \in ClientPhases /\ x.hs # << >> /\ ~x.closeAfterFlush /\ x.state = "open"
      THEN ClientMessage(x) ELSE x

\* At most three messages can be complete: greeting, login, request.
ClientLoop(x) == Proceed(Proceed(Proceed(x)))

\* failUpstream: a failure reply unless one is pending, then close.  The phase
\* goes back to the client's, so that service flushes what is left and closes.
FailUpstream(x) ==
    LET y == [x EXCEPT !.remote = "none", !.rk = {}, !.closeAfterFlush = TRUE,
                       !.phase = "request",
                       !.toClient = IF @ = << >> THEN <<"err5">> ELSE @]
    IN  {IF z.toClient = << >> THEN Closed(z) ELSE Interest(z) : z \in FlushClient(y)}

\* Connecting to the server may fail at once: failUpstream inside the loop,
\* whose own flush follows.
ReadClientHandshake(x) ==
    LET Rest(y) == {Interest(z) : z \in FlushClient(y)}
        After(y) ==
          IF y.state = "closed" THEN {y}
          ELSE Rest(y) \cup
               IF y.phase = "connecting" /\ mode.faults
                 THEN UNION {IF z.state = "closed" THEN {z} ELSE Rest(z) : z \in FailUpstream(y)}
                 ELSE {}
    IN  IF AtEof(x.cIn) THEN {Closed(x)}
        ELSE UNION {After(ClientLoop([x EXCEPT !.hs = @ \o Take(x.cIn, n), !.cIn = Drop(@, n)])) :
                      n \in ReadSizes(x.cIn, HsCap)}

\* service, in a client phase.
ServiceClient(x) ==
    UNION {IF ~y.closeAfterFlush THEN ReadClientHandshake(y)
           ELSE IF y.toClient = << >> THEN {Closed(y)} ELSE {y} : y \in FlushClient(x)}

-----------------------------------------------------------------------------
(***************************************************************************)
(* Relaying.                                                               *)
(***************************************************************************)

\* Mutant of ReadFromClient: bytes are read past the end of the buffer.
ReadFromClientOverflow(x) ==
    IF AtEof(x.cIn) THEN {[x EXCEPT !.clientEof = TRUE, !.half = TRUE]}
    ELSE {[x EXCEPT !.toRemote = Take(@ \o Take(x.cIn, n), Lesser(Cap, Len(@) + n)),
                    !.cIn = Drop(@, n)] :
            n \in ReadSizes(x.cIn, Cap)}

ReadFromClient(x) ==
    IF x.clientEof \/ Room(x.toRemote) = 0 THEN {x}
    ELSE IF AtEof(x.cIn) THEN {[x EXCEPT !.clientEof = TRUE, !.half = TRUE]}
    ELSE {[x EXCEPT !.toRemote = @ \o Take(x.cIn, n), !.cIn = Drop(@, n)] :
            n \in ReadSizes(x.cIn, Room(x.toRemote))}

ReadFromRemote(x) ==
    IF x.remoteEof \/ Room(x.toClient) = 0 THEN {x}
    ELSE IF AtEof(x.rIn) THEN {[x EXCEPT !.remoteEof = TRUE, !.half = TRUE]}
    ELSE {[x EXCEPT !.toClient = @ \o Take(x.rIn, n), !.rIn = Drop(@, n)] :
            n \in ReadSizes(x.rIn, Room(x.toClient))}

\* Mutant of PropagateFin: FIN overtakes the buffered bytes.
PropagateFinEarly(x) == [x EXCEPT !.rShut = @ \/ x.clientEof, !.cShut = @ \/ x.remoteEof]

\* FIN follows the last byte.
PropagateFin(x) ==
    [x EXCEPT !.rShut = @ \/ (x.clientEof /\ x.toRemote = << >>),
              !.cShut = @ \/ (x.remoteEof /\ x.toClient = << >>)]

RelayDone(x) == x.clientEof /\ x.remoteEof /\ x.toRemote = << >> /\ x.toClient = << >>

Relay(x) ==
    {LET y == PropagateFin(e) IN IF RelayDone(y) THEN Closed(y) ELSE Interest(y) :
       e \in UNION {FlushClient(d) :
               d \in UNION {ReadFromRemote(b) :
                        b \in UNION {FlushRemote(a) : a \in ReadFromClient(x)}}}}

-----------------------------------------------------------------------------
(***************************************************************************)
(* The handshake with the slipstream server.                               *)
(***************************************************************************)

\* The server accepted: its own first bytes follow the reply "ok", early data
\* is the first thing relayed to it.
ConnectOk(x) ==
    [x EXCEPT !.phase = "relay", !.hs = << >>, !.early = << >>,
              !.toClient = Append(@, "ok") \o Tail(x.hs),
              !.toRemote = @ \o x.early]

\* One round of readUpstreamHandshake's loop.
ServerMessage(x) ==
    LET token == Head(x.hs)
        Send(frame, phase) ==
          [Consume(x) EXCEPT !.toRemote = Append(@, frame), !.phase = phase]
    IN  CASE x.phase = "upGreeting" /\ token = "g2" -> Send("ua", "upAuth")
          [] x.phase = "upGreeting" /\ token = "g0" -> Send("uc", "upCommand")
          [] x.phase = "upAuth" /\ token = "a" -> Send("uc", "upCommand")
          [] x.phase = "upCommand" /\ token = "k" -> ConnectOk(x)
          [] OTHER -> [x EXCEPT !.remote = "failed"]

Advance(x) ==
    IF x.phase \in RemotePhases /\ x.hs # << >> /\ x.remote = "open" THEN ServerMessage(x) ELSE x

\* At most three messages can be complete: greeting reply, login reply, reply.
ReadUpstreamHandshake(x) ==
    LET After(y) == IF y.phase = "relay" THEN Relay(y)
                    ELSE IF y.remote = "failed" THEN FailUpstream(y)
                    ELSE {Interest(z) : z \in FlushRemote(y)}
    IN  IF AtEof(x.rIn) THEN FailUpstream(x)
        ELSE UNION {After(Advance(Advance(Advance(
                      [x EXCEPT !.hs = @ \o Take(x.rIn, n), !.rIn = Drop(@, n)])))) :
                      n \in ReadSizes(x.rIn, HsCap)}

\* service, in an upstream phase.
ServiceRemote(x) ==
    UNION {ReadUpstreamHandshake(z) : z \in UNION {FlushClient(y) : y \in FlushRemote(x)}}

-----------------------------------------------------------------------------
(***************************************************************************)
(* The selector loop.                                                      *)
(***************************************************************************)
Open == {c \in Ids : conn[c].state = "open"}
Count(p) == IF p THEN 1 ELSE 0

\* Mutant of Settle: closing forgets that the connection was half closed.
SettleForgets(c, y) ==
    /\ conn' = [conn EXCEPT ![c] = y]
    /\ active' = active - Count(y.state = "closed")
    /\ halfClosed' = halfClosed + Count(y.half /\ ~conn[c].half)

\* Connection c, open so far, becomes y: the counters of closeConn and
\* markHalfClosed.
Settle(c, y) ==
    /\ conn' = [conn EXCEPT ![c] = y]
    /\ active' = active - Count(y.state = "closed")
    /\ halfClosed' = halfClosed + Count(y.half /\ ~conn[c].half)
                                - Count(y.half /\ y.state = "closed")

\* onAccept; lastActivityMs is not modelled, so any connection may be the
\* least recently active one, evictLeastRecentlyActive's victim.
Opened(x) == [x EXCEPT !.state = "open", !.ck = {"read"}]

Accept(c) ==
    /\ running /\ conn[c].state = "new" /\ mode.client[c] # << >>
    /\ IF active >= MaxActive
         THEN \E v \in Open :
                /\ conn' = [conn EXCEPT ![c] = Opened(@), ![v] = Closed(@)]
                /\ halfClosed' = halfClosed - Count(conn[v].half)
                /\ UNCHANGED active
         ELSE /\ conn' = [conn EXCEPT ![c] = Opened(@)]
              /\ active' = active + 1
              /\ UNCHANGED halfClosed
    /\ UNCHANGED <<mode, running>>

\* onConnectable: finishConnect succeeds or throws.
Connected(x) ==
    Interest([x EXCEPT !.toRemote = Append(@, "ug"), !.phase = "upGreeting", !.hs = << >>,
                       !.remote = "open"])
Connectable(c) ==
    /\ "connect" \in conn[c].rk
    /\ \/ Settle(c, Connected(conn[c]))
       \/ mode.faults /\ \E y \in FailUpstream(conn[c]) : Settle(c, y)
    /\ UNCHANGED <<mode, running>>

\* A channel is ready for something the connection is interested in.
Readable(x) ==
    \/ "read" \in x.ck /\ x.cIn # << >>
    \/ "read" \in x.rk /\ x.rIn # << >>
Ready(x) == Readable(x) \/ "write" \in x.ck \cup x.rk

\* service
Serve(x) ==
    CASE x.phase \in ClientPhases -> ServiceClient(x)
      [] x.phase = "connecting" -> {Interest(x)}
      [] x.phase \in RemotePhases -> ServiceRemote(x)
      [] x.phase = "relay" -> Relay(x)
Service(c) ==
    /\ conn[c].state = "open" /\ Ready(conn[c])
    /\ \E y \in Serve(conn[c]) : Settle(c, y)
    /\ UNCHANGED <<mode, running>>

\* reapIdle finds a deadline passed, or a channel operation throws.
Lose(c) ==
    /\ mode.faults /\ conn[c].state = "open"
    /\ Settle(c, Closed(conn[c]))
    /\ UNCHANGED <<mode, running>>

\* stop: the loop ends and closes every connection.
Stop ==
    /\ mode.faults /\ running
    /\ running' = FALSE
    /\ conn' = [c \in Ids |-> IF c \in Open THEN Closed(conn[c]) ELSE conn[c]]
    /\ active' = active - Cardinality(Open)
    /\ halfClosed' = halfClosed - Cardinality({c \in Open : conn[c].half})
    /\ UNCHANGED mode

Start ==
    /\ ~running
    /\ running' = TRUE /\ active' = 0 /\ halfClosed' = 0
    /\ UNCHANGED <<mode, conn>>

-----------------------------------------------------------------------------
(***************************************************************************)
(* The peers.  A client may send ahead of the replies it waits for; the    *)
(* server answers what it was asked.                                       *)
(***************************************************************************)
ClientSends(c) ==
    /\ conn[c].state = "open" /\ conn[c].cTodo # << >>
    /\ conn' = [conn EXCEPT ![c].cIn = Append(@, Head(conn[c].cTodo)), ![c].cTodo = Tail(@)]
    /\ UNCHANGED <<mode, running, active, halfClosed>>

Question(token) ==
    CASE token \in {"g0", "g2", "gX"} -> {"ug"}
      [] token \in {"a", "aX"} -> {"ua"}
      [] token \in {"k", "kX"} -> {"uc"}
      [] OTHER -> {"ug"}
Elements(seq) == {seq[i] : i \in DOMAIN seq}
RemoteSends(c) ==
    /\ conn[c].remote = "open" /\ conn[c].rTodo # << >> /\ conn[c].state = "open"
    /\ Question(Head(conn[c].rTodo)) \subseteq Elements(conn[c].rGot)
    /\ conn' = [conn EXCEPT ![c].rIn = Append(@, Head(conn[c].rTodo)), ![c].rTodo = Tail(@)]
    /\ UNCHANGED <<mode, running, active, halfClosed>>

Next ==
    \/ Stop \/ Start
    \/ \E c \in Ids :
         \/ Accept(c) \/ Connectable(c) \/ Service(c) \/ Lose(c)
         \/ ClientSends(c) \/ RemoteSends(c)

Spec == Init /\ [][Next]_vars

\* While a channel is ready the loop goes on, and so do peers that have
\* something to send; who comes first is left open.
FairSpec == Spec /\ WF_vars(Next)

-----------------------------------------------------------------------------
(***************************************************************************)
(* Properties.                                                             *)
(***************************************************************************)
\* The counters are numbers and every connection has a known state and phase.
TypeOK ==
    /\ running \in BOOLEAN /\ active \in Nat /\ halfClosed \in Nat
    /\ \A c \in Ids :
         /\ conn[c].state \in {"new", "open", "closed"}
         /\ conn[c].phase \in ClientPhases \cup RemotePhases \cup {"connecting", "relay"}
         /\ conn[c].remote \in {"none", "connecting", "open"}
         /\ conn[c].ck \subseteq {"read", "write"}
         /\ conn[c].rk \subseteq {"read", "write", "connect"}

\* Data comes only after this token.
DataAfter(seq, token) ==
    \A i \in DOMAIN seq : seq[i] \notin Control => token \in Elements(Take(seq, i))

\* Relayed bytes follow the handshake on both sides: the server has its
\* CONNECT command before client data, the client its reply before server data.
HandshakeFirst ==
    \A c \in Ids :
      /\ DataAfter(conn[c].rGot \o conn[c].toRemote, "uc")
      /\ DataAfter(conn[c].cGot \o conn[c].toClient, "ok")

\* A direction of a connection, from what the receiver has got back to what
\* the sender has not sent yet.
UpStream(x) ==
    x.rGot \o (x.toRemote \o (x.early \o
      ((IF x.phase \in ClientPhases THEN x.hs ELSE << >>) \o (x.cIn \o x.cTodo))))
DownStream(x) ==
    x.cGot \o (x.toClient \o
      ((IF x.phase \in RemotePhases THEN x.hs ELSE << >>) \o (x.rIn \o x.rTodo)))

\* No byte is lost, repeated or reordered, whatever the reads and writes move
\* at a time: what a peer got, what is buffered for it, what was read early and
\* what has not been read is the whole stream in order (readInto, drain,
\* earlyData and the leftovers of the handshake buffer); and relayed bytes
\* follow the handshake.
StreamsConserved ==
    /\ HandshakeFirst
    /\ \A c \in Open :
         ~conn[c].closeAfterFlush =>
            /\ Data(UpStream(conn[c])) = Data(conn[c].sent)
            /\ Data(DownStream(conn[c])) = Data(conn[c].replies)

\* FIN is passed on only after the last byte of that direction: a peer that is
\* told of the end has got everything the other one sent (half-close
\* propagation at the end of relay).
FinAfterData ==
    \A c \in Ids :
      /\ conn[c].rShut => Data(conn[c].rGot) = Data(conn[c].sent)
      /\ conn[c].cShut => Data(conn[c].cGot) = Data(conn[c].replies)

\* The interest set never goes quiet on a connection that still has something
\* to do: buffered bytes are waiting to be written, an open direction with room
\* is being read, until both ends are closed (updateInterest after every step).
\* Connections that only wait for an error reply to go out are excepted: once it
\* is flushed they sit there for the reaper.
NeverDeaf ==
    \A c \in Open :
      LET x == conn[c]
      IN  ~x.closeAfterFlush =>
            /\ x.toClient # << >> => "write" \in x.ck
            /\ x.toRemote # << >> => "write" \in x.rk
            /\ x.phase \in ClientPhases => "read" \in x.ck
            /\ x.phase \in RemotePhases => "read" \in x.rk
            /\ x.ck \cup x.rk # {}

\* A relaying connection reported as readable is never serviced in vain, even
\* when no peer accepts a byte: something is read, so the loop cannot spin on
\* it (reading only while there is room; comment on backpressure in relay).
NoSpin ==
    \A c \in Open :
      conn[c].phase = "relay" /\ Readable(conn[c]) => conn[c] \notin Serve(conn[c])

\* What updateInterest leaves behind every step: neither a connection nothing
\* will wake nor one that is woken for nothing.
InterestExact == NeverDeaf /\ NoSpin

\* The counters the overload check and the statistics use are the truth, and
\* the number of connections stays within maxActiveClients, through eviction,
\* reaping, errors and restarts (activeClients, halfClosedClients).
CountersExact ==
    /\ TypeOK
    /\ active = Cardinality(Open) /\ active <= MaxActive
    /\ halfClosed = Cardinality({c \in Open : conn[c].half})

Orderly ==
    /\ ~mode.faults /\ ~mode.stalls
    /\ \A c \in Ids : /\ mode.client[c] # << >> => Elements(mode.client[c]) \cap Wrong = {}
                      /\ "FIN" \in Elements(mode.remote[c]) /\ Elements(mode.remote[c]) \cap Wrong = {}

\* Without faults and stalls the connection of a client and a server that keep
\* to the protocol is relayed to its end: it closes, and both sides got
\* everything the other one sent.
RelayCompletes ==
    \A c \in Ids :
      Orderly /\ conn[c].state = "open" ~>
        /\ conn[c].state = "closed"
        /\ Data(conn[c].rGot) = Data(conn[c].sent)
        /\ Data(conn[c].cGot) = Data(conn[c].replies)
=============================================================================
