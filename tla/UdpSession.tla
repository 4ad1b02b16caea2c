----------------------------- MODULE UdpSession -----------------------------
(***************************************************************************)
(* One UDP association of the tun2socks engine: every datagram of one app  *)
(* socket, whatever its destination, goes through one session and one      *)
(* SOCKS association.  Destinations the app knows by a synthetic address   *)
(* are sent by name, and the session keeps the names it used to give the   *)
(* replies the address the app expects them from.                          *)
(*                                                                         *)
(* The scheduler is cooperative: fwd_f and fwd_b follow each other without *)
(* a callback of lwIP between them, unless a send waits for room.          *)
(***************************************************************************)
EXTENDS MappedDns

CONSTANTS
  Ports,    \* the ports the app sends to
  Slots,    \* HEV_SOCKS5_UDP_NAME_SLOTS
  Pool,     \* UDP_POOL_SIZE
  Num,      \* misc.udp-copy-buffer-nums, the size of a batch
  LinkCap,  \* what the carrier holds in each direction
  MaxSend,  \* bound: datagrams the app sends
  Cases     \* carrier and proxy, what the apps do, and what may go wrong

UdpFaults == {"server", "timer", "terminate", "tun", "bad"}

ASSUME UdpConstants ==
  /\ {Slots, Num, LinkCap} \subseteq Nat \ {0}
  /\ {Pool, MaxSend} \subseteq Nat
  /\ Cases \subseteq [carrier : {"tcp", "udp"}, echo : BOOLEAN, asks : Seq(Names),
                      others : BOOLEAN, ips : SUBSET IPs, ports : SUBSET Ports,
                      faults : SUBSET UdpFaults]

VARIABLES
  mode,   \* the case
  ses,    \* the session: where it is, its results, whether it was terminated
  frames, \* frame_list: datagrams to forward
  names,  \* names[], the slots
  next,   \* names_next
  last,   \* addr and port, of the last named peer
  link,   \* the carrier: its two directions, its edge and whether it is closed
  proxy,  \* what the SOCKS proxy has got and not yet answered
  app     \* what the app has sent and got

sesVars == <<ses, frames, names, next, last>>
udpVars == <<mode, sesVars, link, proxy, app>>
vars == <<mapVars, udpVars>>

-----------------------------------------------------------------------------
May(fault) == fault \in mode.faults

Take(s, n) == SubSeq(s, 1, n)
Drop(s, n) == SubSeq(s, n + 1, Len(s))
Messages(s) == {s[i] : i \in DOMAIN s}
Least(a, b) == IF a < b THEN a ELSE b

NoIp == [net |-> FALSE, host |-> -1]
Empty == [name |-> NoName, ip |-> NoIp, port |-> 0]
RealIp(n) == [net |-> FALSE, host |-> Max]

Wake(s) == IF s.task = "WAITING" THEN [s EXCEPT !.task = "RUNNING"] ELSE s

-----------------------------------------------------------------------------
(* The names of the association. *)

SlotOf(n) == {i \in DOMAIN names : names[i].name = n}

(* Remember the address and the port the app used for a name. *)
name_map_learn(n, ip, port) ==
  LET entry == [name |-> n, ip |-> ip, port |-> port]
  IN IF SlotOf(n) # {}
     THEN /\ names' = [i \in DOMAIN names |-> IF i \in SlotOf(n) THEN entry ELSE names[i]]
          /\ UNCHANGED next
     ELSE /\ names' = [names EXCEPT ![next] = entry]
          /\ next' = (next + 1) % Slots

(* Mutant: one named peer makes every reply its own. *)
SourceLast(msg) ==
  IF last # Empty THEN last ELSE [name |-> NoName, ip |-> msg.ip, port |-> msg.port]

(* The source a reply gets: by its name, or as it is.  Empty: dropped. *)
Source(msg) ==
  CASE msg.name # NoName ->
         IF SlotOf(msg.name) = {} THEN Empty
         ELSE names[CHOOSE i \in SlotOf(msg.name) : TRUE]
    [] msg.name = NoName /\ msg.ip = last.ip /\ last.port # 0 -> last
    [] OTHER -> [name |-> NoName, ip |-> msg.ip, port |-> msg.port]

-----------------------------------------------------------------------------
(* lwIP: a datagram of the app. *)

Fresh == [pc |-> "connecting", task |-> "RUNNING", f |-> 1, b |-> 1,
          batch |-> 0, sent |-> 0, timeout |-> 1, expired |-> FALSE, order |-> <<>>]

(* udp_recv_handler of the session *)
udp_recv_handler(s, id, ip, port) ==
  IF Len(frames) > Pool
  THEN UNCHANGED <<mapVars, frames, names, next, last>> /\ ses' = s
  ELSE LET n == NameAt(ip)
       IN /\ Lookup(ip)
          /\ frames' = Append(frames, [id |-> id, name |-> n, ip |-> ip, port |-> port])
          /\ IF n = NoName THEN UNCHANGED <<names, next, last>>
             ELSE /\ name_map_learn(n, ip, port)
                  /\ last' = [name |-> n, ip |-> ip, port |-> port]
          /\ ses' = [Wake(s) EXCEPT !.order = IF n = NoName \/ SlotOf(n) # {} THEN @
                                              ELSE Append(@, n)]

(* udp_input finds the socket's session, or has the tunnel make one. *)
AppSend(ip, port) ==
  LET id == Len(app.sent) + 1
  IN /\ id <= MaxSend /\ ses.pc # "b"
     /\ ip.net => \E n \in Names : told[n] = ip.host
     /\ ip \in mode.ips /\ port \in mode.ports
     /\ app' = [app EXCEPT !.sent = Append(@, [name |-> NameAt(ip), ip |-> ip, port |-> port])]
     /\ udp_recv_handler(IF ses.pc = "none" THEN Fresh ELSE ses, id, ip, port)
     /\ UNCHANGED <<mode, link, proxy>>

(* The app resolves the names it means to use, *)
AppAsk ==
  /\ app.asked < Len(mode.asks) /\ ses.pc # "b"
  /\ Ask(mode.asks[app.asked + 1])
  /\ app' = [app EXCEPT !.asked = @ + 1]
  /\ UNCHANGED <<mode, sesVars, link, proxy>>

(* and other apps resolve names and open connections. *)
OtherApps ==
  /\ mode.others /\ ses.pc # "b"
  /\ MapNext
  /\ UNCHANGED udpVars

-----------------------------------------------------------------------------
(* The session's task. *)

At(pc) == ses.pc = pc /\ ses.task = "RUNNING"

NoNames == [i \in 0 .. Slots - 1 |-> Empty]
NoLink == [up |-> <<>>, down |-> <<>>, edge |-> FALSE, nospace |-> FALSE, closed |-> FALSE]

(* The association ends with its sockets; the proxy may still get what was *)
(* on its way, and its replies have nowhere to go.                         *)
Destruct ==
  /\ At("destruct")
  /\ ses' = [Fresh EXCEPT !.pc = "none"]
  /\ frames' = <<>> /\ names' = NoNames /\ next' = 0 /\ last' = Empty
  /\ link' = NoLink
  /\ \E late \in {<<>>, link.up} :
       proxy' = [got |-> proxy.got \o late, pending |-> {}]
  /\ UNCHANGED <<mapVars, mode, app>>

Handshake ==
  /\ At("connecting")
  /\ \E pc \in {"f"} \cup (IF May("server") THEN {"destruct"} ELSE {}) :
       ses' = [ses EXCEPT !.pc = pc, !.timeout = 1]
  /\ UNCHANGED <<mapVars, mode, frames, names, next, last, link, proxy, app>>

(* Mutant: a wait that fails keeps the whole batch for the next send. *)
GoneAll(batch, done, fails) == IF done = batch THEN batch ELSE 0

(* How much of the batch the list loses.  A wait that fails leaves what    *)
(* was written: datagrams count as sent one by one, of a stream the whole  *)
(* batch counts as sent.                                                   *)
Gone(batch, done, fails) ==
  CASE done = batch -> batch
    [] done < batch /\ (~fails \/ done = 0) -> 0
    [] OTHER -> IF mode.carrier = "tcp" THEN batch ELSE done

(* The batch is written as far as there is room; the rest waits in the     *)
(* send.                                                                   *)
Send ==
  LET batch == IF ses.pc = "send" THEN ses.batch ELSE Least(Len(frames), Num)
      k == IF ses.expired THEN 0 ELSE Least(batch - ses.sent, LinkCap - Len(link.up))
      done == ses.sent + k
      fails == done < batch /\ (ses.timeout = 0 \/ ses.expired \/ link.closed)
      gone == Gone(batch, done, fails)
  IN /\ link' = [link EXCEPT !.up = @ \o SubSeq(frames, ses.sent + 1, done),
                             !.nospace = done < batch]
     /\ frames' = Drop(frames, gone)
     /\ ses' = IF done < batch /\ ~fails
               THEN [ses EXCEPT !.pc = "send", !.batch = batch, !.sent = done,
                                !.task = "WAITING"]
               ELSE [ses EXCEPT !.pc = "b", !.batch = 0, !.sent = 0, !.expired = FALSE,
                                !.f = IF gone > 0 THEN 1 ELSE -1]

(* hev_socks5_session_udp_fwd_f *)
FwdF ==
  /\ At("f") \/ At("send")
  /\ CASE ses.pc = "f" /\ ses.expired ->
            ses' = [ses EXCEPT !.pc = "destruct"] /\ UNCHANGED <<frames, link>>
       [] ses.pc = "send" \/ (~ses.expired /\ ses.f >= 0 /\ frames # <<>>) -> Send
       [] OTHER ->
            /\ ses' = [ses EXCEPT !.pc = "b", !.f = IF @ < 0 THEN @ ELSE 0]
            /\ UNCHANGED <<frames, link>>
  /\ UNCHANGED <<mapVars, mode, names, next, last, proxy, app>>

(* Mutant: the loop sleeps after every round. *)
DecideSleeps(s) ==
  IF s.f = -1 /\ s.b = -1 THEN [s EXCEPT !.pc = "destruct"]
  ELSE [s EXCEPT !.pc = "f", !.task = "WAITING"]

(* How the loop goes on.  The yielder looks at the control connection of a *)
(* datagram carrier first.                                                 *)
Decide(s) ==
  CASE s.f = -1 /\ s.b = -1 -> [s EXCEPT !.pc = "destruct"]
    [] mode.carrier = "udp" /\ link.closed -> [s EXCEPT !.pc = "destruct"]
    [] s.f > 0 \/ s.b > 0 -> [s EXCEPT !.pc = "f"]
    [] OTHER -> IF s.timeout = 0 THEN [s EXCEPT !.pc = "destruct"]
                ELSE [s EXCEPT !.pc = "f", !.task = "WAITING"]

(* hev_socks5_udp_recvmmsg: what has come, up to a batch, and its result.  *)
(* A datagram that cannot be parsed fails the whole batch; a closed stream *)
(* fails when it is empty.                                                 *)
recvmmsg ==
  LET n == Least(Len(link.down), Num)
      batch == Take(link.down, n)
  IN [batch |-> batch,
      res |-> CASE n = 0 -> IF link.closed /\ mode.carrier = "tcp" THEN -1 ELSE 0
                [] n > 0 /\ (\E i \in 1 .. n : batch[i].bad) -> -1
                [] OTHER -> n]

(* hev_socks5_session_udp_fwd_b: the batch goes to the app, up to one that *)
(* cannot be written; those after it are lost with the direction.          *)
FwdB ==
  /\ At("b")
  /\ LET batch == recvmmsg.batch
         res == recvmmsg.res
     IN \E k \in CASE res <= 0 -> {0} [] res > 0 -> IF May("tun") THEN 0 .. res ELSE {res} :
          LET sent == {i \in 1 .. k : Source(batch[i]) # Empty}
              b == CASE ses.b < 0 -> -1
                     [] ses.b >= 0 /\ res <= 0 -> res
                     [] OTHER -> IF k = res THEN 1 ELSE -1
          IN /\ link' = IF ses.b < 0 THEN link ELSE [link EXCEPT !.down = Drop(@, Len(batch))]
             /\ app' = IF ses.b < 0 THEN app
                       ELSE [app EXCEPT !.got = @ \cup {[id |-> batch[i].id,
                                                        ip |-> Source(batch[i]).ip,
                                                        port |-> Source(batch[i]).port] :
                                                       i \in sent}]
             /\ ses' = Decide([ses EXCEPT !.b = b])
  /\ UNCHANGED <<mapVars, mode, frames, names, next, last, proxy>>

IoPoll ==
  /\ link.edge /\ ses.pc # "b"
  /\ link' = [link EXCEPT !.edge = FALSE]
  /\ ses' = Wake(ses)
  /\ UNCHANGED <<mapVars, mode, frames, names, next, last, proxy, app>>

Expire ==
  /\ May("timer") /\ ses.task = "WAITING" /\ ~ses.expired
  /\ ses' = [Wake(ses) EXCEPT !.expired = TRUE]
  /\ UNCHANGED <<mapVars, mode, frames, names, next, last, link, proxy, app>>

Terminate ==
  /\ May("terminate") /\ ses.pc \notin {"none", "b"} /\ ses.timeout # 0
  /\ ses' = [Wake(ses) EXCEPT !.timeout = 0]
  /\ UNCHANGED <<mapVars, mode, frames, names, next, last, link, proxy, app>>

-----------------------------------------------------------------------------
(* The SOCKS proxy, and the sockets between it and the session. *)

ProxyRead ==
  /\ link.up # <<>> /\ ~link.closed
  /\ proxy' = [proxy EXCEPT !.got = @ \o link.up,
                            !.pending = @ \cup Messages(link.up)]
  /\ link' = [link EXCEPT !.up = <<>>, !.edge = @ \/ link.nospace, !.nospace = FALSE]
  /\ UNCHANGED <<mapVars, mode, sesVars, app>>

(* Replies come in any order, and name the peer or give its address. *)
ProxyReply ==
  /\ ~link.closed /\ Len(link.down) < LinkCap
  /\ \E m \in proxy.pending, bad \in (IF May("bad") THEN BOOLEAN ELSE {FALSE}) :
       LET named == mode.echo \/ m.name = NoName
           reply == [id |-> m.id, port |-> m.port, bad |-> bad,
                     name |-> IF named THEN m.name ELSE NoName,
                     ip |-> IF named THEN m.ip ELSE RealIp(m.name)]
       IN /\ link' = [link EXCEPT !.down = Append(@, reply), !.edge = TRUE]
          /\ proxy' = [proxy EXCEPT !.pending = @ \ {m}]
  /\ UNCHANGED <<mapVars, mode, sesVars, app>>

ProxyClose ==
  /\ May("server") /\ ses.pc \notin {"none", "connecting"} /\ ~link.closed
  /\ link' = [link EXCEPT !.closed = TRUE, !.edge = TRUE]
  /\ UNCHANGED <<mapVars, mode, sesVars, proxy, app>>

-----------------------------------------------------------------------------
Init ==
  /\ MapInit
  /\ mode \in Cases
  /\ ses = [Fresh EXCEPT !.pc = "none"]
  /\ frames = <<>> /\ names = NoNames /\ next = 0 /\ last = Empty
  /\ link = NoLink
  /\ proxy = [got |-> <<>>, pending |-> {}]
  /\ app = [asked |-> 0, sent |-> <<>>, got |-> {}]

TaskStep == Handshake \/ FwdF \/ FwdB \/ Destruct

Next == \/ TaskStep \/ IoPoll \/ Expire \/ Terminate
        \/ AppAsk \/ OtherApps
        \/ \E ip \in IPs, port \in Ports : AppSend(ip, port)
        \/ ProxyRead \/ ProxyReply \/ ProxyClose

Spec == Init /\ [][Next]_vars

Fairness == WF_vars(TaskStep) /\ WF_vars(IoPoll) /\ WF_vars(ProxyRead)

FairSpec == Spec /\ Fairness

-----------------------------------------------------------------------------
(* The values of every variable: a batch is never more than the list, the  *)
(* list never more than the pool and one, the round of slots stays in it.  *)
TypeOK ==
  /\ MapTypeOK
  /\ mode \in Cases
  /\ ses.pc \in {"none", "connecting", "f", "send", "b", "destruct"}
  /\ ses.task \in {"RUNNING", "WAITING"}
  /\ ses.f \in -1 .. 1 /\ ses.b \in -1 .. 1
  /\ ses.sent \in 0 .. ses.batch /\ ses.batch \in 0 .. Least(Num, Len(frames))
  /\ Len(frames) <= Pool + 1
  /\ next \in 0 .. Slots - 1
  /\ Len(link.up) <= LinkCap /\ Len(link.down) <= LinkCap

(* Datagrams reach the proxy in the order they were sent, each at most     *)
(* once, whatever the batches, the waits in a send and the ends of a       *)
(* session, and each goes to the peer the app's address stood for when the *)
(* session took it (udp_recv_handler, fwd_f, hev_socks5_udp_sendmmsg).     *)
UpInOrder ==
  LET all == proxy.got \o link.up \o Drop(frames, ses.sent)
  IN \A i \in DOMAIN all :
       /\ \A j \in DOMAIN all : i < j => all[i].id < all[j].id
       /\ all[i].name = app.sent[all[i].id].name /\ all[i].port = app.sent[all[i].id].port

(* A reply the app gets bears an address and a port the app has used for   *)
(* that very peer: several peers on one association are never mixed up     *)
(* (name_map_learn, name_map_lookup, fwd_b).  Which port, when the app     *)
(* uses two of one name, is the subject of ReplyFromAskedPeer.             *)
RightPeer ==
  \A g \in app.got :
    LET d == app.sent[g.id]
    IN mode.echo =>
         \E i \in DOMAIN app.sent :
           /\ app.sent[i].ip = g.ip /\ app.sent[i].port = g.port
           /\ app.sent[i].name = d.name \/ app.sent[i].ip = d.ip

(* Every reply comes from the address and port the app sent to.            *)
ReplyFromAskedPeer ==
  \A g \in app.got : g.ip = app.sent[g.id].ip /\ g.port = app.sent[g.id].port

(* The Slots names learned last are known, each once, with the address and *)
(* the port of the latest datagram to it: the round-robin of               *)
(* name_map_learn drops the oldest only.                                   *)
NamesKept ==
  LET newest == {ses.order[i] : i \in {j \in DOMAIN ses.order : Len(ses.order) - j < Slots}}
  IN /\ {names[i].name : i \in DOMAIN names} \ {NoName} = newest
     /\ \A n \in newest : Cardinality(SlotOf(n)) = 1

(* A reply finds its peer while its name has a slot. *)
PeersHold == TypeOK /\ RightPeer /\ NamesKept

(* A session asleep with no edge left to report has nothing to forward and *)
(* nothing to deliver, or a direction it has given up.                     *)
NeverAsleepWithWork ==
  ses.task = "WAITING" /\ ~link.edge =>
    /\ ses.pc = "f" => /\ ses.f = 0 => frames = <<>>
                       /\ ses.b = 0 => link.down = <<>>
                       /\ link.closed => mode.carrier = "tcp" /\ ses.b = -1
    /\ ses.pc = "send" => Len(link.up) = LinkCap

(* Both directions go on in order: nothing is overtaken, nothing is left.  *)
DirectionsHold == UpInOrder /\ NeverAsleepWithWork

(* Without faults every datagram taken reaches the proxy: no wakeup is     *)
(* lost, and a send that waits for room goes on.                           *)
Forwarded ==
  mode.faults = {} =>
    \A id \in 1 .. MaxSend :
      (\E m \in Messages(frames) : m.id = id) ~> (\E m \in Messages(proxy.got) : m.id = id)
=============================================================================
