--------------------------- MODULE MCUdpSession ---------------------------
EXTENDS UdpSession

CONSTANTS n1, n2, n3, n4

Fake(hosts) == {[net |-> TRUE, host |-> h] : h \in hosts}
Real(hosts) == {[net |-> FALSE, host |-> h] : h \in hosts}

Case(carrier, asks, ips, ports, faults) ==
  [carrier |-> carrier, echo |-> TRUE, asks |-> asks, others |-> FALSE,
   ips |-> ips, ports |-> ports, faults |-> faults]

(* More names than slots; two ports of one name; real addresses, one of    *)
(* them with the host bits of a synthetic one, and a proxy that answers    *)
(* with addresses; every fault with either carrier; and the table alone,   *)
(* under the other apps.                                                   *)
MCCases ==
  {Case("tcp", <<n1, n2, n3>>, Fake(0 .. 2), {1}, {}),
   Case("udp", <<n1>>, Fake({0}), {1, 2}, {}),
   [Case("tcp", <<n1>>, Fake({0}) \cup Real({0, 3}), {1}, {}) EXCEPT !.echo = FALSE],
   [Case("udp", <<>>, {}, {}, {}) EXCEPT !.others = TRUE]}
  \cup {Case(k, <<n1>>, Fake({0}), {1}, {f}) : k \in {"tcp", "udp"}, f \in UdpFaults}

(* The app talks to two ports of one name. *)
MCTwoPorts == {Case("udp", <<n1>>, Fake({0}), {1, 2}, {})}
=============================================================================
