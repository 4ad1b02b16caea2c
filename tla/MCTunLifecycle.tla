-------------------------- MODULE MCTunLifecycle --------------------------
EXTENDS TunLifecycle

CONSTANTS c1, c2, s1, s2, s3

MCConns == <<s1, s2, s3>>

Case(faults, wants, conns) ==
  [faults |-> faults, wants |-> wants, conns |-> conns,
   limit |-> 0, stops |-> 1, udp |-> TRUE]

(* Two lives with a session in each; a stop against two sessions at the    *)
(* limit; three sessions above it; every failure of the init, and a start  *)
(* after it; a TUN that cannot be read.                                    *)
MCCases ==
  {Case({}, <<TRUE, FALSE>>, 1),
   [Case({}, <<TRUE>>, 2) EXCEPT !.limit = 2],
   [Case({}, <<TRUE>>, 3) EXCEPT !.limit = 2, !.udp = FALSE, !.stops = 0],
   [Case({}, <<TRUE, TRUE>>, 0) EXCEPT !.stops = 2],
   Case({"tun"}, <<TRUE>>, 1)}
  \cup {Case({f}, <<TRUE, TRUE>>, 0) : f \in {"main", "early", "late", "create"}}

(* The process is out of descriptors when the socketpair is made. *)
MCNoFds == {Case({"early"}, <<TRUE>>, 0)}
=============================================================================
