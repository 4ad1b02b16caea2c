--------------------------- MODULE MCTunSession ---------------------------
EXTENDS TunSession

Case(up, down, faults) ==
  [pipeline |-> FALSE, auth |-> FALSE, up |-> up, down |-> down, faults |-> faults]

(* Four bytes down wrap the ring of three around; three bytes up overrun   *)
(* the window of two.  Faults come one by one or in the pairs that meet in *)
(* one handler, with the direction they concern.                           *)
MCCases ==
  {Case(3, 3, {}), Case(0, 4, {}), Case(2, 3, {"timer"}), Case(2, 1, {"server"}),
   Case(1, 2, {"server"}), Case(1, 4, {"mem", "reset"}), Case(1, 4, {"tun", "terminate"}),
   Case(2, 0, {"server", "timewait"})}
  \cup {[pipeline |-> p, auth |-> TRUE, up |-> 1, down |-> 1, faults |-> {}] : p \in BOOLEAN}

(* A server that closes its direction while it still reads the other. *)
MCTimeWait == {Case(2, 0, {"server", "timewait"})}
=============================================================================
