--------------------------- MODULE MCVpnLifecycle ---------------------------
EXTENDS VpnLifecycle

Slip == [s \in Starts |-> "slipstream"]
Xray == [s \in Starts |-> "xray"]
Mixed == [s \in Starts |-> IF s = 2 THEN "xray" ELSE "slipstream"]

(* Three starts with one kind of overlap, on one engine or switching       *)
(* between two; two starts with both kinds; two starts with a STOP at any  *)
(* moment of either.                                                       *)
MCInputs ==
  [engine : {Slip, Mixed}, starts : {3}, overlap : {{"cancel"}, {"switch"}}]
  \cup [engine : {Xray}, starts : {2}, overlap : {{"cancel", "switch"}}]
  \cup [engine : {Mixed}, starts : {2}, overlap : {{"early"}}]
=============================================================================
