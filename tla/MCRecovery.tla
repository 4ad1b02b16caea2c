----------------------------- MODULE MCRecovery -----------------------------
(* Small pools for TLC. *)
EXTENDS Recovery

PublicPool == <<"h1", "h2">>
OneHost    == <<"h1">>
NoLocal    == << >>
OneLocal   == <<"h1">>
RankedH2   == <<"h2">>
NoCache    == << >>
=============================================================================
