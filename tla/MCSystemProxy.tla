---------------------------- MODULE MCSystemProxy ----------------------------
(***************************************************************************)
(* Instances of SystemProxy for TLC.                                       *)
(***************************************************************************)
EXTENDS SystemProxy

\* A user without a proxy, and one with another tool's.
PlainUser ==
    {s \in Settings : /\ s.server = "theirs" /\ s.blob = "theirs" /\ s.winhttp = "theirs"
                      /\ ~s.pac /\ ~s.detect /\ s.bypass = {"steam"}}
=============================================================================
