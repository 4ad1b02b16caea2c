--------------------------- MODULE MCDesktopEngine ---------------------------
(***************************************************************************)
(* Instances of DesktopEngine for TLC.                                     *)
(***************************************************************************)
EXTENDS DesktopEngine

User(enable, pac, detect, bypass) ==
    [enable |-> enable, server |-> "theirs", bypass |-> bypass, pac |-> pac, detect |-> detect,
     blob |-> "theirs", winhttp |-> "theirs"]

\* A user with a PAC script, and one with another tool's proxy, automatic
\* detection and an IPv6 bypass entry.
SomeUsers == {User(FALSE, TRUE, FALSE, {"steam"}), User(TRUE, FALSE, TRUE, {"steam", "v6"})}

\* A user without a proxy.
PlainUser == {User(FALSE, FALSE, FALSE, {"steam"})}
=============================================================================
