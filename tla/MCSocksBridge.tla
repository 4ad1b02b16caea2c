---------------------------- MODULE MCSocksBridge ----------------------------
(***************************************************************************)
(* Instances of SocksBridge for TLC: the messages of the peers.            *)
(***************************************************************************)
EXTENDS SocksBridge

\* A client that logs in and sends four data tokens; one that stops halfway,
\* one with the wrong login, method or request.
Login == <<"greet", "auth", "request", "d1", "d2", "d3", "d4", "FIN">>
Refused ==
    {<<"greet", "auth", "FIN">>,
     <<"greet", "authX", "FIN">>,
     <<"greetX", "FIN">>,
     <<"greet", "auth", "requestX">>}
ServerScripts ==
    {<<"g0", "k", "e1", "e2", "FIN">>,
     <<"g2", "a", "k", "e1", "FIN">>,
     <<"g2", "aX">>, <<"gX">>, <<"g0", "kX">>, <<"g2", "FIN">>}

\* The first connection does this, the others compete with it for the places
\* and are short, or do not exist.
Case(client, remote, others) ==
    [client |-> [c \in Ids |-> IF c = 1 THEN client ELSE others],
     remote |-> [c \in Ids |-> IF c = 1 THEN remote ELSE <<"gX">>],
     localAuth |-> TRUE, stalls |-> TRUE, faults |-> TRUE]

\* Every server for the first client, and every other client; three connections for two places; peers
\* that keep to the protocol, without faults.
MCCases ==
    {Case(Login, rs, << >>) : rs \in ServerScripts}
    \cup {Case(cs, <<"g0", "k", "FIN">>, << >>) : cs \in Refused}
    \cup {Case(<<"greet", "auth", "request", "d1", "FIN">>, <<"g0", "k", "e1", "FIN">>, <<"greetX">>)}
    \cup {[client |-> [c \in Ids |-> IF c = 1 THEN <<"greet", "request", "d1", "d2", "d3", "FIN">>
                                                ELSE << >>],
           remote |-> [c \in Ids |-> rs], localAuth |-> FALSE, stalls |-> FALSE, faults |-> FALSE] :
             rs \in {<<"g0", "k", "e1", "e2", "FIN">>, <<"g2", "a", "k", "e1", "e2", "e3", "FIN">>}}
=============================================================================
