--------------------------- MODULE ResolverChoice ---------------------------
(***************************************************************************)
(* Which resolver is taken: ResolverSelector.chooseFast and TinyVpnService.*)
(* quickAutoRecoveryChoice, in AUTO resolver mode.  A choice is the        *)
(* non-empty list of hosts the native client is given; the first one is    *)
(* the selected host, the one that is condemned when the choice fails.     *)
(***************************************************************************)
EXTENDS SequencesExt, SeqFilter

CONSTANTS
    Pool,       \* the configured resolver pool, in order, without duplicates
    Local,      \* the operator's (DHCP) resolvers, in order
    Cached      \* the speed-ranked cache of this network

Hosts == ToSet(Pool) \cup ToSet(Local)

ASSUME PoolAssumption ==
    /\ Pool \in Seq(ToSet(Pool)) /\ IsInjective(Pool) /\ Pool # << >>
    /\ Local \in Seq(ToSet(Local)) /\ IsInjective(Local)
    /\ Cached \in Seq(ToSet(Cached))

NoChoice == << >>

\* The hosts of seq that are in S, in order.
Only(seq, S) == Strip(seq, ToSet(seq) \ S)

\* `distinct' of two lists in a row, neither with duplicates of its own.
Then(a, b) == a \o Strip(b, ToSet(a))

\* take(8)
MaxHosts == 8
Take(seq) == SubSeq(seq, 1, Min({MaxHosts, Len(seq)}))

\* The first of the candidate lists that is not empty, cut to its first host.
FirstOf(lists) ==
    LET hits == {i \in DOMAIN lists : lists[i] # << >>}
    IN  IF hits = {} THEN NoChoice ELSE << Head(lists[Min(hits)]) >>

\* A warm cache: hosts still in the pool, the operator's resolvers first.
CacheOrder(S) == Only(Cached, S \cap ToSet(Local)) \o Only(Cached, S \ ToSet(Local))

\* chooseFast: a cached host that answers the TCP probe; else probe the whole
\* pool; the later alternatives ignore the probe or `skip'.
ChooseFast(alive, skip) ==
    FirstOf(<< CacheOrder((alive \cap ToSet(Pool)) \ skip),
               Only(Pool, alive \ skip),
               Only(Pool, alive),
               Only(Pool, Hosts \ skip),
               Pool >>)

\* quickAutoRecoveryChoice: the operator's other resolvers, then the hosts in
\* use, none of them condemned; NoChoice hands over to chooseFast.  The list
\* given to the native client ends with the condemned ones.
QuickChoice(current, failed) ==
    LET fresh     == Hosts \ failed
        preferred == Then(Only(Local, fresh \ {Head(current)}), Only(current, fresh))
    IN  IF preferred = << >> THEN NoChoice
        ELSE Take(Then(Then(preferred, Local), current))
=============================================================================
