----------------------------- MODULE MappedDns ------------------------------
(***************************************************************************)
(* The fake-IP DNS of the tun2socks engine.  A name an app asks for gets   *)
(* one of Max synthetic addresses; the connection the app then opens to    *)
(* that address is turned back into the name.  A full table reuses the     *)
(* address of the name used least recently, and nobody tells the app that  *)
(* still holds it.                                                         *)
(*                                                                         *)
(* A message of several questions asks them one after the other.           *)
(***************************************************************************)
EXTENDS Integers, Sequences, FiniteSets

CONSTANTS
  Names,  \* the names apps ask for
  NoName, \* an empty record
  Max     \* mapdns.cache-size, self->max

ASSUME MapConstants ==
  /\ Max \in Nat \ {0}
  /\ NoName \notin Names
  /\ IsFiniteSet(Names)

Addrs == 0 .. Max - 1

(* An address: of the table's network or another, and its host bits. *)
IPs == [net : BOOLEAN, host : 0 .. Max]

VARIABLES
  node,     \* the names in the tree, each with the index its node carries
  list,     \* the same nodes, the one used least recently first
  records,  \* the node of every index
  use,      \* how many indices have been given out
  told,     \* the address the app was last told for a name, or -1
  since     \* the other names used since that address was last in use for it

dnsVars == <<node, list, records, use>>
mapVars == <<node, list, records, use, told, since>>

-----------------------------------------------------------------------------
(* hev_list_del *)
ListDel(s, n) ==
  LET k == CHOOSE i \in DOMAIN s : s[i] = n
  IN  SubSeq(s, 1, k - 1) \o SubSeq(s, k + 1, Len(s))

(* Mutant: a hit stays where it is in the list. *)
TouchNot(s, n) == s

(* A node just used goes to the tail. *)
Touch(s, n) == Append(ListDel(s, n), n)

(* History: n is used now, and with it the address the app was told of it, *)
(* unless the name has another one by now.                                 *)
Used(n) ==
  since' = [m \in Names |-> CASE m # n -> since[m] \cup {n}
                              [] m = n /\ told'[n] = node'[n] -> {}
                              [] m = n /\ told'[n] # node'[n] -> since[n]]

(* hev_mapped_dns_find: the name is known, *)
FindHit(n) ==
  /\ n \in DOMAIN node
  /\ list' = Touch(list, n)
  /\ UNCHANGED <<node, records, use>>

(* an index was never used, *)
FindFree(n) ==
  /\ n \notin DOMAIN node /\ use < Max
  /\ node' = [m \in DOMAIN node \cup {n} |-> IF m = n THEN use ELSE node[m]]
  /\ list' = Append(list, n)
  /\ records' = [records EXCEPT ![use] = n]
  /\ use' = use + 1

(* or the first of the list gives up its own. *)
FindEvict(n) ==
  LET first == Head(Append(list, n))
      idx == node[first]
  IN /\ n \notin DOMAIN node /\ use = Max
     /\ node' = [m \in (DOMAIN node \ {first}) \cup {n} |-> IF m = n THEN idx ELSE node[m]]
     /\ list' = Tail(Append(list, n))
     /\ records' = [records EXCEPT ![idx] = n]
     /\ UNCHANGED use

(* One question of hev_mapped_dns_handle.  The answer to the message may   *)
(* fail afterwards, on a later question, after this one had its effect.    *)
Ask(n) ==
  /\ FindHit(n) \/ FindFree(n) \/ FindEvict(n)
  /\ told' \in {told, [told EXCEPT ![n] = node'[n]]}
  /\ Used(n)

(* hev_mapped_dns_lookup takes the host bits of any address, whether it is *)
(* of the table's network or not.                                          *)
NameAt(ip) == IF ip.host \in Addrs THEN records[ip.host] ELSE NoName

Lookup(ip) ==
  IF NameAt(ip) = NoName THEN UNCHANGED mapVars
  ELSE /\ list' = Touch(list, NameAt(ip))
       /\ UNCHANGED <<node, records, use, told>>
       /\ Used(NameAt(ip))

MapInit ==
  /\ node = [n \in {} |-> 0] /\ list = <<>> /\ use = 0
  /\ records = [a \in Addrs |-> NoName]
  /\ told = [n \in Names |-> -1]
  /\ since = [n \in Names |-> {}]

MapNext == (\E n \in Names : Ask(n)) \/ (\E ip \in IPs : Lookup(ip))

MapSpec == MapInit /\ [][MapNext]_mapVars

-----------------------------------------------------------------------------
(* The values of the table's variables. *)
MapTypeOK ==
  /\ DOMAIN node \subseteq Names /\ node \in [DOMAIN node -> Addrs]
  /\ list \in Seq(Names)
  /\ records \in [Addrs -> Names \cup {NoName}]
  /\ use \in 0 .. Max
  /\ told \in [Names -> Addrs \cup {-1}]
  /\ since \in [Names -> SUBSET Names]

(* The tree, the list and the records hold the same nodes: every name in   *)
(* the tree has a record of its own at its index, every record is a node   *)
(* of the tree, and the list has each node once (hev_mapped_dns_find).     *)
Consistent ==
  /\ \A n \in DOMAIN node : records[node[n]] = n
  /\ \A a \in Addrs : records[a] = NoName <=> a >= use
  /\ \A a \in Addrs : a < use => records[a] \in DOMAIN node /\ node[records[a]] = a
  /\ {list[i] : i \in DOMAIN list} = DOMAIN node
  /\ \A i, j \in DOMAIN list : list[i] = list[j] => i = j

(* An answer holds as long as fewer than Max other names were used since   *)
(* its address was: what the app sends to the address it was told reaches  *)
(* the name it asked for, although its record may be taken at any time     *)
(* (hev_mapped_dns_find, hev_mapped_dns_lookup).  That needs a Consistent  *)
(* table.                                                                  *)
AnswersHold ==
  /\ Consistent
  /\ \A n \in Names :
       told[n] >= 0 /\ Cardinality(since[n]) < Max => records[told[n]] = n
=============================================================================
