-------------------------- MODULE UdpSessionProofs --------------------------
(***************************************************************************)
(* For any sizes, names and cases: an answer of the fake-IP DNS holds as   *)
(* long as fewer than Max other names have been used since, whatever the   *)
(* association that resolves through the table and the other apps do       *)
(* (AnswersAreKept); datagrams go up in order and the session never sleeps *)
(* with work (DirectionsAreKept); replies come from peers the app has used *)
(* and the slots hold the names learned last (PeersAreKept).               *)
(***************************************************************************)
EXTENDS UdpSession, FiniteSetTheorems, SequenceTheorems, TLAPS

(* An address the app was told still stands for the name, and the names    *)
(* behind that name in the list were all used since; or so many were used  *)
(* that the address may have gone to another.                              *)
Behind(n) == \A i, j \in DOMAIN list : i < j /\ list[i] = n => list[j] \in since[n]
Held(n) ==
  told[n] >= 0 => \/ records[told[n]] = n /\ Behind(n)
                  \/ Cardinality(since[n]) >= Max

MapInv == MapTypeOK /\ Consistent /\ \A n \in Names : Held(n)

-----------------------------------------------------------------------------
(* The list. *)

\* hev_list_del takes one node out and leaves the order of the others alone.
LEMMA ListDelGives ==
  ASSUME NEW T, NEW s \in Seq(T), NEW n, NEW k \in 1 .. Len(s), s[k] = n,
         \A i, j \in 1 .. Len(s) : s[i] = s[j] => i = j,
         NEW d, d = ListDel(s, n)
  PROVE  /\ d \in Seq(T) /\ Len(d) = Len(s) - 1
         /\ \A i \in 1 .. Len(s) - 1 : d[i] = IF i < k THEN s[i] ELSE s[i + 1]
<1> DEFINE a == SubSeq(s, 1, k - 1)
           b == SubSeq(s, k + 1, Len(s))
<1>1. Len(s) \in Nat /\ DOMAIN s = 1 .. Len(s) /\ \A i \in 1 .. Len(s) : s[i] \in T
  BY LenProperties, ElementOfSeq
<1>2. k = CHOOSE i \in DOMAIN s : s[i] = n
  BY <1>1
<1>3. d = a \o b
  BY <1>2 DEF ListDel
<1>4. a \in Seq(T) /\ Len(a) = k - 1 /\ \A i \in 1 .. k - 1 : a[i] = s[i]
  <2>1. k - 1 \in Int /\ k - 1 <= Len(s) /\ \A i \in 1 .. k - 1 : s[i] \in T
    BY <1>1
  <2> QED
    BY <1>1, <2>1, SubSeqProperties
<1>5. b \in Seq(T) /\ Len(b) = Len(s) - k /\ \A i \in 1 .. Len(s) - k : b[i] = s[k + i]
  <2>1. k + 1 \in Int /\ k + 1 <= Len(s) + 1 /\ \A i \in k + 1 .. Len(s) : s[i] \in T
    BY <1>1
  <2>2. b \in Seq(T) /\ Len(b) = IF k + 1 <= Len(s) THEN Len(s) - (k + 1) + 1 ELSE 0
    BY <1>1, <2>1, SubSeqProperties
  <2>3. ASSUME NEW i \in 1 .. Len(s) - k PROVE b[i] = s[k + i]
    <3>1. b[i] = s[(k + 1) + i - 1]
      BY <1>1, <2>1, SubSeqProperties
    <3>2. (k + 1) + i - 1 = k + i
      BY <1>1
    <3> QED
      BY <3>1, <3>2
  <2> HIDE DEF b
  <2>4. Len(b) = Len(s) - k
    <3> DEFINE m == Len(s)
               l == Len(b)
    <3>1. m \in Nat /\ k \in 1 .. m /\ l = IF k + 1 <= m THEN m - (k + 1) + 1 ELSE 0
      BY <1>1, <2>2
    <3> HIDE DEF m, l
    <3>2. l = m - k
      BY <3>1
    <3> QED
      BY <3>2, SMTT(60) DEF m, l
  <2> QED
    BY <2>2, <2>3, <2>4
<1> HIDE DEF a, b
<1>6. d \in Seq(T) /\ Len(d) = Len(s) - 1
  <2>1. a \o b \in Seq(T) /\ Len(a \o b) = Len(a) + Len(b)
    BY <1>4, <1>5, ConcatProperties, SMTT(60)
  <2>2. Len(a) + Len(b) = Len(s) - 1
    BY <1>1, <1>4, <1>5
  <2> QED
    BY <1>3, <2>1, <2>2
<1>7. ASSUME NEW i \in 1 .. Len(s) - 1 PROVE d[i] = IF i < k THEN s[i] ELSE s[i + 1]
  <2>1. CASE i < k
    <3>1. i \in 1 .. Len(a)
      BY <1>1, <1>4, <2>1
    <3> QED
      BY <1>3, <1>4, <1>5, <2>1, <3>1, ConcatProperties
  <2>2. CASE ~(i < k)
    <3> DEFINE j == i - Len(a)
    <3>1. j \in 1 .. Len(s) - k /\ k + j = i + 1 /\ i = Len(a) + j
      BY <1>1, <1>4, <2>2
    <3> HIDE DEF j
    <3>2. (a \o b)[i] = b[j]
      BY <1>1, <1>4, <1>5, <3>1, ConcatProperties
    <3> QED
      BY <1>3, <1>5, <2>2, <3>1, <3>2
  <2> QED
    BY <2>1, <2>2
<1> QED
  BY <1>6, <1>7

-----------------------------------------------------------------------------
(* The table. *)

\* Numbers, and the list as a sequence.
LEMMA MapFacts ==
  MapInv => /\ MapTypeOK /\ Consistent /\ Max \in Nat \ {0} /\ NoName \notin Names
            /\ list \in Seq(Names) /\ Len(list) \in Nat /\ DOMAIN list = 1 .. Len(list)
            /\ \A i \in 1 .. Len(list) : list[i] \in DOMAIN node
            /\ \A i, j \in 1 .. Len(list) : list[i] = list[j] => i = j
            /\ \A n \in DOMAIN node : \E k \in 1 .. Len(list) : list[k] = n
<1> SUFFICES ASSUME MapInv PROVE
            /\ MapTypeOK /\ Consistent /\ Max \in Nat \ {0} /\ NoName \notin Names
            /\ list \in Seq(Names) /\ Len(list) \in Nat /\ DOMAIN list = 1 .. Len(list)
            /\ \A i \in 1 .. Len(list) : list[i] \in DOMAIN node
            /\ \A i, j \in 1 .. Len(list) : list[i] = list[j] => i = j
            /\ \A n \in DOMAIN node : \E k \in 1 .. Len(list) : list[k] = n
  OBVIOUS
<1>1. MapTypeOK /\ Consistent /\ Max \in Nat \ {0} /\ NoName \notin Names /\ list \in Seq(Names)
  BY MapConstants DEF MapInv, MapTypeOK
<1>2. Len(list) \in Nat /\ DOMAIN list = 1 .. Len(list)
  BY <1>1, LenProperties
<1>3. {list[i] : i \in DOMAIN list} = DOMAIN node
  BY <1>1 DEF Consistent
<1>4. \A i \in DOMAIN list : list[i] \in DOMAIN node
  BY <1>3
<1>5. \A n \in DOMAIN node : \E k \in DOMAIN list : list[k] = n
  BY <1>3
<1>6. \A i, j \in DOMAIN list : list[i] = list[j] => i = j
  BY <1>1 DEF Consistent
<1> QED
  BY <1>1, <1>2, <1>4, <1>5, <1>6

\* What a step that uses n must keep for the answers to hold: the order of the other
\* nodes, and every record but those that had enough names used behind them.
LEMMA HeldKept ==
  ASSUME MapInv, MapTypeOK', Consistent', NEW n \in Names, Used(n), n \in DOMAIN node',
         told' \in {told, [told EXCEPT ![n] = node'[n]]},
         list' # <<>>, list'[Len(list')] = n,
         \A i, j \in DOMAIN list' : i < j /\ list'[j] # n =>
            \E p, q \in DOMAIN list : p < q /\ list[p] = list'[i] /\ list[q] = list'[j],
         \A a \in Addrs : records[a] = n => a = node'[n],
         \A m \in Names \ {n}, a \in Addrs :
            records[a] = m => \/ records'[a] = m
                              \/ Behind(m) => Cardinality(since[m] \cup {n}) >= Max
  PROVE  \A m \in Names : Held(m)'
<1>0. Max \in Nat \ {0} /\ IsFiniteSet(Names)
  BY MapConstants
<1>1. /\ told \in [Names -> Addrs \cup {-1}] /\ told' \in [Names -> Addrs \cup {-1}]
      /\ since \in [Names -> SUBSET Names] /\ since' \in [Names -> SUBSET Names]
      /\ list' \in Seq(Names) /\ node' \in [DOMAIN node' -> Addrs]
  BY DEF MapInv, MapTypeOK
<1>2. Len(list') \in Nat /\ DOMAIN list' = 1 .. Len(list') /\ Len(list') >= 1
  BY <1>1, LenProperties, EmptySeq
<1>3. \A m \in Names : Held(m)
  BY DEF MapInv
<1>4. ASSUME NEW m \in Names, told'[m] >= 0, m # n
      PROVE  \/ records'[told'[m]] = m /\ Behind(m)'
             \/ Cardinality(since'[m]) >= Max
  <2>1. told'[m] = told[m] /\ told[m] >= 0 /\ told[m] \in Addrs
    BY <1>0, <1>1, <1>4 DEF Addrs
  <2>2. since'[m] = since[m] \cup {n}
    BY <1>4 DEF Used
  <2>3. CASE Cardinality(since[m]) >= Max
    <3>1. IsFiniteSet(since'[m])
      BY <1>0, <1>1, FS_Subset
    <3>2. Cardinality(since[m]) <= Cardinality(since'[m])
      BY <2>2, <3>1, FS_Subset
    <3>3. Cardinality(since[m]) \in Nat /\ Cardinality(since'[m]) \in Nat
      BY <2>2, <3>1, FS_Subset, FS_CardinalityType
    <3> QED
      BY <1>0, <2>3, <3>2, <3>3
  <2>4. CASE records[told[m]] = m /\ Behind(m)
    <3>1. CASE Cardinality(since[m] \cup {n}) >= Max
      BY <2>2, <3>1
    <3>2. CASE records'[told[m]] = m
      <4>1. ASSUME NEW i \in DOMAIN list', NEW j \in DOMAIN list', i < j, list'[i] = m
            PROVE  list'[j] \in since'[m]
        <5>1. CASE list'[j] = n
          BY <2>2, <5>1
        <5>2. CASE list'[j] # n
          <6>1. PICK p \in DOMAIN list, q \in DOMAIN list :
                       p < q /\ list[p] = list'[i] /\ list[q] = list'[j]
            BY <4>1, <5>2
          <6> QED
            BY <2>2, <2>4, <4>1, <6>1 DEF Behind
        <5> QED
          BY <5>1, <5>2
      <4> QED
        BY <2>1, <3>2, <4>1 DEF Behind
    <3> QED
      BY <2>1, <2>4, <3>1, <3>2, <1>4
  <2> QED
    BY <1>3, <2>1, <2>3, <2>4 DEF Held
<1>5. ASSUME told'[n] >= 0
      PROVE  \/ records'[told'[n]] = n /\ Behind(n)'
             \/ Cardinality(since'[n]) >= Max
  <2>1. CASE told'[n] = node'[n]
    <3>1. records'[told'[n]] = n
      BY <2>1 DEF Consistent
    <3>2. ASSUME NEW i \in DOMAIN list', NEW j \in DOMAIN list', i < j, list'[i] = n
          PROVE  FALSE
      <4>1. i = Len(list')
        BY <1>2, <3>2 DEF Consistent
      <4> QED
        BY <1>2, <3>2, <4>1
    <3> QED
      BY <3>1, <3>2 DEF Behind
  <2>2. CASE told'[n] # node'[n]
    <3>1. told' = told
      BY <1>1, <2>2
    <3>2. since'[n] = since[n]
      BY <2>2 DEF Used
    <3>3. told[n] \in Addrs
      BY <1>1, <1>5, <3>1
    <3>4. records[told[n]] # n
      BY <2>2, <3>1, <3>3
    <3> QED
      BY <1>3, <1>5, <3>1, <3>2, <3>4 DEF Held
  <2> QED
    BY <2>1, <2>2
<1> QED
  BY <1>4, <1>5 DEF Held

\* A node that is used goes to the tail, and the others keep their order.
LEMMA TouchGives ==
  ASSUME MapInv, NEW n \in DOMAIN node, list' = Touch(list, n)
  PROVE  /\ list' \in Seq(Names) /\ list' # <<>> /\ list'[Len(list')] = n
         /\ {list'[i] : i \in DOMAIN list'} = DOMAIN node
         /\ \A i, j \in DOMAIN list' : list'[i] = list'[j] => i = j
         /\ \A i, j \in DOMAIN list' : i < j /\ list'[j] # n =>
              \E p, q \in DOMAIN list : p < q /\ list[p] = list'[i] /\ list[q] = list'[j]
<1> DEFINE d == ListDel(list, n)
           t == list'
           l == Len(list)
<1>1. /\ list \in Seq(Names) /\ l \in Nat /\ DOMAIN list = 1 .. l
      /\ \A i \in 1 .. l : list[i] \in DOMAIN node
      /\ \A i, j \in 1 .. l : list[i] = list[j] => i = j
      /\ n \in Names
  BY MapFacts DEF MapTypeOK
<1>2. PICK k \in 1 .. l : list[k] = n
  BY MapFacts
<1>3. /\ d \in Seq(Names) /\ Len(d) = l - 1
      /\ \A i \in 1 .. l - 1 : d[i] = IF i < k THEN list[i] ELSE list[i + 1]
  <2>1. list \in Seq(Names) /\ k \in 1 .. Len(list) /\ list[k] = n
        /\ \A i, j \in 1 .. Len(list) : list[i] = list[j] => i = j
    BY <1>1, <1>2
  <2>2. d = ListDel(list, n)
    OBVIOUS
  <2> HIDE DEF d, l
  <2> QED
    BY <2>1, <2>2, ListDelGives DEF l
<1>4. t = Append(d, n)
  BY DEF Touch
<1> HIDE DEF d, t, l
<1>5. /\ t \in Seq(Names) /\ Len(t) = l
      /\ t[l] = n /\ \A i \in 1 .. l - 1 : t[i] = IF i < k THEN list[i] ELSE list[i + 1]
  <2>1. /\ t \in Seq(Names) /\ Len(t) = Len(d) + 1 /\ t[Len(d) + 1] = n
        /\ \A i \in 1 .. Len(d) : t[i] = d[i]
    BY <1>1, <1>3, <1>4, AppendProperties
  <2>2. Len(d) + 1 = l
    BY <1>1, <1>3
  <2> QED
    BY <1>3, <2>1, <2>2
<1>6. DOMAIN t = 1 .. l /\ l >= 1 /\ t # <<>>
  <2>1. DOMAIN t = 1 .. l
    BY <1>5, LenProperties
  <2>2. l >= 1
    BY <1>1, <1>2
  <2> QED
    BY <1>5, <2>1, <2>2, EmptySeq
<1> DEFINE at(i) == IF i = l THEN k ELSE IF i < k THEN i ELSE i + 1
<1>7. \A i \in 1 .. l : at(i) \in 1 .. l /\ t[i] = list[at(i)]
  <2> SUFFICES ASSUME NEW i \in 1 .. l PROVE at(i) \in 1 .. l /\ t[i] = list[at(i)]
    OBVIOUS
  <2>1. CASE i = l
    BY <1>2, <1>5, <2>1
  <2>2. CASE i # l
    <3>1. i \in 1 .. l - 1
      BY <1>1, <2>2
    <3> QED
      BY <1>1, <1>5, <2>2, <3>1
  <2> QED
    BY <2>1, <2>2
<1>8. \A i, j \in 1 .. l : at(i) = at(j) => i = j
  BY <1>1, <1>2
<1>9. \A i, j \in 1 .. l : i < j /\ j # l => at(i) < at(j)
  BY <1>1, <1>2
<1>10. \A p \in 1 .. l : \E i \in 1 .. l : at(i) = p
  <2> SUFFICES ASSUME NEW p \in 1 .. l PROVE \E i \in 1 .. l : at(i) = p
    OBVIOUS
  <2>1. CASE p = k
    BY <1>1, <1>6, <2>1
  <2>2. CASE p < k
    <3>1. at(p) = p
      BY <1>1, <1>2, <2>2
    <3> QED
      BY <3>1
  <2>3. CASE p > k
    <3>1. p - 1 \in 1 .. l /\ at(p - 1) = p
      BY <1>1, <1>2, <2>3
    <3> QED
      BY <3>1
  <2> QED
    BY <1>1, <2>1, <2>2, <2>3
<1> HIDE DEF at
<1>11. {t[i] : i \in DOMAIN t} = DOMAIN node
  <2>1. \A i \in DOMAIN t : t[i] \in DOMAIN node
    BY <1>1, <1>6, <1>7
  <2>2. ASSUME NEW m \in DOMAIN node PROVE \E i \in DOMAIN t : t[i] = m
    <3>1. PICK p \in 1 .. l : list[p] = m
      BY MapFacts DEF l
    <3>2. PICK i \in 1 .. l : at(i) = p
      BY <1>10
    <3> QED
      BY <1>6, <1>7, <3>1, <3>2
  <2> QED
    BY <2>1, <2>2
<1>12. ASSUME NEW i \in DOMAIN t, NEW j \in DOMAIN t, t[i] = t[j] PROVE i = j
  BY <1>1, <1>6, <1>7, <1>8, <1>12
<1>13. ASSUME NEW i \in DOMAIN t, NEW j \in DOMAIN t, i < j, t[j] # n
       PROVE  \E p, q \in DOMAIN list : p < q /\ list[p] = t[i] /\ list[q] = t[j]
  <2>1. j # l
    BY <1>5, <1>13
  <2>2. at(i) < at(j) /\ at(i) \in DOMAIN list /\ at(j) \in DOMAIN list
        /\ list[at(i)] = t[i] /\ list[at(j)] = t[j]
    BY <1>1, <1>6, <1>7, <1>9, <1>13, <2>1
  <2> QED
    BY <2>2
<1> QED
  BY <1>5, <1>6, <1>11, <1>12, <1>13 DEF t

\* The history keeps its type.
LEMMA HistoryTypes ==
  ASSUME MapInv, NEW n \in Names, Used(n), node' \in [DOMAIN node' -> Addrs], n \in DOMAIN node',
         told' \in {told, [told EXCEPT ![n] = node'[n]]}
  PROVE  /\ told' \in [Names -> Addrs \cup {-1}]
         /\ since' \in [Names -> SUBSET Names]
<1>1. told \in [Names -> Addrs \cup {-1}] /\ since \in [Names -> SUBSET Names]
  BY DEF MapInv, MapTypeOK
<1>2. node'[n] \in Addrs
  OBVIOUS
<1>3. told' \in [Names -> Addrs \cup {-1}]
  BY <1>1, <1>2
<1> DEFINE s(m) == CASE m # n -> since[m] \cup {n}
                     [] m = n /\ told'[n] = node'[n] -> {}
                     [] m = n /\ told'[n] # node'[n] -> since[n]
<1>4. since' = [m \in Names |-> s(m)]
  BY DEF Used
<1>5. \A m \in Names : s(m) \in SUBSET Names
  <2> SUFFICES ASSUME NEW m \in Names PROVE s(m) \in SUBSET Names
    OBVIOUS
  <2>1. CASE m # n
    <3>1. s(m) = since[m] \cup {n}
      BY <2>1
    <3> QED
      BY <1>1, <3>1
  <2>2. CASE m = n /\ told'[n] = node'[n]
    BY <2>2
  <2>3. CASE m = n /\ told'[n] # node'[n]
    BY <1>1, <2>3
  <2> QED
    BY <2>1, <2>2, <2>3
<1> HIDE DEF s
<1> QED
  BY <1>3, <1>4, <1>5

\* A name of the table is used.
LEMMA HitStep ==
  ASSUME MapInv, NEW n \in Names, n \in DOMAIN node, list' = Touch(list, n),
         UNCHANGED <<node, records, use>>, Used(n),
         told' \in {told, [told EXCEPT ![n] = node'[n]]}
  PROVE  MapInv'
<1>1. /\ DOMAIN node \subseteq Names /\ node \in [DOMAIN node -> Addrs]
      /\ records \in [Addrs -> Names \cup {NoName}] /\ use \in 0 .. Max /\ Consistent
  BY DEF MapInv, MapTypeOK
<1>2. /\ list' \in Seq(Names) /\ list' # <<>> /\ list'[Len(list')] = n
      /\ {list'[i] : i \in DOMAIN list'} = DOMAIN node
      /\ \A i, j \in DOMAIN list' : list'[i] = list'[j] => i = j
      /\ \A i, j \in DOMAIN list' : i < j /\ list'[j] # n =>
           \E p, q \in DOMAIN list : p < q /\ list[p] = list'[i] /\ list[q] = list'[j]
  BY TouchGives
<1>3. MapTypeOK'
  BY <1>1, <1>2, HistoryTypes DEF MapTypeOK
<1>4. Consistent'
  BY <1>1, <1>2 DEF Consistent
<1>5. ASSUME NEW a \in Addrs, records[a] = n PROVE a = node'[n]
  <2>1. records[a] # NoName
    BY <1>5, MapFacts
  <2>2. Max \in Nat /\ a \in Int /\ use \in Int
    BY <1>1, MapConstants DEF Addrs
  <2>3. a < use
    BY <1>1, <2>1, <2>2 DEF Consistent
  <2> QED
    BY <1>1, <1>5, <2>3 DEF Consistent
<1>6. \A m \in Names \ {n}, a \in Addrs :
         records[a] = m => \/ records'[a] = m
                           \/ Behind(m) => Cardinality(since[m] \cup {n}) >= Max
  OBVIOUS
<1>7. \A m \in Names : Held(m)'
  BY <1>2, <1>3, <1>4, <1>5, <1>6, HeldKept
<1> QED
  BY <1>3, <1>4, <1>7 DEF MapInv

\* A table that has given out every index holds Max names.
LEMMA FullTable ==
  ASSUME MapInv, use = Max
  PROVE  Cardinality(DOMAIN node) \in Nat /\ Cardinality(DOMAIN node) >= Max
<1>1. /\ Max \in Nat \ {0} /\ IsFiniteSet(Names) /\ DOMAIN node \subseteq Names /\ Consistent
      /\ records \in [Addrs -> Names \cup {NoName}]
  BY MapConstants DEF MapInv, MapTypeOK
<1>2. \A a \in Addrs : records[a] \in DOMAIN node /\ node[records[a]] = a
  BY <1>1 DEF Consistent, Addrs
<1>3. records \in [Addrs -> DOMAIN node]
  BY <1>1, <1>2
<1>4. \A a, b \in Addrs : records[a] = records[b] => a = b
  BY <1>2
<1>5. records \in Injection(Addrs, DOMAIN node)
  BY <1>3, <1>4 DEF Injection, IsInjective
<1>6. IsFiniteSet(DOMAIN node)
  BY <1>1, FS_Subset
<1>7. Cardinality(Addrs) <= Cardinality(DOMAIN node)
  BY <1>5, <1>6, FS_Injection
<1>8. Cardinality(Addrs) = Max
  <2>1. 0 \in Int /\ Max - 1 \in Int /\ ~(0 > Max - 1) /\ (Max - 1) - 0 + 1 = Max
    BY <1>1
  <2> QED
    BY <2>1, FS_Interval DEF Addrs
<1>9. Cardinality(DOMAIN node) \in Nat
  BY <1>6, FS_CardinalityType
<1> QED
  BY <1>1, <1>7, <1>8, <1>9

\* A new name gets an index of its own ...
LEMMA FreeStep ==
  ASSUME MapInv, NEW n \in Names, FindFree(n), Used(n),
         told' \in {told, [told EXCEPT ![n] = node'[n]]}
  PROVE  MapInv'
<1> DEFINE l == Len(list)
<1>1. /\ DOMAIN node \subseteq Names /\ node \in [DOMAIN node -> Addrs]
      /\ records \in [Addrs -> Names \cup {NoName}] /\ use \in 0 .. Max /\ Consistent
      /\ Max \in Nat \ {0} /\ NoName \notin Names
      /\ list \in Seq(Names) /\ l \in Nat /\ DOMAIN list = 1 .. l
  BY MapFacts DEF MapTypeOK
<1>2. n \notin DOMAIN node /\ use < Max /\ use \in Addrs
  BY <1>1 DEF FindFree, Addrs
<1>3. /\ node' = [m \in DOMAIN node \cup {n} |-> IF m = n THEN use ELSE node[m]]
      /\ list' = Append(list, n) /\ records' = [records EXCEPT ![use] = n] /\ use' = use + 1
  BY DEF FindFree
<1>4. /\ DOMAIN node' = DOMAIN node \cup {n} /\ node' \in [DOMAIN node' -> Addrs]
      /\ node'[n] = use /\ \A m \in DOMAIN node : node'[m] = node[m]
  BY <1>1, <1>2, <1>3
<1>5. /\ records' \in [Addrs -> Names \cup {NoName}] /\ use' \in 0 .. Max
      /\ records'[use] = n /\ \A a \in Addrs \ {use} : records'[a] = records[a]
  BY <1>1, <1>2, <1>3
<1>6. /\ list' \in Seq(Names) /\ Len(list') = l + 1 /\ DOMAIN list' = 1 .. l + 1
      /\ list'[l + 1] = n /\ \A i \in 1 .. l : list'[i] = list[i]
  <2>1. /\ list' \in Seq(Names) /\ Len(list') = l + 1
        /\ list'[l + 1] = n /\ \A i \in 1 .. l : list'[i] = list[i]
    BY <1>1, <1>3, AppendProperties
  <2> QED
    BY <2>1, LenProperties
<1> HIDE DEF l
<1>7. \A i \in 1 .. l : list[i] \in DOMAIN node /\ list[i] # n
  BY <1>2, MapFacts DEF l
<1>8. MapTypeOK'
  <2>1. told' \in [Names -> Addrs \cup {-1}] /\ since' \in [Names -> SUBSET Names]
    BY <1>4, HistoryTypes
  <2> QED
    BY <1>1, <1>4, <1>5, <1>6, <2>1 DEF MapTypeOK
<1>9. records[use] = NoName
  BY <1>1, <1>2 DEF Consistent, Addrs
<1>10. Consistent'
  <2>1. ASSUME NEW m \in DOMAIN node' PROVE records'[node'[m]] = m
    <3>1. CASE m = n
      BY <1>4, <1>5, <3>1
    <3>2. CASE m \in DOMAIN node
      <4>1. records[node[m]] = m /\ node[m] \in Addrs /\ m # NoName
        BY <1>1, <3>2 DEF Consistent
      <4>2. node[m] # use
        BY <1>9, <4>1
      <4> QED
        BY <1>4, <1>5, <3>2, <4>1, <4>2
    <3> QED
      BY <1>4, <3>1, <3>2
  <2>2. ASSUME NEW a \in Addrs PROVE records'[a] = NoName <=> a >= use'
    <3>1. CASE a = use
      BY <1>1, <1>2, <1>3, <1>5, <3>1 DEF Addrs
    <3>2. CASE a # use
      <4>1. records'[a] = NoName <=> a >= use
        BY <1>1, <1>5, <3>2 DEF Consistent
      <4>2. a >= use <=> a >= use'
        BY <1>1, <1>3, <3>2 DEF Addrs
      <4> QED
        BY <4>1, <4>2
    <3> QED
      BY <3>1, <3>2
  <2>3. ASSUME NEW a \in Addrs, a < use' PROVE records'[a] \in DOMAIN node' /\ node'[records'[a]] = a
    <3>1. CASE a = use
      BY <1>4, <1>5, <3>1
    <3>2. CASE a # use
      <4>1. a < use
        BY <1>1, <1>3, <2>3, <3>2 DEF Addrs
      <4>2. records[a] \in DOMAIN node /\ node[records[a]] = a
        BY <1>1, <4>1 DEF Consistent
      <4> QED
        BY <1>4, <1>5, <3>2, <4>2
    <3> QED
      BY <3>1, <3>2
  <2>4. {list'[i] : i \in DOMAIN list'} = DOMAIN node'
    <3>1. \A i \in DOMAIN list' : i = l + 1 \/ i \in 1 .. l
      BY <1>1, <1>6
    <3>2. \A i \in DOMAIN list' : list'[i] \in DOMAIN node'
      BY <1>4, <1>6, <1>7, <3>1
    <3>3. ASSUME NEW m \in DOMAIN node' PROVE \E i \in DOMAIN list' : list'[i] = m
      <4>1. CASE m = n
        BY <1>1, <1>6, <4>1
      <4>2. CASE m \in DOMAIN node
        <5>1. PICK k \in 1 .. l : list[k] = m
          BY <4>2, MapFacts DEF l
        <5>2. k \in DOMAIN list' /\ list'[k] = m
          BY <1>1, <1>6, <5>1
        <5> QED
          BY <5>2
      <4> QED
        BY <1>4, <4>1, <4>2
    <3> QED
      BY <3>2, <3>3
  <2>5. ASSUME NEW i \in DOMAIN list', NEW j \in DOMAIN list', list'[i] = list'[j] PROVE i = j
    <3>1. (i = l + 1 \/ i \in 1 .. l) /\ (j = l + 1 \/ j \in 1 .. l)
      BY <1>1, <1>6
    <3>2. \A p, q \in 1 .. l : list[p] = list[q] => p = q
      BY MapFacts DEF l
    <3> QED
      BY <1>6, <1>7, <2>5, <3>1, <3>2
  <2> QED
    BY <2>1, <2>2, <2>3, <2>4, <2>5 DEF Consistent
<1>11. \A a \in Addrs : records[a] = n => a = node'[n]
  <2> SUFFICES ASSUME NEW a \in Addrs, records[a] = n PROVE FALSE
    OBVIOUS
  <2>1. a < use
    BY <1>1 DEF Consistent, Addrs
  <2> QED
    BY <1>1, <1>2, <2>1 DEF Consistent
<1>12. \A m \in Names \ {n}, a \in Addrs :
         records[a] = m => \/ records'[a] = m
                           \/ Behind(m) => Cardinality(since[m] \cup {n}) >= Max
  BY <1>1, <1>5, <1>9
<1>13. ASSUME NEW i \in DOMAIN list', NEW j \in DOMAIN list', i < j, list'[j] # n
       PROVE  \E p, q \in DOMAIN list : p < q /\ list[p] = list'[i] /\ list[q] = list'[j]
  <2>1. i \in 1 .. l /\ j \in 1 .. l
    BY <1>1, <1>6, <1>13
  <2> QED
    BY <1>1, <1>6, <1>13, <2>1
<1>14. list' # <<>> /\ list'[Len(list')] = n
  BY <1>1, <1>6, EmptySeq
<1>15. \A m \in Names : Held(m)'
  BY <1>4, <1>8, <1>10, <1>11, <1>12, <1>13, <1>14, HeldKept
<1> QED
  BY <1>8, <1>10, <1>15 DEF MapInv

\* ... or that of the name used least recently, behind which every other name of the
\* table stands.
LEMMA EvictStep ==
  ASSUME MapInv, NEW n \in Names, FindEvict(n), Used(n),
         told' \in {told, [told EXCEPT ![n] = node'[n]]}
  PROVE  MapInv'
<1> DEFINE l == Len(list)
           first == list[1]
           idx == node[first]
<1>1. /\ DOMAIN node \subseteq Names /\ node \in [DOMAIN node -> Addrs]
      /\ records \in [Addrs -> Names \cup {NoName}] /\ use \in 0 .. Max /\ Consistent
      /\ Max \in Nat \ {0} /\ NoName \notin Names
      /\ list \in Seq(Names) /\ l \in Nat /\ DOMAIN list = 1 .. l
      /\ \A i \in 1 .. l : list[i] \in DOMAIN node
      /\ \A i, j \in 1 .. l : list[i] = list[j] => i = j
      /\ \A m \in DOMAIN node : \E k \in 1 .. l : list[k] = m
  BY MapFacts DEF MapTypeOK
<1>2. n \notin DOMAIN node /\ use = Max
  BY DEF FindEvict
<1>3. \A a \in Addrs : records[a] \in DOMAIN node /\ node[records[a]] = a
  BY <1>1, <1>2 DEF Consistent, Addrs
<1>4. l >= 1 /\ list # <<>>
  <2>1. 0 \in Addrs
    BY <1>1 DEF Addrs
  <2>2. \E k \in 1 .. l : list[k] = records[0]
    BY <1>1, <1>3, <2>1
  <2>3. l >= 1
    BY <1>1, <2>2
  <2> QED
    BY <1>1, <2>3, EmptySeq
<1>5. Append(list, n) \in Seq(Names) /\ Append(list, n) # <<>> /\ Len(Append(list, n)) = l + 1
      /\ Append(list, n)[l + 1] = n /\ \A i \in 1 .. l : Append(list, n)[i] = list[i]
  BY <1>1, AppendProperties
<1>6. Head(Append(list, n)) = first
  <2>1. Head(Append(list, n)) = Append(list, n)[1]
    BY <1>5
  <2> QED
    BY <1>1, <1>4, <1>5, <2>1
<1>7. /\ node' = [m \in (DOMAIN node \ {first}) \cup {n} |-> IF m = n THEN idx ELSE node[m]]
      /\ list' = Tail(Append(list, n)) /\ records' = [records EXCEPT ![idx] = n] /\ use' = use
  BY <1>6 DEF FindEvict
<1>8. first \in DOMAIN node /\ idx \in Addrs /\ records[idx] = first /\ first # n
  BY <1>1, <1>2, <1>4 DEF Consistent
<1>9. /\ list' \in Seq(Names) /\ Len(list') = l /\ DOMAIN list' = 1 .. l
      /\ list'[l] = n /\ \A i \in 1 .. l - 1 : list'[i] = list[i + 1]
  <2> DEFINE t == Append(list, n)
  <2>1. t \in Seq(Names) /\ t # <<>> /\ Len(t) = l + 1 /\ t[l + 1] = n /\ \A i \in 1 .. l : t[i] = list[i]
    BY <1>5
  <2>2. list' = Tail(t)
    BY <1>7
  <2> HIDE DEF t
  <2>3. list' \in Seq(Names) /\ Len(list') = Len(t) - 1 /\ \A i \in 1 .. Len(list') : list'[i] = t[i + 1]
    BY <2>1, <2>2, HeadTailProperties
  <2> HIDE DEF l
  <2>4. Len(list') = l
    BY <1>1, <2>1, <2>3
  <2>5. DOMAIN list' = 1 .. l
    BY <2>3, <2>4, LenProperties
  <2>6. \A i \in 1 .. l : list'[i] = t[i + 1]
    BY <2>3, <2>4
  <2>7. list'[l] = n
    BY <1>1, <1>4, <2>1, <2>6
  <2>8. \A i \in 1 .. l - 1 : i \in 1 .. l /\ i + 1 \in 1 .. l
    BY <1>1
  <2> QED
    BY <2>1, <2>3, <2>4, <2>5, <2>6, <2>7, <2>8
<1> HIDE DEF l, idx
<1>10. /\ DOMAIN node' = (DOMAIN node \ {first}) \cup {n} /\ node' \in [DOMAIN node' -> Addrs]
       /\ node'[n] = idx /\ \A m \in DOMAIN node \ {first} : node'[m] = node[m]
  BY <1>1, <1>2, <1>7, <1>8
<1>11. /\ records' \in [Addrs -> Names \cup {NoName}]
       /\ records'[idx] = n /\ \A a \in Addrs \ {idx} : records'[a] = records[a]
  BY <1>1, <1>7, <1>8
<1>12. MapTypeOK'
  <2>1. told' \in [Names -> Addrs \cup {-1}] /\ since' \in [Names -> SUBSET Names]
    BY <1>10, HistoryTypes
  <2> QED
    BY <1>1, <1>7, <1>9, <1>10, <1>11, <2>1 DEF MapTypeOK
<1>13. \A m \in DOMAIN node : node[m] = idx => m = first
  BY <1>1, <1>8 DEF Consistent
<1>14. Consistent'
  <2>1. ASSUME NEW m \in DOMAIN node' PROVE records'[node'[m]] = m
    <3>1. CASE m = n
      BY <1>10, <1>11, <3>1
    <3>2. CASE m \in DOMAIN node \ {first}
      <4>1. records[node[m]] = m /\ node[m] \in Addrs /\ node[m] # idx
        BY <1>1, <1>13, <3>2 DEF Consistent
      <4> QED
        BY <1>10, <1>11, <3>2, <4>1
    <3> QED
      BY <1>10, <3>1, <3>2
  <2>2. ASSUME NEW a \in Addrs PROVE records'[a] # NoName /\ a < use'
    <3>1. a < use'
      BY <1>1, <1>2, <1>7 DEF Addrs
    <3>2. records'[a] # NoName
      BY <1>1, <1>3, <1>11, SMTT(60)
    <3> QED
      BY <3>1, <3>2
  <2>3. \A a \in Addrs : records'[a] = NoName <=> a >= use'
    BY <1>1, <1>7, <2>2 DEF Addrs
  <2>4. ASSUME NEW a \in Addrs PROVE records'[a] \in DOMAIN node' /\ node'[records'[a]] = a
    <3>1. CASE a = idx
      BY <1>10, <1>11, <3>1
    <3>2. CASE a # idx
      <4>1. records[a] # first
        BY <1>3, <3>2 DEF idx
      <4> QED
        BY <1>3, <1>10, <1>11, <3>2, <4>1
    <3> QED
      BY <3>1, <3>2
  <2>5. {list'[i] : i \in DOMAIN list'} = DOMAIN node'
    <3>1. ASSUME NEW i \in DOMAIN list' PROVE list'[i] \in DOMAIN node'
      <4>1. CASE i = l
        BY <1>9, <1>10, <4>1
      <4>2. CASE i # l
        <5>1. i \in 1 .. l - 1 /\ i + 1 \in 1 .. l /\ i + 1 # 1 /\ 1 \in 1 .. l
          BY <1>1, <1>4, <1>9, <4>2
        <5>2. list[i + 1] \in DOMAIN node /\ list[i + 1] # first
          BY <1>1, <5>1
        <5> QED
          BY <1>9, <1>10, <5>1, <5>2
      <4> QED
        BY <4>1, <4>2
    <3>2. ASSUME NEW m \in DOMAIN node' PROVE \E i \in DOMAIN list' : list'[i] = m
      <4>1. CASE m = n
        <5>1. l \in DOMAIN list' /\ list'[l] = m
          BY <1>1, <1>4, <1>9, <4>1
        <5> QED
          BY <5>1
      <4>2. CASE m \in DOMAIN node \ {first}
        <5>1. PICK k \in 1 .. l : list[k] = m
          BY <1>1, <4>2
        <5>2. k - 1 \in 1 .. l - 1 /\ (k - 1) + 1 = k
          BY <1>1, <4>2, <5>1
        <5>3. k - 1 \in DOMAIN list' /\ list'[k - 1] = m
          BY <1>1, <1>9, <5>1, <5>2
        <5> QED
          BY <5>3
      <4> QED
        BY <1>10, <4>1, <4>2
    <3> QED
      BY <3>1, <3>2
  <2>6. ASSUME NEW i \in DOMAIN list', NEW j \in DOMAIN list', list'[i] = list'[j] PROVE i = j
    <3>1. \A k \in 1 .. l : k = l \/ (k \in 1 .. l - 1 /\ k + 1 \in 1 .. l)
      BY <1>1
    <3>2. \A k \in 1 .. l - 1 : list'[k] # n
      BY <1>1, <1>2, <1>9, <3>1
    <3>3. CASE i = l \/ j = l
      BY <1>9, <2>6, <3>1, <3>2, <3>3
    <3>4. CASE i # l /\ j # l
      <4>1. list[i + 1] = list[j + 1] /\ i + 1 \in 1 .. l /\ j + 1 \in 1 .. l
        BY <1>9, <2>6, <3>1, <3>4
      <4>2. i + 1 = j + 1
        BY <1>1, <4>1
      <4> QED
        BY <1>9, <4>2
    <3> QED
      BY <3>3, <3>4
  <2> QED
    BY <2>1, <2>2, <2>3, <2>4, <2>5, <2>6 DEF Consistent
<1>15. \A a \in Addrs : records[a] = n => a = node'[n]
  BY <1>2, <1>3
<1>16. ASSUME NEW m \in Names \ {n}, NEW a \in Addrs, records[a] = m, records'[a] # m, Behind(m)
       PROVE  Cardinality(since[m] \cup {n}) >= Max
  <2>1. m = first
    BY <1>3, <1>8, <1>11, <1>16
  <2>2. DOMAIN node \ {first} \subseteq since[m]
    <3> SUFFICES ASSUME NEW k \in DOMAIN node, k # first PROVE k \in since[m]
      OBVIOUS
    <3>1. PICK j \in 1 .. l : list[j] = k
      BY <1>1
    <3>2. 1 \in DOMAIN list /\ j \in DOMAIN list /\ 1 < j
      BY <1>1, <1>4, <3>1
    <3> QED
      BY <1>16, <2>1, <3>1, <3>2 DEF Behind
  <2>3. IsFiniteSet(DOMAIN node) /\ IsFiniteSet(since[m] \cup {n})
    <3>1. since[m] \cup {n} \subseteq Names
      BY DEF MapInv, MapTypeOK
    <3> QED
      BY <1>1, <3>1, MapConstants, FS_Subset
  <2> DEFINE rest == DOMAIN node \ {first}
             most == rest \cup {n}
             card == Cardinality(DOMAIN node)
  <2>4. card \in Nat /\ card >= Max
    BY <1>2, FullTable
  <2>5. IsFiniteSet(rest) /\ Cardinality(rest) = card - 1
    BY <1>8, <2>3, FS_RemoveElement
  <2>6. n \notin rest
    BY <1>2
  <2> HIDE DEF card, rest
  <2>7. IsFiniteSet(most) /\ Cardinality(most) = Cardinality(rest) + 1
    BY <2>5, <2>6, FS_AddElement
  <2>8. most \subseteq since[m] \cup {n}
    BY <2>2 DEF rest
  <2> HIDE DEF most
  <2>9. Cardinality(most) <= Cardinality(since[m] \cup {n})
    BY <2>3, <2>8, FS_Subset
  <2>10. Cardinality(since[m] \cup {n}) \in Nat
    BY <2>3, FS_CardinalityType
  <2> QED
    BY <1>1, <2>4, <2>5, <2>7, <2>9, <2>10
<1>17. ASSUME NEW i \in DOMAIN list', NEW j \in DOMAIN list', i < j, list'[j] # n
       PROVE  \E p, q \in DOMAIN list : p < q /\ list[p] = list'[i] /\ list[q] = list'[j]
  <2>1. i \in 1 .. l - 1 /\ j \in 1 .. l - 1
    BY <1>1, <1>9, <1>17
  <2>2. i + 1 < j + 1 /\ i + 1 \in DOMAIN list /\ j + 1 \in DOMAIN list
        /\ list[i + 1] = list'[i] /\ list[j + 1] = list'[j]
    BY <1>1, <1>9, <1>17, <2>1
  <2> QED
    BY <2>2
<1>18. list' # <<>> /\ list'[Len(list')] = n
  BY <1>1, <1>4, <1>9, EmptySeq
<1>19. n \in DOMAIN node'
  BY <1>10
<1>20. \A m \in Names : Held(m)'
  BY <1>12, <1>14, <1>15, <1>16, <1>17, <1>18, <1>19, HeldKept
<1> QED
  BY <1>12, <1>14, <1>20 DEF MapInv

\* Every step of the table preserves the invariant.
LEMMA MapStep == MapInv /\ [MapNext]_mapVars => MapInv'
<1> SUFFICES ASSUME MapInv, [MapNext]_mapVars PROVE MapInv'
  OBVIOUS
<1>1. ASSUME NEW n \in Names, Ask(n) PROVE MapInv'
  <2>1. Used(n) /\ told' \in {told, [told EXCEPT ![n] = node'[n]]}
    BY <1>1 DEF Ask
  <2>2. CASE FindHit(n)
    BY <2>1, <2>2, HitStep DEF FindHit
  <2>3. CASE FindFree(n)
    BY <2>1, <2>3, FreeStep
  <2>4. CASE FindEvict(n)
    BY <2>1, <2>4, EvictStep
  <2> QED
    BY <1>1, <2>2, <2>3, <2>4 DEF Ask
<1>2. CASE UNCHANGED mapVars
  BY <1>2 DEF mapVars, MapInv, MapTypeOK, Consistent, Held, Behind
<1>3. ASSUME NEW ip \in IPs, Lookup(ip) PROVE MapInv'
  <2> DEFINE n == NameAt(ip)
  <2>1. CASE n = NoName
    BY <1>2, <1>3, <2>1 DEF Lookup
  <2>2. CASE n # NoName
    <3>1. /\ list' = Touch(list, n) /\ UNCHANGED <<node, records, use, told>> /\ Used(n)
      BY <1>3, <2>2 DEF Lookup
    <3>2. ip.host \in Addrs /\ n = records[ip.host]
      BY <2>2 DEF NameAt
    <3>3. n \in DOMAIN node /\ n \in Names
      <4>1. MapTypeOK /\ Consistent /\ Max \in Nat \ {0}
        BY MapFacts
      <4>2. ip.host < use
        BY <2>2, <3>2, <4>1 DEF Consistent, MapTypeOK, Addrs
      <4> QED
        BY <3>2, <4>1, <4>2 DEF Consistent, MapTypeOK
    <3> HIDE DEF n
    <3> QED
      BY <3>1, <3>3, HitStep
  <2> QED
    BY <2>1, <2>2
<1> QED
  BY <1>1, <1>2, <1>3 DEF MapNext

\* The empty table satisfies it.
LEMMA MapStart == MapInit => MapInv
<1> SUFFICES ASSUME MapInit PROVE MapInv
  OBVIOUS
<1>0. Max \in Nat \ {0}
  BY MapConstants
<1>1. /\ node = [n \in {} |-> 0] /\ list = <<>> /\ use = 0
      /\ records = [a \in Addrs |-> NoName]
      /\ told = [n \in Names |-> -1]
      /\ since = [n \in Names |-> {}]
  BY DEF MapInit
<1>2. DOMAIN node = {}
  BY <1>1
<1>3. list \in Seq(Names) /\ DOMAIN list = {}
  BY <1>1, EmptySeq
<1>4. MapTypeOK
  BY <1>0, <1>1, <1>2, <1>3 DEF MapTypeOK
<1>5. \A a \in Addrs : a >= use /\ ~(a < use)
  BY <1>0, <1>1 DEF Addrs
<1>6. Consistent
  BY <1>1, <1>2, <1>3, <1>5 DEF Consistent
<1>7. \A n \in Names : Held(n)
  BY <1>1 DEF Held
<1> QED
  BY <1>4, <1>6, <1>7 DEF MapInv


-----------------------------------------------------------------------------
(***************************************************************************)
(* The association.                                                        *)
(***************************************************************************)
Pcs == {"none", "connecting", "f", "send", "b", "destruct"}
Peer == [name : Names \cup {NoName}, ip : IPs, port : Ports]
Frame == [id : Nat, name : Names \cup {NoName}, ip : IPs, port : Ports]
Reply == [id : Nat, port : Ports, bad : BOOLEAN, name : Names \cup {NoName}, ip : IPs]
Known == Peer \cup {Empty}

SesType == [pc : Pcs, task : {"RUNNING", "WAITING"}, f : -1 .. 1, b : -1 .. 1, batch : Nat,
            sent : Nat, timeout : {0, 1}, expired : BOOLEAN, order : Seq(Names)]
LinkType == [up : Seq(Frame), down : Seq(Reply), edge : BOOLEAN, nospace : BOOLEAN,
             closed : BOOLEAN]
AppType == [asked : Nat, sent : Seq(Peer), got : SUBSET [id : Nat, ip : IPs, port : Ports]]

Types ==
  /\ mode \in Cases /\ ses \in SesType /\ frames \in Seq(Frame)
  /\ names \in [0 .. Slots - 1 -> Known] /\ next \in 0 .. Slots - 1 /\ last \in Known
  /\ link \in LinkType /\ proxy \in [got : Seq(Frame), pending : SUBSET Frame]
  /\ app \in AppType

Limits ==
  /\ ses.sent <= ses.batch /\ ses.batch <= Num /\ ses.batch <= Len(frames)
  /\ Len(frames) <= Pool + 1 /\ Len(link.up) <= LinkCap /\ Len(link.down) <= LinkCap
  /\ ses.pc # "send" => ses.sent = 0 /\ ses.batch = 0
  /\ ses.pc = "none" => ses = [Fresh EXCEPT !.pc = "none"]

Base == MapInv /\ Types /\ Limits

\* The constants are numbers, and so are the lengths.
LEMMA UdpFacts ==
  /\ Slots \in Nat \ {0} /\ Num \in Nat \ {0} /\ LinkCap \in Nat \ {0} /\ Pool \in Nat
  /\ MaxSend \in Nat /\ Max \in Nat \ {0} /\ NoName \notin Names
BY UdpConstants, MapConstants

\* The parts of a case.
LEMMA CaseFacts ==
  ASSUME mode \in Cases
  PROVE  mode.carrier \in {"tcp", "udp"} /\ mode.echo \in BOOLEAN /\ mode.asks \in Seq(Names)
BY UdpConstants

\* Lengths are numbers and domains begin at one.
LEMMA LenIs ==
  ASSUME NEW T, NEW s \in Seq(T)
  PROVE  Len(s) \in Nat /\ DOMAIN s = 1 .. Len(s) /\ \A i \in 1 .. Len(s) : s[i] \in T
BY LenProperties

\* A part of a sequence.
LEMMA PartIs ==
  ASSUME NEW T, NEW s \in Seq(T), NEW a \in 0 .. Len(s), NEW b \in a .. Len(s),
         NEW d, d = SubSeq(s, a + 1, b)
  PROVE  d \in Seq(T) /\ Len(d) = b - a /\ \A i \in 1 .. b - a : d[i] = s[a + i]
<1>1. Len(s) \in Nat /\ \A i \in 1 .. Len(s) : s[i] \in T
  BY LenIs
<1>2. a + 1 \in Int /\ b \in Int /\ \A i \in a + 1 .. b : s[i] \in T
  BY <1>1
<1>3. d \in Seq(T) /\ Len(d) = IF a + 1 <= b THEN b - (a + 1) + 1 ELSE 0
  BY <1>2, SubSeqProperties
<1>4. Len(d) = b - a
  <2> DEFINE l == Len(d)
  <2>1. l = IF a + 1 <= b THEN b - (a + 1) + 1 ELSE 0
    BY <1>3
  <2> HIDE DEF l
  <2>2. l = b - a
    BY <1>1, <2>1
  <2> QED
    BY <2>2 DEF l
<1>5. ASSUME NEW i \in 1 .. b - a PROVE d[i] = s[a + i]
  <2>1. d[i] = s[(a + 1) + i - 1]
    BY <1>1, <1>2, SubSeqProperties
  <2>2. (a + 1) + i - 1 = a + i
    BY <1>1
  <2> QED
    BY <2>1, <2>2
<1> QED
  BY <1>3, <1>4, <1>5

\* What is left of a sequence.
LEMMA DropIs ==
  ASSUME NEW T, NEW s \in Seq(T), NEW n \in 0 .. Len(s), NEW d, d = Drop(s, n)
  PROVE  d \in Seq(T) /\ Len(d) = Len(s) - n /\ \A i \in 1 .. Len(s) - n : d[i] = s[n + i]
<1>1. Len(s) \in Nat /\ Len(s) \in n .. Len(s)
  BY LenIs
<1>2. d = SubSeq(s, n + 1, Len(s))
  BY DEF Drop
<1> QED
  BY <1>1, <1>2, PartIs

\* Whatever is left was there.
LEMMA DropOf ==
  ASSUME NEW T, NEW s \in Seq(T), NEW n \in 0 .. Len(s), NEW d, d = Drop(s, n), NEW i \in DOMAIN d
  PROVE  \E j \in DOMAIN s : d[i] = s[j]
<1>1. d \in Seq(T) /\ Len(d) = Len(s) - n /\ \A k \in 1 .. Len(s) - n : d[k] = s[n + k]
  BY DropIs, ZenonT(60)
<1>2. Len(s) \in Nat /\ DOMAIN s = 1 .. Len(s) /\ DOMAIN d = 1 .. Len(s) - n
  BY <1>1, LenIs
<1>3. i \in 1 .. Len(s) - n /\ n + i \in DOMAIN s
  BY <1>2
<1> QED
  BY <1>1, <1>3

\* One sequence behind another.
LEMMA JoinIs ==
  ASSUME NEW T, NEW s \in Seq(T), NEW t \in Seq(T), NEW c, c = s \o t
  PROVE  /\ c \in Seq(T) /\ Len(c) = Len(s) + Len(t)
         /\ \A i \in 1 .. Len(s) : c[i] = s[i]
         /\ \A i \in 1 .. Len(t) : c[Len(s) + i] = t[i]
<1>1. /\ s \o t \in Seq(T) /\ Len(s \o t) = Len(s) + Len(t)
      /\ \A i \in 1 .. Len(s) + Len(t) : (s \o t)[i] = IF i <= Len(s) THEN s[i] ELSE t[i - Len(s)]
  BY ConcatProperties
<1>2. Len(s) \in Nat /\ Len(t) \in Nat
  BY LenIs
<1>3. ASSUME NEW i \in 1 .. Len(t) PROVE c[Len(s) + i] = t[i]
  <2>1. Len(s) + i \in 1 .. Len(s) + Len(t) /\ ~(Len(s) + i <= Len(s)) /\ (Len(s) + i) - Len(s) = i
    BY <1>2
  <2> QED
    BY <1>1, <2>1
<1>4. ASSUME NEW i \in 1 .. Len(s) PROVE c[i] = s[i]
  BY <1>1, <1>2
<1> QED
  BY <1>1, <1>3, <1>4

\* Each element of the two is one of the one or one of the other.
LEMMA JoinOf ==
  ASSUME NEW T, NEW s \in Seq(T), NEW t \in Seq(T), NEW c, c = s \o t, NEW i \in DOMAIN c
  PROVE  \/ i \in DOMAIN s /\ c[i] = s[i]
         \/ \E j \in DOMAIN t : i = Len(s) + j /\ c[i] = t[j]
<1>1. /\ c \in Seq(T) /\ Len(c) = Len(s) + Len(t)
      /\ \A k \in 1 .. Len(s) : c[k] = s[k]
      /\ \A k \in 1 .. Len(t) : c[Len(s) + k] = t[k]
  BY JoinIs
<1>2. /\ Len(s) \in Nat /\ Len(t) \in Nat /\ DOMAIN c = 1 .. Len(s) + Len(t)
      /\ DOMAIN s = 1 .. Len(s) /\ DOMAIN t = 1 .. Len(t)
  BY <1>1, LenIs
<1>3. CASE i <= Len(s)
  BY <1>1, <1>2, <1>3
<1>4. CASE i > Len(s)
  <2>1. i - Len(s) \in 1 .. Len(t) /\ Len(s) + (i - Len(s)) = i
    BY <1>2, <1>4
  <2> QED
    BY <1>1, <1>2, <2>1
<1> QED
  BY <1>2, <1>3, <1>4

\* The next slot of the round.
LEMMA RoundIs ==
  ASSUME next \in 0 .. Slots - 1
  PROVE  (next + 1) % Slots = IF next + 1 = Slots THEN 0 ELSE next + 1
<1>1. Slots \in Nat \ {0} /\ next \in Nat /\ next < Slots
  BY UdpFacts
<1>2. CASE next + 1 = Slots
  <2>1. Slots % Slots = 0
    BY <1>1
  <2> QED
    BY <1>2, <2>1
<1>3. CASE next + 1 # Slots
  <2>1. next + 1 < Slots /\ next + 1 \in Nat
    BY <1>1, <1>3
  <2>2. (next + 1) % Slots = next + 1
    BY <1>1, <2>1
  <2> QED
    BY <1>3, <2>2
<1> QED
  BY <1>2, <1>3

\* A wakeup makes the task runnable and changes nothing else.
LEMMA WakeIs ==
  ASSUME NEW s \in SesType
  PROVE  /\ Wake(s) \in SesType /\ Wake(s).task = "RUNNING" /\ Wake(s).pc = s.pc
         /\ Wake(s).f = s.f /\ Wake(s).b = s.b /\ Wake(s).batch = s.batch /\ Wake(s).sent = s.sent
         /\ Wake(s).timeout = s.timeout /\ Wake(s).expired = s.expired /\ Wake(s).order = s.order
BY DEF Wake, SesType

\* A new session, and what there is without one.
LEMMA FreshIs ==
  /\ Fresh \in SesType /\ [Fresh EXCEPT !.pc = "none"] \in SesType
  /\ Empty \in Known /\ NoNames \in [0 .. Slots - 1 -> Known] /\ NoLink \in LinkType
  /\ Len(NoLink.up) = 0 /\ Len(NoLink.down) = 0
<1>1. <<>> \in Seq(Names) /\ <<>> \in Seq(Frame) /\ <<>> \in Seq(Reply)
  BY EmptySeq
<1>2. Fresh \in SesType /\ [Fresh EXCEPT !.pc = "none"] \in SesType
  <2> DEFINE o == <<>>
             r == [pc |-> "connecting", task |-> "RUNNING", f |-> 1, b |-> 1, batch |-> 0,
                   sent |-> 0, timeout |-> 1, expired |-> FALSE, order |-> o]
  <2>1. o \in Seq(Names)
    BY <1>1
  <2>2. Fresh = r
    BY DEF Fresh
  <2> HIDE DEF o
  <2>3. r \in SesType
    BY <2>1 DEF SesType, Pcs
  <2> HIDE DEF r
  <2>4. [r EXCEPT !.pc = "none"] \in SesType
    BY <2>3 DEF SesType, Pcs
  <2> QED
    BY <2>2, <2>3, <2>4
<1>3. Empty \in Known
  BY DEF Known
<1>4. NoNames \in [0 .. Slots - 1 -> Known]
  BY <1>3 DEF NoNames
<1>5. NoLink \in LinkType /\ Len(NoLink.up) = 0 /\ Len(NoLink.down) = 0
  BY <1>1, EmptySeq DEF NoLink, LinkType
<1> QED
  BY <1>2, <1>3, <1>4, <1>5

\* What an address stands for.
LEMMA NameAtType ==
  ASSUME MapInv, NEW ip \in IPs
  PROVE  NameAt(ip) \in Names \cup {NoName}
<1>1. records \in [Addrs -> Names \cup {NoName}]
  BY DEF MapInv, MapTypeOK
<1> QED
  BY <1>1 DEF NameAt

\* What a send does: part of a batch goes to the carrier, and the list keeps all of it
\* while the send waits, or loses at least that part.
LEMMA SendGives ==
  ASSUME Base, Send, ses.pc \in {"f", "send"}, mode \in Cases
  PROVE  \E batch, done, gone \in Nat :
           /\ ses.sent <= done /\ done <= batch /\ batch <= Len(frames) /\ batch <= Num
           /\ link' = [link EXCEPT !.up = @ \o SubSeq(frames, ses.sent + 1, done),
                                   !.nospace = done < batch]
           /\ Len(link.up) + (done - ses.sent) <= LinkCap
           /\ frames' = Drop(frames, gone)
           /\ \/ /\ done < batch /\ gone = 0 /\ Len(link.up) + (done - ses.sent) = LinkCap
                 /\ ses' = [ses EXCEPT !.pc = "send", !.batch = batch, !.sent = done,
                                       !.task = "WAITING"]
              \/ /\ gone \in done .. batch
                 /\ ses' = [ses EXCEPT !.pc = "b", !.batch = 0, !.sent = 0, !.expired = FALSE,
                                       !.f = IF gone > 0 THEN 1 ELSE -1]
<1> DEFINE batch == IF ses.pc = "send" THEN ses.batch ELSE Least(Len(frames), Num)
           k == IF ses.expired THEN 0 ELSE Least(batch - ses.sent, LinkCap - Len(link.up))
           done == ses.sent + k
           fails == done < batch /\ (ses.timeout = 0 \/ ses.expired \/ link.closed)
           gone == Gone(batch, done, fails)
<1>1. /\ ses.sent \in Nat /\ ses.batch \in Nat /\ ses.expired \in BOOLEAN
      /\ ses.sent <= ses.batch /\ ses.batch <= Num /\ ses.batch <= Len(frames)
      /\ ses.pc # "send" => ses.sent = 0
      /\ Len(frames) \in Nat /\ Len(link.up) \in Nat /\ Len(link.up) <= LinkCap
      /\ Num \in Nat \ {0} /\ LinkCap \in Nat \ {0}
  <2>1. ses \in SesType /\ frames \in Seq(Frame) /\ link \in LinkType
    BY DEF Base, Types
  <2>2. link.up \in Seq(Frame)
    BY <2>1 DEF LinkType
  <2> QED
    BY <2>1, <2>2, LenIs, UdpFacts DEF Base, Limits, SesType
<1>2. /\ link' = [link EXCEPT !.up = @ \o SubSeq(frames, ses.sent + 1, done), !.nospace = done < batch]
      /\ frames' = Drop(frames, gone)
      /\ ses' = IF done < batch /\ ~fails
                THEN [ses EXCEPT !.pc = "send", !.batch = batch, !.sent = done, !.task = "WAITING"]
                ELSE [ses EXCEPT !.pc = "b", !.batch = 0, !.sent = 0, !.expired = FALSE,
                                 !.f = IF gone > 0 THEN 1 ELSE -1]
  BY DEF Send
<1> DEFINE u == Len(link.up)
           c == Len(frames)
           s == ses.sent
           e == ses.expired
<1>3. batch \in Nat /\ batch <= c /\ batch <= Num /\ s <= batch
  BY <1>1 DEF Least
<1> HIDE DEF batch
<1>4. s \in Nat /\ u \in Nat /\ c \in Nat /\ LinkCap \in Nat /\ u <= LinkCap /\ e \in BOOLEAN
      /\ k = (IF e THEN 0 ELSE Least(batch - s, LinkCap - u)) /\ done = s + k
  BY <1>1
<1> HIDE DEF u, c, s, e, k
<1>5. k \in Nat /\ s + k <= batch /\ u + k <= LinkCap /\ (~e /\ s + k < batch => u + k = LinkCap)
  BY <1>3, <1>4 DEF Least
<1>6. done \in Nat /\ s <= done /\ done <= batch /\ done - s = k
  BY <1>3, <1>4, <1>5
<1>7. done < batch /\ ~fails => ~e
  BY DEF e
<1> HIDE DEF done, fails
<1>8. CASE done < batch /\ ~fails
  <2>1. gone = 0
    BY <1>3, <1>6, <1>8 DEF Gone
  <2>2. Len(link.up) + (done - ses.sent) = LinkCap
    BY <1>4, <1>5, <1>6, <1>7, <1>8 DEF u, s
  <2> HIDE DEF gone
  <2>3. /\ batch \in Nat /\ done \in Nat /\ gone \in Nat
        /\ ses.sent <= done /\ done <= batch /\ batch <= Len(frames) /\ batch <= Num
        /\ Len(link.up) + (done - ses.sent) <= LinkCap
    BY <1>3, <1>4, <1>6, <2>1, <2>2 DEF s, c
  <2>4. ses' = [ses EXCEPT !.pc = "send", !.batch = batch, !.sent = done, !.task = "WAITING"]
    BY <1>2, <1>8
  <2> QED
    BY <1>2, <1>8, <2>1, <2>2, <2>3, <2>4
<1>9. CASE ~(done < batch /\ ~fails)
  <2>1. gone \in done .. batch /\ gone \in Nat
    <3>1. CASE done = batch
      BY <1>3, <1>6, <3>1 DEF Gone
    <3>2. CASE done # batch
      <4>1. done < batch /\ fails
        BY <1>3, <1>6, <1>9, <3>2
      <4>2. CASE done = 0
        BY <1>3, <1>6, <4>1, <4>2 DEF Gone
      <4>3. CASE done # 0
        BY <1>3, <1>6, <4>1, <4>3 DEF Gone
      <4> QED
        BY <4>2, <4>3
    <3> QED
      BY <3>1, <3>2
  <2> HIDE DEF gone
  <2>2. /\ batch \in Nat /\ done \in Nat
        /\ ses.sent <= done /\ done <= batch /\ batch <= Len(frames) /\ batch <= Num
        /\ Len(link.up) + (done - ses.sent) <= LinkCap
    BY <1>3, <1>4, <1>5, <1>6 DEF s, c, u
  <2>3. ses' = [ses EXCEPT !.pc = "b", !.batch = 0, !.sent = 0, !.expired = FALSE,
                           !.f = IF gone > 0 THEN 1 ELSE -1]
    BY <1>2, <1>9
  <2> QED
    BY <1>2, <2>1, <2>2, <2>3
<1> QED
  BY <1>8, <1>9

\* The three ways of fwd_f.
LEMMA FwdFGives ==
  ASSUME FwdF
  PROVE  /\ UNCHANGED <<mapVars, mode, names, next, last, proxy, app>>
         /\ ses.pc \in {"f", "send"} /\ ses.task = "RUNNING"
         /\ \/ ses.pc = "f" /\ ses' = [ses EXCEPT !.pc = "destruct"] /\ UNCHANGED <<frames, link>>
            \/ Send
            \/ /\ ses.pc = "f" /\ (ses.f >= 0 => frames = <<>>)
               /\ ses' = [ses EXCEPT !.pc = "b", !.f = IF @ < 0 THEN @ ELSE 0]
               /\ UNCHANGED <<frames, link>>
<1>1. /\ UNCHANGED <<mapVars, mode, names, next, last, proxy, app>>
      /\ ses.pc \in {"f", "send"} /\ ses.task = "RUNNING"
  BY DEF FwdF, At
<1>2. CASE ses.pc = "f" /\ ses.expired
  BY <1>1, <1>2 DEF FwdF
<1>3. CASE ses.pc = "send" \/ (ses.pc = "f" /\ ~ses.expired /\ ses.f >= 0 /\ frames # <<>>)
  BY <1>1, <1>3 DEF FwdF
<1>4. CASE ses.pc = "f" /\ ~ses.expired /\ ~(ses.f >= 0 /\ frames # <<>>)
  BY <1>1, <1>4 DEF FwdF
<1> QED
  BY <1>1, <1>2, <1>3, <1>4

\* The source of a reply is a peer, or there is none.
LEMMA SourceType ==
  ASSUME Types, NEW m \in Reply
  PROVE  Source(m) \in Known
<1>1. /\ names \in [0 .. Slots - 1 -> Known] /\ last \in Known
      /\ m.name \in Names \cup {NoName} /\ m.ip \in IPs /\ m.port \in Ports
  BY DEF Types, Reply
<1>2. [name |-> NoName, ip |-> m.ip, port |-> m.port] \in Known
  BY <1>1 DEF Known, Peer
<1>3. CASE m.name # NoName /\ SlotOf(m.name) = {}
  BY <1>3, FreshIs DEF Source
<1>4. CASE m.name # NoName /\ SlotOf(m.name) # {}
  <2>1. (CHOOSE i \in SlotOf(m.name) : TRUE) \in SlotOf(m.name)
    BY <1>4
  <2>2. SlotOf(m.name) \subseteq 0 .. Slots - 1
    BY <1>1 DEF SlotOf
  <2>3. Source(m) = names[CHOOSE i \in SlotOf(m.name) : TRUE]
    BY <1>4 DEF Source
  <2> QED
    BY <1>1, <2>1, <2>2, <2>3
<1>5. CASE m.name = NoName
  BY <1>1, <1>2, <1>5 DEF Source
<1> QED
  BY <1>3, <1>4, <1>5

\* What one call of recvmmsg takes.
LEMMA RecvIs ==
  ASSUME Base
  PROVE  /\ recvmmsg.batch \in Seq(Reply) /\ Len(recvmmsg.batch) \in 0 .. Len(link.down)
         /\ \A i \in 1 .. Len(recvmmsg.batch) : recvmmsg.batch[i] = link.down[i]
         /\ recvmmsg.res \in Int /\ recvmmsg.res >= -1 /\ recvmmsg.res <= Len(recvmmsg.batch)
         /\ recvmmsg.res = 0 => link.down = <<>> /\ (link.closed => mode.carrier # "tcp")
<1> DEFINE down == link.down
           l == Len(down)
           n == Least(l, Num)
           batch == Take(down, n)
           res == CASE n = 0 -> IF link.closed /\ mode.carrier = "tcp" THEN -1 ELSE 0
                    [] n > 0 /\ (\E i \in 1 .. n : batch[i].bad) -> -1
                    [] OTHER -> n
<1>1. down \in Seq(Reply) /\ l \in Nat
  BY LenIs DEF Base, Types, LinkType
<1>2. recvmmsg.batch = batch /\ recvmmsg.res = res
  BY DEF recvmmsg
<1> HIDE DEF down
<1>3. n \in 0 .. l /\ (n = 0 => l = 0)
  BY <1>1, UdpFacts DEF Least
<1> HIDE DEF n
<1>4. batch \in Seq(Reply) /\ Len(batch) = n /\ \A i \in 1 .. n : batch[i] = down[i]
  <2>1. batch = SubSeq(down, 0 + 1, n)
    BY DEF Take
  <2>2. 0 \in 0 .. Len(down) /\ n \in 0 .. Len(down)
    BY <1>1, <1>3
  <2> HIDE DEF batch
  <2>3. batch \in Seq(Reply) /\ Len(batch) = n - 0 /\ \A i \in 1 .. n - 0 : batch[i] = down[0 + i]
    BY <1>1, <2>1, <2>2, PartIs
  <2>4. n - 0 = n /\ \A i \in 1 .. n : 0 + i = i
    BY <1>1, <1>3
  <2> QED
    BY <2>3, <2>4
<1> HIDE DEF batch
<1>5. res \in Int /\ res >= -1 /\ res <= n
  BY <1>1, <1>3
<1>6. ASSUME res = 0 PROVE l = 0 /\ (link.closed => mode.carrier # "tcp")
  <2>1. n = 0
    BY <1>1, <1>3, <1>6
  <2> QED
    BY <1>3, <1>6, <2>1
<1> HIDE DEF res
<1>7. l = 0 => down = <<>>
  BY <1>1, EmptySeq
<1> QED
  BY <1>1, <1>2, <1>3, <1>4, <1>5, <1>6, <1>7 DEF down

\* How the loop goes on: it ends, starts another round, or sleeps.
LEMMA DecideIs ==
  ASSUME NEW s \in SesType, mode \in Cases
  PROVE  /\ Decide(s) \in SesType /\ Decide(s).f = s.f /\ Decide(s).b = s.b
         /\ Decide(s).batch = s.batch /\ Decide(s).sent = s.sent /\ Decide(s).order = s.order
         /\ \/ Decide(s).pc \in {"destruct", "f"} /\ Decide(s).task = s.task
            \/ /\ Decide(s).pc = "f" /\ Decide(s).task = "WAITING"
               /\ link.closed => mode.carrier = "tcp"
               /\ s.b <= 0
<1>0. mode.carrier \in {"tcp", "udp"}
  BY CaseFacts
<1> DEFINE Goes(d) == /\ d \in SesType /\ d.f = s.f /\ d.b = s.b
                      /\ d.batch = s.batch /\ d.sent = s.sent /\ d.order = s.order
<1>1. /\ Goes([s EXCEPT !.pc = "destruct"]) /\ [s EXCEPT !.pc = "destruct"].task = s.task
      /\ [s EXCEPT !.pc = "destruct"].pc = "destruct"
  BY DEF SesType, Pcs
<1>2. /\ Goes([s EXCEPT !.pc = "f"]) /\ [s EXCEPT !.pc = "f"].task = s.task
      /\ [s EXCEPT !.pc = "f"].pc = "f"
  BY DEF SesType, Pcs
<1>3. /\ Goes([s EXCEPT !.pc = "f", !.task = "WAITING"])
      /\ [s EXCEPT !.pc = "f", !.task = "WAITING"].task = "WAITING"
      /\ [s EXCEPT !.pc = "f", !.task = "WAITING"].pc = "f"
  BY DEF SesType, Pcs
<1>4. s.f \in -1 .. 1 /\ s.b \in -1 .. 1
  BY DEF SesType
<1> HIDE DEF Goes
<1>5. \/ Decide(s) = [s EXCEPT !.pc = "destruct"]
      \/ Decide(s) = [s EXCEPT !.pc = "f"]
      \/ /\ Decide(s) = [s EXCEPT !.pc = "f", !.task = "WAITING"]
         /\ ~(mode.carrier = "udp" /\ link.closed) /\ ~(s.f > 0 \/ s.b > 0)
  BY DEF Decide
<1>6. CASE Decide(s) = [s EXCEPT !.pc = "destruct"]
  BY <1>1, <1>6 DEF Goes
<1>7. CASE Decide(s) = [s EXCEPT !.pc = "f"]
  BY <1>2, <1>7 DEF Goes
<1>8. CASE /\ Decide(s) = [s EXCEPT !.pc = "f", !.task = "WAITING"]
           /\ ~(mode.carrier = "udp" /\ link.closed) /\ ~(s.f > 0 \/ s.b > 0)
  <2>1. (link.closed => mode.carrier = "tcp") /\ s.b <= 0
    BY <1>0, <1>4, <1>8
  <2> QED
    BY <1>3, <1>8, <2>1 DEF Goes
<1> QED
  BY <1>5, <1>6, <1>7, <1>8

\* What fwd_b does.
LEMMA FwdBGives ==
  ASSUME Base, FwdB
  PROVE  /\ UNCHANGED <<mapVars, mode, frames, names, next, last, proxy>>
         /\ ses.pc = "b" /\ ses.task = "RUNNING"
         /\ \E n \in 0 .. Len(link.down), b \in -1 .. 1 : \E k \in 0 .. n :
              /\ link' = link \/ link' = [link EXCEPT !.down = Drop(@, n)]
              /\ \/ app' = app
                 \/ app' = [app EXCEPT !.got = @ \cup
                              {[id |-> link.down[i].id, ip |-> Source(link.down[i]).ip,
                                port |-> Source(link.down[i]).port] :
                               i \in {j \in 1 .. k : Source(link.down[j]) # Empty}}]
              /\ ses' = Decide([ses EXCEPT !.b = b])
              /\ b = 0 => link'.down = <<>> /\ (link.closed => mode.carrier # "tcp")
<1>1. /\ UNCHANGED <<mapVars, mode, frames, names, next, last, proxy>>
      /\ ses.pc = "b" /\ ses.task = "RUNNING"
  BY DEF FwdB, At
<1> DEFINE batch == recvmmsg.batch
           res == recvmmsg.res
           n == Len(batch)
<1>2. /\ batch \in Seq(Reply) /\ n \in 0 .. Len(link.down)
      /\ \A i \in 1 .. n : batch[i] = link.down[i]
      /\ res \in Int /\ res >= -1 /\ res <= n
      /\ res = 0 => link.down = <<>> /\ (link.closed => mode.carrier # "tcp")
  BY RecvIs
<1>3. Len(link.down) \in Nat /\ link.down \in Seq(Reply) /\ ses.b \in -1 .. 1 /\ link \in LinkType
  BY LenIs DEF Base, Types, LinkType, SesType
<1> DEFINE B(k) == CASE ses.b < 0 -> -1
                     [] ses.b >= 0 /\ res <= 0 -> res
                     [] OTHER -> IF k = res THEN 1 ELSE -1
           Sent(k) == {i \in 1 .. k : Source(batch[i]) # Empty}
<1>4. PICK k \in CASE res <= 0 -> {0} [] res > 0 -> IF May("tun") THEN 0 .. res ELSE {res} :
        /\ link' = IF ses.b < 0 THEN link ELSE [link EXCEPT !.down = Drop(@, Len(batch))]
        /\ app' = IF ses.b < 0 THEN app
                  ELSE [app EXCEPT !.got = @ \cup {[id |-> batch[i].id,
                                                   ip |-> Source(batch[i]).ip,
                                                   port |-> Source(batch[i]).port] :
                                                  i \in Sent(k)}]
        /\ ses' = Decide([ses EXCEPT !.b = B(k)])
  BY DEF FwdB
<1> HIDE DEF batch, res
<1>5. k \in 0 .. n
  <2>1. n \in Nat
    BY <1>2, <1>3
  <2>2. CASE res <= 0
    BY <1>2, <2>1, <2>2
  <2>3. CASE res > 0
    BY <1>2, <2>1, <2>3
  <2> QED
    BY <1>2, <2>2, <2>3
<1>6. B(k) \in -1 .. 1 /\ (B(k) = 0 => ses.b >= 0 /\ res = 0)
  BY <1>2, <1>3
<1>7. {[id |-> batch[i].id, ip |-> Source(batch[i]).ip, port |-> Source(batch[i]).port] :
         i \in Sent(k)}
      = {[id |-> link.down[i].id, ip |-> Source(link.down[i]).ip,
          port |-> Source(link.down[i]).port] :
         i \in {j \in 1 .. k : Source(link.down[j]) # Empty}}
  <2>1. \A i \in 1 .. k : batch[i] = link.down[i]
    BY <1>2, <1>3, <1>5
  <2>2. Sent(k) = {j \in 1 .. k : Source(link.down[j]) # Empty}
    BY <2>1
  <2>3. \A i \in Sent(k) : batch[i] = link.down[i]
    BY <2>1
  <2> HIDE DEF Sent
  <2> QED
    BY <2>2, <2>3
<1>8. ASSUME B(k) = 0 PROVE link'.down = <<>> /\ (link.closed => mode.carrier # "tcp")
  <2>1. ses.b >= 0 /\ res = 0
    BY <1>6, <1>8
  <2>2. link.down = <<>> /\ (link.closed => mode.carrier # "tcp")
    BY <1>2, <2>1
  <2>3. link' = [link EXCEPT !.down = Drop(@, n)]
    BY <1>3, <1>4, <2>1
  <2>4. link'.down = Drop(link.down, n)
    BY <1>3, <2>3 DEF LinkType
  <2>5. Len(link.down) = 0 /\ n = 0
    BY <1>2, <1>3, <2>2, EmptySeq
  <2> DEFINE d == Drop(link.down, n)
  <2>6. d \in Seq(Reply) /\ Len(d) = Len(link.down) - n
    <3>1. link.down \in Seq(Reply) /\ n \in 0 .. Len(link.down) /\ d = Drop(link.down, n)
      BY <1>2, <1>3
    <3> HIDE DEF d, n
    <3> QED
      BY <3>1, DropIs
  <2> HIDE DEF d
  <2>7. d = <<>>
    BY <2>5, <2>6, EmptySeq
  <2> QED
    BY <2>2, <2>4, <2>7 DEF d
<1> HIDE DEF n, Sent
<1>9. ses' = Decide([ses EXCEPT !.b = B(k)])
  BY <1>4
<1> HIDE DEF B
<1>10. link' = link \/ link' = [link EXCEPT !.down = Drop(@, n)]
  BY <1>4 DEF n
<1>11. \/ app' = app
       \/ app' = [app EXCEPT !.got = @ \cup
                              {[id |-> link.down[i].id, ip |-> Source(link.down[i]).ip,
                                port |-> Source(link.down[i]).port] :
                               i \in {j \in 1 .. k : Source(link.down[j]) # Empty}}]
  BY <1>4, <1>7
<1> QED
  BY <1>1, <1>2, <1>5, <1>6, <1>8, <1>9, <1>10, <1>11

\* What the app has sent, as it is recorded and as the session queues it.
PeerAt(ip, port) == [name |-> NameAt(ip), ip |-> ip, port |-> port]
FrameAt(ip, port) == [id |-> Len(app.sent) + 1, name |-> NameAt(ip), ip |-> ip, port |-> port]

\* What a datagram of the app does: the pool is full, or it is queued and the task woken.
LEMMA AppSendGives ==
  ASSUME Base, NEW ip \in IPs, NEW port \in Ports, AppSend(ip, port)
  PROVE  /\ UNCHANGED <<mode, link, proxy>> /\ ses.pc # "b"
         /\ app' = [app EXCEPT !.sent = Append(@, PeerAt(ip, port))]
         /\ ses' \in SesType /\ ses'.sent = ses.sent /\ ses'.batch = ses.batch
         /\ ses'.pc \notin {"none", "b"} /\ (ses'.pc = "send" <=> ses.pc = "send")
         /\ \/ /\ UNCHANGED <<mapVars, frames, names, next, last>> /\ ses'.order = ses.order
               /\ ses' = ses \/ ses'.task = "RUNNING"
            \/ /\ Len(frames) <= Pool /\ frames' = Append(frames, FrameAt(ip, port))
               /\ ses'.task = "RUNNING"
               /\ NameAt(ip) = NoName =>
                    UNCHANGED <<names, next, last>> /\ ses'.order = ses.order
               /\ NameAt(ip) # NoName =>
                    /\ name_map_learn(NameAt(ip), ip, port) /\ last' = PeerAt(ip, port)
                    /\ ses'.order = IF SlotOf(NameAt(ip)) # {} THEN ses.order
                                    ELSE Append(ses.order, NameAt(ip))
<1> DEFINE n == NameAt(ip)
           id == Len(app.sent) + 1
           s == IF ses.pc = "none" THEN Fresh ELSE ses
<1>1. /\ UNCHANGED <<mode, link, proxy>> /\ ses.pc # "b"
      /\ app' = [app EXCEPT !.sent = Append(@, PeerAt(ip, port))]
      /\ udp_recv_handler(s, id, ip, port)
  BY DEF AppSend, PeerAt
<1>2. ses \in SesType /\ Fresh \in SesType /\ frames \in Seq(Frame) /\ Len(frames) \in Nat
  BY FreshIs, LenIs DEF Base, Types
<1>3. /\ s \in SesType /\ s.sent = ses.sent /\ s.batch = ses.batch /\ s.order = ses.order
      /\ s.pc \notin {"none", "b"} /\ (s.pc = "send" <=> ses.pc = "send")
      /\ s = ses \/ s.task = "RUNNING"
  <2>1. CASE ses.pc = "none"
    <3>1. ses = [Fresh EXCEPT !.pc = "none"]
      BY <2>1 DEF Base, Limits
    <3>2. ses.sent = Fresh.sent /\ ses.batch = Fresh.batch /\ ses.order = Fresh.order
      BY <1>2, <3>1 DEF SesType
    <3>3. Fresh.pc = "connecting" /\ Fresh.task = "RUNNING"
      BY DEF Fresh
    <3>4. s = Fresh
      BY <2>1
    <3> HIDE DEF s
    <3> QED
      BY <1>2, <2>1, <3>2, <3>3, <3>4
  <2>2. CASE ses.pc # "none"
    BY <1>1, <1>2, <2>2
  <2> QED
    BY <2>1, <2>2
<1> HIDE DEF s
<1>4. n \in Names \cup {NoName}
  BY NameAtType DEF Base
<1>5. CASE Len(frames) > Pool
  <2>1. UNCHANGED <<mapVars, frames, names, next, last>> /\ ses' = s
    BY <1>1, <1>5 DEF udp_recv_handler
  <2> QED
    BY <1>1, <1>3, <2>1
<1>6. CASE ~(Len(frames) > Pool)
  <2> DEFINE o == IF n = NoName \/ SlotOf(n) # {} THEN s.order ELSE Append(s.order, n)
             w == Wake(s)
  <2>1. /\ frames' = Append(frames, FrameAt(ip, port))
        /\ IF n = NoName THEN UNCHANGED <<names, next, last>>
           ELSE name_map_learn(n, ip, port) /\ last' = PeerAt(ip, port)
        /\ ses' = [w EXCEPT !.order = IF n = NoName \/ SlotOf(n) # {} THEN @ ELSE Append(@, n)]
    BY <1>1, <1>6 DEF udp_recv_handler, FrameAt, PeerAt
  <2>2. /\ w \in SesType /\ w.task = "RUNNING" /\ w.sent = s.sent /\ w.batch = s.batch
        /\ w.pc = s.pc /\ w.order = s.order
    BY <1>3, WakeIs
  <2> HIDE DEF w
  <2>3. o \in Seq(Names)
    <3>1. s.order \in Seq(Names)
      BY <1>3 DEF SesType
    <3> QED
      BY <1>4, <3>1, AppendProperties
  <2>4. ses' = [w EXCEPT !.order = o]
    BY <2>1, <2>2
  <2> HIDE DEF o
  <2>5. /\ ses' \in SesType /\ ses'.task = w.task /\ ses'.sent = w.sent /\ ses'.batch = w.batch
        /\ ses'.pc = w.pc /\ ses'.order = o
    BY <2>2, <2>3, <2>4 DEF SesType
  <2>6. Len(frames) <= Pool
    BY <1>2, <1>6, UdpFacts
  <2>7. n = NoName => UNCHANGED <<names, next, last>> /\ ses'.order = ses.order
    BY <1>3, <2>1, <2>5 DEF o
  <2>8. n # NoName => /\ name_map_learn(n, ip, port) /\ last' = PeerAt(ip, port)
                      /\ ses'.order = IF SlotOf(n) # {} THEN ses.order ELSE Append(ses.order, n)
    BY <1>3, <2>1, <2>5 DEF o
  <2>9. /\ ses' \in SesType /\ ses'.sent = ses.sent /\ ses'.batch = ses.batch
        /\ ses'.pc \notin {"none", "b"} /\ (ses'.pc = "send" <=> ses.pc = "send")
        /\ ses'.task = "RUNNING"
    BY <1>3, <2>2, <2>5
  <2> QED
    BY <1>1, <2>1, <2>6, <2>7, <2>8, <2>9
<1> QED
  BY <1>5, <1>6

\* A session that only moves or wakes keeps its batch.
LEMMA MoveFits ==
  ASSUME Base, ses' \in SesType, ses'.sent = ses.sent, ses'.batch = ses.batch,
         ses.pc = "none" => ses' = ses, ses'.pc = "none" => ses.pc = "none",
         ses.pc = "send" <=> ses'.pc = "send",
         UNCHANGED <<mode, frames, names, next, last, proxy, app>>,
         link' \in LinkType, link'.up = link.up, link'.down = link.down
  PROVE  Types' /\ Limits'
<1>1. Types'
  BY DEF Base, Types
<1>2. Limits'
  <2>1. Limits
    BY DEF Base
  <2> QED
    BY <2>1 DEF Limits
<1> QED
  BY <1>1, <1>2

\* Datagrams of the app.
LEMMA SendFits ==
  ASSUME Base, NEW ip \in IPs, NEW port \in Ports, AppSend(ip, port)
  PROVE  Types' /\ Limits'
<1> DEFINE n == NameAt(ip)
           peer == PeerAt(ip, port)
           frame == FrameAt(ip, port)
<1>1. /\ UNCHANGED <<mode, link, proxy>>
      /\ app' = [app EXCEPT !.sent = Append(@, peer)]
      /\ ses' \in SesType /\ ses'.sent = ses.sent /\ ses'.batch = ses.batch
      /\ ses'.pc \notin {"none", "b"} /\ (ses'.pc = "send" <=> ses.pc = "send")
  BY AppSendGives
<1>2. Types /\ Limits /\ app \in AppType /\ app.sent \in Seq(Peer) /\ Len(app.sent) \in Nat
      /\ frames \in Seq(Frame) /\ Len(frames) \in Nat
  BY LenIs DEF Base, Types, AppType
<1>3. n \in Names \cup {NoName}
  BY NameAtType DEF Base
<1>4. peer \in Peer /\ frame \in Frame
  BY <1>2, <1>3 DEF Peer, Frame, PeerAt, FrameAt
<1>5. app' \in AppType
  <2>1. Append(app.sent, peer) \in Seq(Peer)
    BY <1>2, <1>4, AppendProperties
  <2> HIDE DEF peer
  <2> QED
    BY <1>1, <1>2, <2>1 DEF AppType
<1> HIDE DEF peer, frame
<1>6. CASE UNCHANGED <<mapVars, frames, names, next, last>>
  BY <1>1, <1>2, <1>5, <1>6 DEF Types, Limits
<1>7. CASE ~UNCHANGED <<mapVars, frames, names, next, last>>
  <2>1. /\ Len(frames) <= Pool /\ frames' = Append(frames, frame)
        /\ n = NoName => UNCHANGED <<names, next, last>>
        /\ n # NoName => name_map_learn(n, ip, port) /\ last' = peer
    BY <1>7, AppSendGives DEF frame, peer
  <2>2. frames' \in Seq(Frame) /\ Len(frames') = Len(frames) + 1
    BY <1>2, <1>4, <2>1, AppendProperties
  <2>3. names' \in [0 .. Slots - 1 -> Known] /\ next' \in 0 .. Slots - 1 /\ last' \in Known
    <3>0. names \in [0 .. Slots - 1 -> Known] /\ next \in 0 .. Slots - 1 /\ last \in Known
      BY <1>2 DEF Types
    <3>1. CASE n = NoName
      BY <2>1, <3>0, <3>1
    <3>2. CASE n # NoName
      <4>1. peer \in Known
        BY <1>4 DEF Known
      <4>2. name_map_learn(n, ip, port) /\ last' = peer
        BY <2>1, <3>2
      <4>3. CASE SlotOf(n) # {}
        <5>1. names' = [i \in DOMAIN names |-> IF i \in SlotOf(n) THEN peer ELSE names[i]] /\ next' = next
          BY <4>2, <4>3 DEF name_map_learn, peer, PeerAt
        <5> QED
          BY <3>0, <4>1, <4>2, <5>1
      <4>4. CASE SlotOf(n) = {}
        <5>1. names' = [names EXCEPT ![next] = peer] /\ next' = (next + 1) % Slots
          BY <4>2, <4>4 DEF name_map_learn, peer, PeerAt
        <5>2. next' \in 0 .. Slots - 1
          BY <3>0, <5>1, RoundIs, UdpFacts
        <5> QED
          BY <3>0, <4>1, <4>2, <5>1, <5>2
      <4> QED
        BY <4>3, <4>4
    <3> QED
      BY <3>1, <3>2
  <2>4. Types'
    BY <1>1, <1>2, <1>5, <2>2, <2>3 DEF Types
  <2>5. Limits'
    <3>1. ses.batch \in Nat /\ Pool \in Nat
      BY <1>2, UdpFacts DEF Types, SesType
    <3>2. ses'.batch <= Len(frames') /\ Len(frames') <= Pool + 1
      BY <1>1, <1>2, <2>1, <2>2, <3>1, SMTT(60) DEF Limits
    <3> QED
      BY <1>1, <1>2, <3>2 DEF Limits
  <2> QED
    BY <2>4, <2>5
<1> QED
  BY <1>6, <1>7

\* A send, whole or in part.
LEMMA BatchFits ==
  ASSUME Base, Send, ses.pc \in {"f", "send"},
         UNCHANGED <<mode, names, next, last, proxy, app>>
  PROVE  Types' /\ Limits'
<1>1. PICK batch \in Nat, done \in Nat, gone \in Nat :
           /\ ses.sent <= done /\ done <= batch /\ batch <= Len(frames) /\ batch <= Num
           /\ link' = [link EXCEPT !.up = @ \o SubSeq(frames, ses.sent + 1, done),
                                   !.nospace = done < batch]
           /\ Len(link.up) + (done - ses.sent) <= LinkCap
           /\ frames' = Drop(frames, gone)
           /\ \/ /\ done < batch /\ gone = 0
                 /\ ses' = [ses EXCEPT !.pc = "send", !.batch = batch, !.sent = done,
                                       !.task = "WAITING"]
              \/ /\ gone \in done .. batch
                 /\ ses' = [ses EXCEPT !.pc = "b", !.batch = 0, !.sent = 0, !.expired = FALSE,
                                       !.f = IF gone > 0 THEN 1 ELSE -1]
  BY SendGives DEF Base, Types
<1>2. /\ ses \in SesType /\ frames \in Seq(Frame) /\ Len(frames) \in Nat /\ link \in LinkType
      /\ link.up \in Seq(Frame) /\ Len(link.up) \in Nat /\ ses.sent \in Nat
      /\ Types /\ Limits /\ Num \in Nat /\ Pool \in Nat /\ LinkCap \in Nat
  BY LenIs, UdpFacts DEF Base, Types, LinkType, SesType
<1> DEFINE part == SubSeq(frames, ses.sent + 1, done)
           up == link.up \o part
<1>3. part \in Seq(Frame) /\ Len(part) = done - ses.sent
  <2>1. ses.sent \in 0 .. Len(frames) /\ done \in ses.sent .. Len(frames)
    BY <1>1, <1>2
  <2> QED
    BY <1>2, <2>1, PartIs
<1> HIDE DEF part
<1>4. up \in Seq(Frame) /\ Len(up) = Len(link.up) + Len(part)
  <2>1. up = link.up \o part
    OBVIOUS
  <2>2. link.up \in Seq(Frame) /\ part \in Seq(Frame)
    BY <1>2, <1>3
  <2> HIDE DEF up
  <2> QED
    BY <2>1, <2>2, JoinIs
<1>5. link' = [link EXCEPT !.up = up, !.nospace = done < batch]
  BY <1>1 DEF part
<1> HIDE DEF up
<1>6. link' \in LinkType /\ link'.up = up /\ link'.down = link.down
  <2> DEFINE x == done < batch
  <2>1. x \in BOOLEAN /\ link' = [link EXCEPT !.up = up, !.nospace = x]
    BY <1>5
  <2> HIDE DEF x
  <2> QED
    BY <1>2, <1>4, <2>1 DEF LinkType
<1>7. gone \in 0 .. Len(frames)
  BY <1>1, <1>2
<1> DEFINE fs == Drop(frames, gone)
<1>8. fs \in Seq(Frame) /\ Len(fs) = Len(frames) - gone
  <2>1. fs = Drop(frames, gone)
    OBVIOUS
  <2> HIDE DEF fs
  <2> QED
    BY <1>2, <1>7, <2>1, DropIs
<1>9. frames' = fs
  BY <1>1
<1> HIDE DEF fs
<1>10. Len(link'.up) <= LinkCap /\ Len(link'.down) <= LinkCap /\ Len(frames') <= Pool + 1
  <2>1. Len(link'.up) = Len(link.up) + (done - ses.sent)
    BY <1>3, <1>4, <1>6
  <2>2. Len(link.down) <= LinkCap /\ Len(frames) <= Pool + 1
    BY <1>2 DEF Limits
  <2>3. Len(frames') <= Len(frames)
    BY <1>2, <1>7, <1>8, <1>9
  <2>4. Len(frames') \in Nat
    BY <1>8, <1>9, LenIs
  <2> QED
    BY <1>1, <1>2, <1>6, <2>1, <2>2, <2>3, <2>4, SMTT(60)
<1>11. CASE gone = 0 /\ ses' = [ses EXCEPT !.pc = "send", !.batch = batch, !.sent = done, !.task = "WAITING"]
  <2>1. ses' \in SesType /\ ses'.pc = "send" /\ ses'.batch = batch /\ ses'.sent = done
    BY <1>2, <1>11 DEF SesType, Pcs
  <2>2. Types'
    BY <1>2, <1>6, <1>8, <1>9, <2>1 DEF Types
  <2>3. ses'.batch <= Len(frames')
    BY <1>1, <1>2, <1>8, <1>9, <1>11, <2>1
  <2> QED
    BY <1>1, <1>10, <2>1, <2>2, <2>3 DEF Limits
<1>12. CASE ses' = [ses EXCEPT !.pc = "b", !.batch = 0, !.sent = 0, !.expired = FALSE,
                               !.f = IF gone > 0 THEN 1 ELSE -1]
  <2> DEFINE r == IF gone > 0 THEN 1 ELSE -1
  <2>1. r \in -1 .. 1
    OBVIOUS
  <2>2. ses' = [ses EXCEPT !.pc = "b", !.batch = 0, !.sent = 0, !.expired = FALSE, !.f = r]
    BY <1>12
  <2> HIDE DEF r
  <2>3. ses' \in SesType /\ ses'.pc = "b" /\ ses'.batch = 0 /\ ses'.sent = 0
    BY <1>2, <2>1, <2>2 DEF SesType, Pcs
  <2>4. Types'
    BY <1>2, <1>6, <1>8, <1>9, <2>3 DEF Types
  <2>5. Len(frames') \in Nat
    BY <1>8, <1>9, LenIs
  <2> QED
    BY <1>2, <1>10, <2>3, <2>4, <2>5 DEF Limits
<1> QED
  BY <1>1, <1>11, <1>12

\* The session's task, the event loop, the timers and the terminations.
LEMMA TaskFits ==
  ASSUME Base, TaskStep \/ IoPoll \/ Expire \/ Terminate
  PROVE  Types' /\ Limits'
<1>1. ses \in SesType /\ link \in LinkType /\ Types /\ Limits
  BY DEF Base, Types
<1>2. ses.pc = "none" => ses.task = "RUNNING"
  <2> SUFFICES ASSUME ses = [Fresh EXCEPT !.pc = "none"] PROVE ses.task = "RUNNING"
    BY <1>1 DEF Limits
  <2>1. Fresh.task = "RUNNING"
    BY DEF Fresh
  <2> QED
    BY <2>1, FreshIs DEF SesType
<1>3. ASSUME Handshake PROVE Types' /\ Limits'
  <2>1. PICK pc \in {"f", "destruct"} : ses' = [ses EXCEPT !.pc = pc, !.timeout = 1]
    BY <1>3 DEF Handshake
  <2>2. ses.pc = "connecting" /\ UNCHANGED <<mode, frames, names, next, last, link, proxy, app>>
    BY <1>3 DEF Handshake, At
  <2>3. ses' \in SesType /\ ses'.pc = pc /\ ses'.sent = ses.sent /\ ses'.batch = ses.batch
    BY <1>1, <2>1 DEF SesType, Pcs
  <2> QED
    BY <1>1, <2>2, <2>3, MoveFits
<1>4. ASSUME FwdF PROVE Types' /\ Limits'
  <2>1. /\ UNCHANGED <<mode, names, next, last, proxy, app>> /\ ses.pc \in {"f", "send"}
    BY <1>4, FwdFGives
  <2>2. CASE ses.pc = "f" /\ ses' = [ses EXCEPT !.pc = "destruct"] /\ UNCHANGED <<frames, link>>
    <3>1. ses' \in SesType /\ ses'.pc = "destruct" /\ ses'.sent = ses.sent /\ ses'.batch = ses.batch
      BY <1>1, <2>2 DEF SesType, Pcs
    <3> QED
      BY <1>1, <2>1, <2>2, <3>1, MoveFits
  <2>3. CASE Send
    BY <2>1, <2>3, BatchFits
  <2>4. CASE /\ ses.pc = "f" /\ UNCHANGED <<frames, link>>
             /\ ses' = [ses EXCEPT !.pc = "b", !.f = IF @ < 0 THEN @ ELSE 0]
    <3>1. ses' \in SesType /\ ses'.pc = "b" /\ ses'.sent = ses.sent /\ ses'.batch = ses.batch
      <4> DEFINE r == IF ses.f < 0 THEN ses.f ELSE 0
      <4>1. r \in -1 .. 1
        BY <1>1 DEF SesType
      <4>2. ses' = [ses EXCEPT !.pc = "b", !.f = r]
        BY <2>4
      <4> HIDE DEF r
      <4> QED
        BY <1>1, <4>1, <4>2 DEF SesType, Pcs
    <3> QED
      BY <1>1, <2>1, <2>4, <3>1, MoveFits
  <2> QED
    BY <1>4, <2>2, <2>3, <2>4, FwdFGives
<1>5. ASSUME FwdB PROVE Types' /\ Limits'
  <2>1. UNCHANGED <<mapVars, mode, frames, names, next, last, proxy>> /\ ses.pc = "b" /\ ses.task = "RUNNING"
    BY <1>5, FwdBGives
  <2>8. PICK n \in 0 .. Len(link.down), b \in -1 .. 1 : \E k \in 0 .. n :
              /\ link' = link \/ link' = [link EXCEPT !.down = Drop(@, n)]
              /\ \/ app' = app
                 \/ app' = [app EXCEPT !.got = @ \cup
                              {[id |-> link.down[i].id, ip |-> Source(link.down[i]).ip,
                                port |-> Source(link.down[i]).port] :
                               i \in {j \in 1 .. k : Source(link.down[j]) # Empty}}]
              /\ ses' = Decide([ses EXCEPT !.b = b])
    BY <1>5, FwdBGives
  <2>2. PICK k \in 0 .. n :
              /\ link' = link \/ link' = [link EXCEPT !.down = Drop(@, n)]
              /\ \/ app' = app
                 \/ app' = [app EXCEPT !.got = @ \cup
                              {[id |-> link.down[i].id, ip |-> Source(link.down[i]).ip,
                                port |-> Source(link.down[i]).port] :
                               i \in {j \in 1 .. k : Source(link.down[j]) # Empty}}]
              /\ ses' = Decide([ses EXCEPT !.b = b])
    BY <2>8
  <2>3. link.down \in Seq(Reply) /\ Len(link.down) \in Nat /\ \A i \in 1 .. Len(link.down) : link.down[i] \in Reply
    BY <1>1, LenIs DEF LinkType
  <2>4. link' \in LinkType /\ link'.up = link.up /\ Len(link'.down) <= LinkCap
    <3> DEFINE d == Drop(link.down, n)
    <3>1. d \in Seq(Reply) /\ Len(d) = Len(link.down) - n
      <4>1. d = Drop(link.down, n)
        OBVIOUS
      <4> HIDE DEF d
      <4> QED
        BY <2>3, <4>1, DropIs
    <3> HIDE DEF d
    <3>2. Len(link.down) <= LinkCap /\ LinkCap \in Nat
      BY <1>1, UdpFacts DEF Limits
    <3>3. CASE link' = link
      BY <1>1, <3>2, <3>3
    <3>4. CASE link' = [link EXCEPT !.down = d]
      <4>1. link' \in LinkType /\ link'.up = link.up /\ link'.down = d
        BY <1>1, <3>1, <3>4 DEF LinkType
      <4> QED
        BY <2>3, <3>1, <3>2, <4>1
    <3> QED
      BY <2>2, <3>3, <3>4 DEF d
  <2>5. app' \in AppType
    <3> DEFINE new == {[id |-> link.down[i].id, ip |-> Source(link.down[i]).ip,
                        port |-> Source(link.down[i]).port] :
                       i \in {j \in 1 .. k : Source(link.down[j]) # Empty}}
    <3>1. new \subseteq [id : Nat, ip : IPs, port : Ports]
      <4> SUFFICES ASSUME NEW i \in 1 .. k, Source(link.down[i]) # Empty
                   PROVE  /\ link.down[i].id \in Nat /\ Source(link.down[i]).ip \in IPs
                          /\ Source(link.down[i]).port \in Ports
        OBVIOUS
      <4>1. link.down[i] \in Reply
        BY <2>3
      <4>2. Source(link.down[i]) \in Peer
        BY <1>1, <4>1, SourceType DEF Known
      <4> QED
        BY <4>1, <4>2 DEF Reply, Peer
    <3> HIDE DEF new
    <3>2. app \in AppType
      BY <1>1 DEF Types
    <3>3. app' = app \/ app' = [app EXCEPT !.got = @ \cup new]
      BY <2>2 DEF new
    <3> QED
      BY <3>1, <3>2, <3>3 DEF AppType
  <2>6. /\ ses' \in SesType /\ ses'.batch = ses.batch /\ ses'.sent = ses.sent
        /\ ses'.pc \in {"destruct", "f"}
    <3> DEFINE s == [ses EXCEPT !.b = b]
    <3>1. s \in SesType /\ s.batch = ses.batch /\ s.sent = ses.sent
      BY <1>1, <2>2 DEF SesType
    <3> HIDE DEF s
    <3>2. ses' = Decide(s) /\ mode \in Cases
      BY <1>1, <2>2 DEF s, Types
    <3> QED
      BY <3>1, <3>2, DecideIs
  <2>7. Types'
    BY <1>1, <2>1, <2>4, <2>5, <2>6 DEF Types
  <2> QED
    BY <1>1, <2>1, <2>4, <2>6, <2>7 DEF Limits
<1>6. ASSUME Destruct PROVE Types' /\ Limits'
  <2>1. /\ ses' = [Fresh EXCEPT !.pc = "none"]
        /\ frames' = <<>> /\ names' = NoNames /\ next' = 0 /\ last' = Empty
        /\ link' = NoLink /\ mode' = mode /\ app' = app
    BY <1>6 DEF Destruct
  <2>2. PICK late \in {<<>>, link.up} : proxy' = [got |-> proxy.got \o late, pending |-> {}]
    BY <1>6 DEF Destruct
  <2>3. proxy' \in [got : Seq(Frame), pending : SUBSET Frame]
    <3>1. proxy.got \in Seq(Frame) /\ link.up \in Seq(Frame) /\ <<>> \in Seq(Frame)
      BY <1>1, EmptySeq DEF Types, LinkType
    <3>2. late \in Seq(Frame)
      BY <2>2, <3>1
    <3>3. proxy.got \o late \in Seq(Frame)
      BY <3>1, <3>2, JoinIs
    <3> QED
      BY <2>2, <3>3
  <2>4. next' \in 0 .. Slots - 1
    BY <2>1, UdpFacts
  <2>5. frames' \in Seq(Frame) /\ Len(frames') = 0
    BY <2>1, EmptySeq
  <2>6. Types'
    BY <1>1, <2>1, <2>3, <2>4, <2>5, FreshIs DEF Types
  <2>7. ses'.sent = 0 /\ ses'.batch = 0
    BY <2>1 DEF Fresh
  <2>8. Num \in Nat /\ Pool \in Nat /\ LinkCap \in Nat
    BY UdpFacts
  <2>9. Len(link'.up) = 0 /\ Len(link'.down) = 0
    BY <2>1, FreshIs
  <2> QED
    BY <2>1, <2>5, <2>6, <2>7, <2>8, <2>9 DEF Limits
<1> DEFINE w == Wake(ses)
<1>7. w \in SesType /\ w.pc = ses.pc /\ w.sent = ses.sent /\ w.batch = ses.batch
  BY <1>1, WakeIs
<1>8. ses.pc = "none" => w = ses
  BY <1>2 DEF Wake
<1>9. ASSUME IoPoll PROVE Types' /\ Limits'
  <2>1. link' = [link EXCEPT !.edge = FALSE] /\ ses' = w
        /\ UNCHANGED <<mode, frames, names, next, last, proxy, app>>
    BY <1>9 DEF IoPoll
  <2>2. link' \in LinkType /\ link'.up = link.up /\ link'.down = link.down
    BY <1>1, <2>1 DEF LinkType
  <2> HIDE DEF w
  <2> QED
    BY <1>7, <1>8, <2>1, <2>2, MoveFits
<1>10. ASSUME Expire PROVE Types' /\ Limits'
  <2>1. ses' = [w EXCEPT !.expired = TRUE] /\ ses.task = "WAITING"
        /\ UNCHANGED <<mode, frames, names, next, last, link, proxy, app>>
    BY <1>10 DEF Expire
  <2> HIDE DEF w
  <2>2. ses' \in SesType /\ ses'.pc = w.pc /\ ses'.sent = w.sent /\ ses'.batch = w.batch
    BY <1>7, <2>1 DEF SesType
  <2> QED
    BY <1>1, <1>2, <1>7, <2>1, <2>2, MoveFits
<1>11. ASSUME Terminate PROVE Types' /\ Limits'
  <2>1. ses' = [w EXCEPT !.timeout = 0] /\ ses.pc # "none"
        /\ UNCHANGED <<mode, frames, names, next, last, link, proxy, app>>
    BY <1>11 DEF Terminate
  <2> HIDE DEF w
  <2>2. ses' \in SesType /\ ses'.pc = w.pc /\ ses'.sent = w.sent /\ ses'.batch = w.batch
    BY <1>7, <2>1 DEF SesType
  <2> QED
    BY <1>1, <1>7, <2>1, <2>2, MoveFits
<1> QED
  BY <1>3, <1>4, <1>5, <1>6, <1>9, <1>10, <1>11 DEF TaskStep

\* The proxy and its connections.
LEMMA ProxyFits ==
  ASSUME Base, ProxyRead \/ ProxyReply \/ ProxyClose
  PROVE  Types' /\ Limits'
<1>1. /\ Types /\ Limits /\ link \in LinkType /\ proxy \in [got : Seq(Frame), pending : SUBSET Frame]
      /\ link.up \in Seq(Frame) /\ link.down \in Seq(Reply) /\ Len(link.down) \in Nat
      /\ LinkCap \in Nat \ {0}
  BY LenIs, UdpFacts DEF Base, Types, LinkType
<1>2. ASSUME ProxyRead PROVE Types' /\ Limits'
  <2>1. /\ proxy' = [proxy EXCEPT !.got = @ \o link.up, !.pending = @ \cup Messages(link.up)]
        /\ link' = [link EXCEPT !.up = <<>>, !.edge = @ \/ link.nospace, !.nospace = FALSE]
        /\ UNCHANGED <<mode, sesVars, app>>
    BY <1>2 DEF ProxyRead
  <2> DEFINE g == proxy.got \o link.up
             m == Messages(link.up)
             e == <<>>
             x == link.edge \/ link.nospace
  <2>2. g \in Seq(Frame) /\ m \subseteq Frame
    <3>1. g \in Seq(Frame)
      BY <1>1, JoinIs
    <3>2. \A i \in DOMAIN link.up : link.up[i] \in Frame
      BY <1>1, LenIs
    <3> QED
      BY <3>1, <3>2 DEF Messages
  <2>3. e \in Seq(Frame) /\ Len(e) = 0 /\ x \in BOOLEAN
    BY <1>1, EmptySeq DEF LinkType
  <2>4. proxy' = [proxy EXCEPT !.got = g, !.pending = @ \cup m]
        /\ link' = [link EXCEPT !.up = e, !.edge = x, !.nospace = FALSE]
    BY <2>1
  <2> HIDE DEF g, m, e, x
  <2>5. proxy' \in [got : Seq(Frame), pending : SUBSET Frame]
    BY <1>1, <2>2, <2>4
  <2>6. link' \in LinkType /\ link'.up = e /\ link'.down = link.down
    BY <1>1, <2>3, <2>4 DEF LinkType
  <2> QED
    BY <1>1, <2>1, <2>3, <2>5, <2>6 DEF Types, Limits, sesVars
<1>3. ASSUME ProxyReply PROVE Types' /\ Limits'
  <2>1. PICK m \in proxy.pending, bad \in BOOLEAN :
           LET named == mode.echo \/ m.name = NoName
               reply == [id |-> m.id, port |-> m.port, bad |-> bad,
                         name |-> IF named THEN m.name ELSE NoName,
                         ip |-> IF named THEN m.ip ELSE RealIp(m.name)]
           IN /\ link' = [link EXCEPT !.down = Append(@, reply), !.edge = TRUE]
              /\ proxy' = [proxy EXCEPT !.pending = @ \ {m}]
    BY <1>3 DEF ProxyReply
  <2> DEFINE named == mode.echo \/ m.name = NoName
             reply == [id |-> m.id, port |-> m.port, bad |-> bad,
                       name |-> IF named THEN m.name ELSE NoName,
                       ip |-> IF named THEN m.ip ELSE RealIp(m.name)]
  <2>2. m \in Frame
    BY <1>1
  <2>3. RealIp(m.name) \in IPs
    BY UdpFacts DEF RealIp, IPs
  <2>4. reply \in Reply
    BY <2>2, <2>3 DEF Reply, Frame
  <2>5. link' = [link EXCEPT !.down = Append(@, reply), !.edge = TRUE]
        /\ proxy' = [proxy EXCEPT !.pending = @ \ {m}]
    BY <2>1
  <2> HIDE DEF reply
  <2> DEFINE d == Append(link.down, reply)
  <2>6. d \in Seq(Reply) /\ Len(d) = Len(link.down) + 1
    BY <1>1, <2>4, AppendProperties
  <2>7. link' = [link EXCEPT !.down = d, !.edge = TRUE]
    BY <2>5
  <2> HIDE DEF d
  <2>8. link' \in LinkType /\ link'.up = link.up /\ link'.down = d
    BY <1>1, <2>6, <2>7 DEF LinkType
  <2>9. proxy' \in [got : Seq(Frame), pending : SUBSET Frame]
    BY <1>1, <2>5
  <2>10. UNCHANGED <<mode, sesVars, app>> /\ Len(link.down) < LinkCap
    BY <1>3 DEF ProxyReply
  <2>11. Len(link'.down) <= LinkCap
    BY <1>1, <2>6, <2>8, <2>10
  <2> QED
    BY <1>1, <2>8, <2>9, <2>10, <2>11 DEF Types, Limits, sesVars
<1>4. ASSUME ProxyClose PROVE Types' /\ Limits'
  <2>1. link' = [link EXCEPT !.closed = TRUE, !.edge = TRUE] /\ UNCHANGED <<mode, sesVars, proxy, app>>
    BY <1>4 DEF ProxyClose
  <2>2. link' \in LinkType /\ link'.up = link.up /\ link'.down = link.down
    BY <1>1, <2>1 DEF LinkType
  <2> QED
    BY <1>1, <2>1, <2>2 DEF Types, Limits, sesVars
<1> QED
  BY <1>2, <1>3, <1>4

\* Apps that resolve names.
LEMMA AskFits ==
  ASSUME Base, AppAsk \/ OtherApps \/ UNCHANGED vars
  PROVE  Types' /\ Limits'
<1>1. Types /\ Limits
  BY DEF Base
<1>2. CASE UNCHANGED udpVars
  BY <1>1, <1>2 DEF Types, Limits, udpVars, sesVars
<1>3. ASSUME AppAsk PROVE Types' /\ Limits'
  <2>1. app' = [app EXCEPT !.asked = @ + 1] /\ UNCHANGED <<mode, sesVars, link, proxy>>
    BY <1>3 DEF AppAsk
  <2>2. app' \in AppType
    <3> DEFINE k == app.asked + 1
    <3>1. app \in AppType /\ k \in Nat
      BY <1>1 DEF Types, AppType
    <3>2. app' = [app EXCEPT !.asked = k]
      BY <2>1
    <3> HIDE DEF k
    <3> QED
      BY <3>1, <3>2 DEF AppType
  <2> QED
    BY <1>1, <2>1, <2>2 DEF Types, Limits, sesVars
<1> QED
  BY <1>2, <1>3 DEF OtherApps, vars

\* Whatever the session does, the table takes one of its own steps or none.
LEMMA TableSteps == Types /\ [Next]_vars => [MapNext]_mapVars
<1> SUFFICES ASSUME Types, [Next]_vars PROVE [MapNext]_mapVars
  OBVIOUS
<1>1. ASSUME NEW ip \in IPs, NEW port \in Ports, AppSend(ip, port) PROVE [MapNext]_mapVars
  <2> DEFINE s == IF ses.pc = "none" THEN Fresh ELSE ses
             id == Len(app.sent) + 1
  <2>1. udp_recv_handler(s, id, ip, port)
    BY <1>1 DEF AppSend
  <2> HIDE DEF s, id
  <2>2. Lookup(ip) \/ UNCHANGED mapVars
    BY <2>1 DEF udp_recv_handler
  <2> QED
    BY <2>2 DEF MapNext
<1>2. ASSUME AppAsk PROVE [MapNext]_mapVars
  <2> DEFINE n == mode.asks[app.asked + 1]
  <2>1. app.asked < Len(mode.asks) /\ Ask(n)
    BY <1>2 DEF AppAsk
  <2>2. mode.asks \in Seq(Names) /\ app.asked \in Nat /\ Len(mode.asks) \in Nat
    BY CaseFacts, LenIs DEF Types, AppType
  <2>3. app.asked + 1 \in 1 .. Len(mode.asks)
    BY <2>1, <2>2
  <2>4. n \in Names
    BY <2>2, <2>3, LenIs
  <2> HIDE DEF n
  <2> QED
    BY <2>1, <2>4 DEF MapNext
<1> QED
  BY <1>1, <1>2
  DEF Next, vars, TaskStep, Handshake, FwdF, FwdB, Destruct, IoPoll, Expire, Terminate, OtherApps,
      ProxyRead, ProxyReply, ProxyClose

\* Types, limits and the table are kept.
LEMMA BaseStep == Base /\ [Next]_vars => Base'
<1> SUFFICES ASSUME Base, [Next]_vars PROVE Base'
  OBVIOUS
<1>1. MapInv'
  BY MapStep, TableSteps DEF Base
<1>2. Types' /\ Limits'
  BY TaskFits, ProxyFits, AskFits, SendFits DEF Next
<1> QED
  BY <1>1, <1>2 DEF Base

\* They hold at the beginning.
LEMMA BaseInit == Init => Base
<1> SUFFICES ASSUME Init PROVE Base
  OBVIOUS
<1>1. MapInv
  BY MapStart DEF Init
<1>2. /\ mode \in Cases /\ ses = [Fresh EXCEPT !.pc = "none"]
      /\ frames = <<>> /\ names = NoNames /\ next = 0 /\ last = Empty /\ link = NoLink
      /\ proxy = [got |-> <<>>, pending |-> {}]
      /\ app = [asked |-> 0, sent |-> <<>>, got |-> {}]
  BY DEF Init
<1> DEFINE e == <<>>
<1>3. e \in Seq(Frame) /\ e \in Seq(Peer) /\ Len(e) = 0
  BY EmptySeq
<1>4. frames = e /\ proxy = [got |-> e, pending |-> {}] /\ app = [asked |-> 0, sent |-> e, got |-> {}]
  BY <1>2
<1> HIDE DEF e
<1>5. proxy \in [got : Seq(Frame), pending : SUBSET Frame] /\ app \in AppType
  BY <1>3, <1>4 DEF AppType
<1>6. Slots \in Nat \ {0} /\ Num \in Nat /\ Pool \in Nat /\ LinkCap \in Nat
  BY UdpFacts
<1>7. Types
  BY <1>2, <1>3, <1>4, <1>5, <1>6, FreshIs DEF Types
<1>8. ses.sent = 0 /\ ses.batch = 0
  BY <1>2 DEF Fresh
<1>9. Len(link.up) = 0 /\ Len(link.down) = 0
  BY <1>2, FreshIs
<1>10. Limits
  BY <1>2, <1>3, <1>4, <1>6, <1>8, <1>9 DEF Limits
<1> QED
  BY <1>1, <1>7, <1>10 DEF Base

\* Hence they always hold.
LEMMA BaseInductive == Spec => []Base
BY BaseInit, BaseStep, PTL DEF Spec

(* What an app was told holds while fewer than Max other names have been   *)
(* used since (hev_mapped_dns_find, hev_mapped_dns_lookup).                *)
THEOREM AnswersAreKept == Spec => []AnswersHold
<1>1. Base => AnswersHold
  <2> SUFFICES ASSUME MapInv PROVE AnswersHold
    BY DEF Base
  <2>1. \A n \in Names : Held(n)
    BY DEF MapInv
  <2>2. ASSUME NEW n \in Names, told[n] >= 0, Cardinality(since[n]) < Max PROVE records[told[n]] = n
    <3>1. IsFiniteSet(since[n]) /\ Max \in Nat
      BY MapConstants, FS_Subset DEF MapInv, MapTypeOK
    <3>2. Cardinality(since[n]) \in Nat
      BY <3>1, FS_CardinalityType
    <3> QED
      BY <2>1, <2>2, <3>1, <3>2 DEF Held
  <2> QED
    BY <2>2 DEF AnswersHold, MapInv
<1> QED
  BY <1>1, BaseInductive, PTL

-----------------------------------------------------------------------------
(***************************************************************************)
(* No wakeup is lost.  Between fwd_f and fwd_b nothing is queued, and a    *)
(* task that sleeps has found each direction empty, full or given up; what *)
(* changes that wakes it or leaves an edge.                                *)
(***************************************************************************)
Alert ==
  /\ ses.pc = "b" /\ ses.f = 0 => frames = <<>>
  /\ ses.task = "WAITING" /\ ~link.edge =>
       /\ ses.pc = "f" => /\ ses.f = 0 => frames = <<>>
                          /\ ses.b = 0 => link.down = <<>>
                          /\ link.closed => mode.carrier = "tcp" /\ ses.b = -1
       /\ ses.pc = "send" => Len(link.up) = LinkCap /\ link.nospace

\* The task's own steps.
LEMMA TaskAlert ==
  ASSUME Base, Alert, TaskStep
  PROVE  Alert'
<1>1. ses \in SesType /\ link \in LinkType /\ mode \in Cases
  BY DEF Base, Types
<1>2. ASSUME Handshake PROVE Alert'
  <2>1. PICK pc \in {"f", "destruct"} : ses' = [ses EXCEPT !.pc = pc, !.timeout = 1]
    BY <1>2 DEF Handshake
  <2>2. ses.task = "RUNNING"
    BY <1>2 DEF Handshake, At
  <2>3. ses'.task = "RUNNING" /\ ses'.pc # "b"
    BY <1>1, <2>1, <2>2 DEF SesType
  <2> QED
    BY <2>3 DEF Alert
<1>3. ASSUME FwdF PROVE Alert'
  <2>1. ses.pc \in {"f", "send"} /\ ses.task = "RUNNING"
    BY <1>3, FwdFGives
  <2>2. CASE ses' = [ses EXCEPT !.pc = "destruct"]
    <3>1. ses'.task = "RUNNING" /\ ses'.pc # "b"
      BY <1>1, <2>1, <2>2 DEF SesType
    <3> QED
      BY <3>1 DEF Alert
  <2>3. CASE Send
    <3>1. PICK batch \in Nat, done \in Nat, gone \in Nat :
           /\ ses.sent <= done /\ done <= batch /\ batch <= Len(frames)
           /\ link' = [link EXCEPT !.up = @ \o SubSeq(frames, ses.sent + 1, done),
                                   !.nospace = done < batch]
           /\ \/ /\ done < batch /\ gone = 0 /\ Len(link.up) + (done - ses.sent) = LinkCap
                 /\ ses' = [ses EXCEPT !.pc = "send", !.batch = batch, !.sent = done,
                                       !.task = "WAITING"]
              \/ ses' = [ses EXCEPT !.pc = "b", !.batch = 0, !.sent = 0, !.expired = FALSE,
                                    !.f = IF gone > 0 THEN 1 ELSE -1]
      BY <1>1, <2>1, <2>3, SendGives
    <3>2. CASE ses' = [ses EXCEPT !.pc = "b", !.batch = 0, !.sent = 0, !.expired = FALSE,
                                  !.f = IF gone > 0 THEN 1 ELSE -1]
      <4>1. ses'.task = "RUNNING" /\ ses'.f # 0
        BY <1>1, <2>1, <3>2 DEF SesType
      <4> QED
        BY <4>1 DEF Alert
    <3>3. CASE /\ done < batch /\ Len(link.up) + (done - ses.sent) = LinkCap
               /\ ses' = [ses EXCEPT !.pc = "send", !.batch = batch, !.sent = done,
                                     !.task = "WAITING"]
      <4>1. ses'.pc = "send"
        BY <1>1, <3>3 DEF SesType
      <4>2. ses.sent \in Nat /\ link.up \in Seq(Frame) /\ frames \in Seq(Frame) /\ Len(frames) \in Nat
        BY LenIs DEF Base, Types, SesType, LinkType
      <4> DEFINE part == SubSeq(frames, ses.sent + 1, done)
                 up == link.up \o part
                 x == done < batch
      <4>3. part \in Seq(Frame) /\ Len(part) = done - ses.sent
        <5>1. ses.sent \in 0 .. Len(frames) /\ done \in ses.sent .. Len(frames)
          BY <3>1, <4>2
        <5>2. part = SubSeq(frames, ses.sent + 1, done)
          OBVIOUS
        <5> HIDE DEF part
        <5> QED
          BY <4>2, <5>1, <5>2, PartIs
      <4> HIDE DEF part
      <4>4. Len(up) = Len(link.up) + Len(part)
        <5>1. link.up \in Seq(Frame) /\ part \in Seq(Frame)
          BY <4>2, <4>3
        <5>2. up = link.up \o part
          OBVIOUS
        <5> HIDE DEF up
        <5> QED
          BY <5>1, <5>2, JoinIs
      <4>5. link' = [link EXCEPT !.up = up, !.nospace = x] /\ x
        BY <3>1, <3>3 DEF part
      <4> HIDE DEF up, x
      <4>6. link'.up = up /\ link'.nospace
        BY <1>1, <4>5 DEF LinkType
      <4> QED
        BY <3>3, <4>1, <4>3, <4>4, <4>6 DEF Alert
    <3> QED
      BY <3>1, <3>2, <3>3, SMTT(60)
  <2>4. CASE /\ ses.f >= 0 => frames = <<>>
             /\ ses' = [ses EXCEPT !.pc = "b", !.f = IF @ < 0 THEN @ ELSE 0]
             /\ UNCHANGED <<frames, link>>
    <3>1. ses.f \in -1 .. 1 /\ ses'.task = "RUNNING" /\ ses'.f = IF ses.f < 0 THEN ses.f ELSE 0
      BY <1>1, <2>1, <2>4 DEF SesType
    <3>2. ses'.f = 0 => frames' = <<>>
      BY <2>4, <3>1
    <3> QED
      BY <3>1, <3>2 DEF Alert
  <2> QED
    BY <1>3, <2>2, <2>3, <2>4, FwdFGives
<1>4. ASSUME FwdB PROVE Alert'
  <2>1. UNCHANGED <<mode, frames>> /\ ses.pc = "b" /\ ses.task = "RUNNING"
    BY <1>4, FwdBGives
  <2>2. PICK n \in 0 .. Len(link.down), b \in -1 .. 1 :
              /\ link' = link \/ link' = [link EXCEPT !.down = Drop(@, n)]
              /\ ses' = Decide([ses EXCEPT !.b = b])
              /\ b = 0 => link'.down = <<>> /\ (link.closed => mode.carrier # "tcp")
    BY <1>4, FwdBGives
  <2> DEFINE s == [ses EXCEPT !.b = b]
  <2>3. s \in SesType /\ s.b = b /\ s.f = ses.f /\ s.task = "RUNNING"
    BY <1>1, <2>1, <2>2 DEF SesType
  <2> HIDE DEF s
  <2>4. ses' = Decide(s)
    BY <2>2 DEF s
  <2>5. /\ ses'.f = ses.f /\ ses'.b = b /\ ses'.pc \in {"destruct", "f"}
        /\ ses'.task = "WAITING" => /\ ses'.pc = "f" /\ (link.closed => mode.carrier = "tcp")
                                    /\ b <= 0
    BY <1>1, <2>3, <2>4, DecideIs
  <2>6. link'.closed = link.closed
    <3> DEFINE d == Drop(link.down, n)
    <3>1. link' = link \/ link' = [link EXCEPT !.down = d]
      BY <2>2
    <3> HIDE DEF d
    <3> QED
      BY <1>1, <3>1 DEF LinkType
  <2>7. ASSUME ses'.task = "WAITING" PROVE link.closed => mode.carrier = "tcp" /\ b = -1
    BY <2>2, <2>5, <2>7
  <2>8. ses'.f = 0 => frames' = <<>>
    BY <2>1, <2>5 DEF Alert
  <2> QED
    BY <2>1, <2>2, <2>5, <2>6, <2>7, <2>8 DEF Alert
<1>5. ASSUME Destruct PROVE Alert'
  <2>1. ses' = [Fresh EXCEPT !.pc = "none"]
    BY <1>5 DEF Destruct
  <2>2. ses'.pc = "none"
    BY <2>1, FreshIs DEF SesType
  <2> QED
    BY <2>2 DEF Alert
<1> QED
  BY <1>2, <1>3, <1>4, <1>5 DEF TaskStep

\* Everything else.
LEMMA OthersAlert ==
  ASSUME Base, Alert, [Next]_vars, ~TaskStep
  PROVE  Alert'
<1>1. ses \in SesType /\ link \in LinkType /\ mode \in Cases
  BY DEF Base, Types
<1> DEFINE w == Wake(ses)
<1>2. w \in SesType /\ w.task = "RUNNING" /\ w.pc = ses.pc /\ w.f = ses.f
  BY <1>1, WakeIs
<1> HIDE DEF w
<1>3. ASSUME IoPoll PROVE Alert'
  <2>1. ses' = w /\ frames' = frames
    BY <1>3 DEF IoPoll, w
  <2> QED
    BY <1>2, <2>1 DEF Alert
<1>4. ASSUME Expire PROVE Alert'
  <2>1. ses' = [w EXCEPT !.expired = TRUE] /\ frames' = frames
    BY <1>4 DEF Expire, w
  <2>2. ses'.task = "RUNNING" /\ ses'.pc = ses.pc /\ ses'.f = ses.f
    BY <1>2, <2>1 DEF SesType
  <2> QED
    BY <2>1, <2>2 DEF Alert
<1>5. ASSUME Terminate PROVE Alert'
  <2>1. ses' = [w EXCEPT !.timeout = 0] /\ frames' = frames
    BY <1>5 DEF Terminate, w
  <2>2. ses'.task = "RUNNING" /\ ses'.pc = ses.pc /\ ses'.f = ses.f
    BY <1>2, <2>1 DEF SesType
  <2> QED
    BY <2>1, <2>2 DEF Alert
<1>6. ASSUME AppAsk \/ OtherApps \/ UNCHANGED vars PROVE Alert'
  <2>1. UNCHANGED <<mode, ses, frames, link>>
    BY <1>6 DEF AppAsk, OtherApps, vars, udpVars, sesVars
  <2> QED
    BY <2>1 DEF Alert
<1>7. ASSUME NEW ip \in IPs, NEW port \in Ports, AppSend(ip, port) PROVE Alert'
  <2>1. UNCHANGED <<mode, link>> /\ ses'.pc # "b"
    BY <1>7, AppSendGives
  <2>2. ses'.task = "RUNNING" \/ (ses' = ses /\ frames' = frames)
    BY <1>7, AppSendGives
  <2> QED
    BY <2>1, <2>2 DEF Alert
<1>8. ASSUME ProxyRead PROVE Alert'
  <2> DEFINE e == <<>>
             x == link.edge \/ link.nospace
  <2>1. link' = [link EXCEPT !.up = e, !.edge = x, !.nospace = FALSE]
        /\ UNCHANGED <<mode, ses, frames>>
    BY <1>8 DEF ProxyRead, sesVars
  <2>2. x \in BOOLEAN
    BY <1>1 DEF LinkType
  <2> HIDE DEF e, x
  <2>3. link'.edge = x /\ link'.down = link.down /\ link'.closed = link.closed
    BY <1>1, <2>1, <2>2 DEF LinkType
  <2>4. ~link'.edge => ~link.edge /\ ~link.nospace
    BY <2>3 DEF x
  <2> QED
    BY <2>1, <2>3, <2>4 DEF Alert
<1>9. ASSUME ProxyReply \/ ProxyClose PROVE Alert'
  <2>1. UNCHANGED <<mode, ses, frames>>
    BY <1>9 DEF ProxyReply, ProxyClose, sesVars
  <2>2. link'.edge = TRUE
    <3>1. CASE ProxyClose
      BY <1>1, <3>1 DEF ProxyClose, LinkType
    <3>2. CASE ProxyReply
      <4>1. PICK d : link' = [link EXCEPT !.down = d, !.edge = TRUE]
        BY <3>2 DEF ProxyReply
      <4> QED
        BY <1>1, <4>1 DEF LinkType
    <3> QED
      BY <1>9, <3>1, <3>2
  <2> QED
    BY <2>1, <2>2 DEF Alert
<1> QED
  BY <1>3, <1>4, <1>5, <1>6, <1>7, <1>8, <1>9 DEF Next

\* Hence no step and no beginning loses a wakeup.
LEMMA AlertStep == Base /\ Alert /\ [Next]_vars => Alert'
BY TaskAlert, OthersAlert

\* There is nothing to wake at the beginning.
LEMMA AlertInit == Init => Alert
<1> SUFFICES ASSUME Init PROVE Alert
  OBVIOUS
<1>1. ses = [Fresh EXCEPT !.pc = "none"]
  BY DEF Init
<1>2. ses.pc = "none"
  BY <1>1, FreshIs DEF SesType
<1> QED
  BY <1>2 DEF Alert

-----------------------------------------------------------------------------
(***************************************************************************)
(* Order.  The list, what is on the carrier and what the proxy has got are *)
(* each in the order of the ids, one after the other: the part of the list *)
(* that a waiting send has already written apart.  Each datagram carries   *)
(* the peer the app sent it to.                                            *)
(***************************************************************************)
Sorted(s) == \A i, j \in DOMAIN s : i < j => s[i].id < s[j].id
Below(s, t) == \A i \in DOMAIN s, j \in DOMAIN t : s[i].id < t[j].id
Unsent(n) == {j \in DOMAIN frames : j > n}
Ahead(s) == \A i \in DOMAIN s, j \in Unsent(ses.sent) : s[i].id < frames[j].id
Meant(m) == /\ m.id \in DOMAIN app.sent
            /\ app.sent[m.id] = [name |-> m.name, ip |-> m.ip, port |-> m.port]
AllMeant(s) == \A i \in DOMAIN s : Meant(s[i])

InOrder ==
  /\ Sorted(proxy.got) /\ Sorted(link.up) /\ Sorted(frames)
  /\ Below(proxy.got, link.up) /\ Ahead(proxy.got) /\ Ahead(link.up)
  /\ AllMeant(proxy.got) /\ AllMeant(link.up) /\ AllMeant(frames)

\* Two sequences in order, the one below the other, are one in order.
LEMMA JoinSorted ==
  ASSUME NEW s \in Seq(Frame), NEW t \in Seq(Frame), Sorted(s), Sorted(t), Below(s, t),
         NEW c, c = s \o t
  PROVE  Sorted(c)
<1> SUFFICES ASSUME NEW i \in DOMAIN c, NEW j \in DOMAIN c, i < j PROVE c[i].id < c[j].id
  BY DEF Sorted
<1>1. /\ Len(s) \in Nat /\ DOMAIN s = 1 .. Len(s) /\ Len(t) \in Nat /\ DOMAIN t = 1 .. Len(t)
  BY LenIs
<1>2. \/ i \in DOMAIN s /\ c[i] = s[i]
      \/ \E k \in DOMAIN t : i = Len(s) + k /\ c[i] = t[k]
  BY JoinOf
<1>3. \/ j \in DOMAIN s /\ c[j] = s[j]
      \/ \E k \in DOMAIN t : j = Len(s) + k /\ c[j] = t[k]
  BY JoinOf
<1>4. CASE i \in DOMAIN s /\ c[i] = s[i] /\ j \in DOMAIN s /\ c[j] = s[j]
  BY <1>4 DEF Sorted
<1>5. CASE /\ i \in DOMAIN s /\ c[i] = s[i]
           /\ \E k \in DOMAIN t : j = Len(s) + k /\ c[j] = t[k]
  BY <1>5 DEF Below
<1>6. CASE \E k \in DOMAIN t : i = Len(s) + k /\ c[i] = t[k]
  <2>1. PICK k \in DOMAIN t : i = Len(s) + k /\ c[i] = t[k]
    BY <1>6
  <2>2. PICK l \in DOMAIN t : j = Len(s) + l /\ c[j] = t[l]
    BY <1>1, <1>3, <2>1
  <2>3. k < l
    BY <1>1, <2>1, <2>2
  <2> QED
    BY <2>1, <2>2, <2>3 DEF Sorted
<1> QED
  BY <1>2, <1>3, <1>4, <1>5, <1>6

\* What holds of both parts holds of the whole.
LEMMA JoinKeeps ==
  ASSUME NEW s \in Seq(Frame), NEW t \in Seq(Frame), NEW c, c = s \o t
  PROVE  /\ AllMeant(s) /\ AllMeant(t) => AllMeant(c)
         /\ Ahead(s) /\ Ahead(t) => Ahead(c)
         /\ \A u : Below(s, u) /\ Below(t, u) => Below(c, u)
         /\ \A u : Below(u, s) /\ Below(u, t) => Below(u, c)
<1>1. \A i \in DOMAIN c : (\E k \in DOMAIN s : c[i] = s[k]) \/ (\E k \in DOMAIN t : c[i] = t[k])
  <2> TAKE i \in DOMAIN c
  <2>1. \/ i \in DOMAIN s /\ c[i] = s[i]
        \/ \E j \in DOMAIN t : i = Len(s) + j /\ c[i] = t[j]
    BY JoinOf
  <2> QED
    BY <2>1
<1>2. AllMeant(s) /\ AllMeant(t) => AllMeant(c)
  BY <1>1 DEF AllMeant
<1>3. Ahead(s) /\ Ahead(t) => Ahead(c)
  BY <1>1 DEF Ahead
<1>4. ASSUME NEW u PROVE /\ Below(s, u) /\ Below(t, u) => Below(c, u)
                         /\ Below(u, s) /\ Below(u, t) => Below(u, c)
  BY <1>1 DEF Below
<1> QED
  BY <1>2, <1>3, <1>4

\* Steps that leave the four sequences and the part already written alone.
LEMMA OrderKept ==
  ASSUME InOrder, UNCHANGED frames, proxy'.got = proxy.got, link'.up = link.up,
         ses'.sent = ses.sent, app'.sent = app.sent
  PROVE  InOrder'
BY DEF InOrder, Sorted, Below, Ahead, Unsent, AllMeant, Meant

\* The proxy reads what has come.
LEMMA ReadOrder == Base /\ InOrder /\ ProxyRead => InOrder'
<1> SUFFICES ASSUME Base, InOrder, ProxyRead PROVE InOrder'
  OBVIOUS
<1> DEFINE c == proxy.got \o link.up
           e == <<>>
           x == link.edge \/ link.nospace
           p == proxy.pending \cup Messages(link.up)
<1>1. UNCHANGED <<frames, ses, app>> /\ proxy' = [proxy EXCEPT !.got = c, !.pending = p]
      /\ link' = [link EXCEPT !.up = e, !.edge = x, !.nospace = FALSE]
  BY DEF ProxyRead, sesVars
<1>2. /\ proxy.got \in Seq(Frame) /\ link.up \in Seq(Frame) /\ link \in LinkType
      /\ proxy \in [got : Seq(Frame), pending : SUBSET Frame]
  BY DEF Base, Types, LinkType
<1>3. DOMAIN e = {}
  OBVIOUS
<1>4. c = proxy.got \o link.up
  OBVIOUS
<1> HIDE DEF c, e, x, p
<1>5. proxy'.got = c /\ link'.up = e
  BY <1>1, <1>2 DEF LinkType
<1>6. Sorted(c)
  BY <1>2, <1>4, JoinSorted DEF InOrder
<1>7. AllMeant(c) /\ Ahead(c)
  BY <1>2, <1>4, JoinKeeps DEF InOrder
<1>8. Sorted(proxy.got)' /\ Sorted(link.up)' /\ Sorted(frames)'
  BY <1>1, <1>3, <1>5, <1>6 DEF InOrder, Sorted
<1>9. Below(proxy.got, link.up)'
  BY <1>3, <1>5 DEF Below
<1>10. Ahead(proxy.got)' /\ Ahead(link.up)'
  BY <1>1, <1>3, <1>5, <1>7 DEF Ahead, Unsent
<1>11. AllMeant(proxy.got)' /\ AllMeant(link.up)' /\ AllMeant(frames)'
  BY <1>1, <1>3, <1>5, <1>7 DEF InOrder, AllMeant, Meant
<1> QED
  BY <1>8, <1>9, <1>10, <1>11 DEF InOrder

\* The session ends: the proxy may still get what is on the carrier.
LEMMA EndOrder == Base /\ InOrder /\ Destruct => InOrder'
<1> SUFFICES ASSUME Base, InOrder, Destruct PROVE InOrder'
  OBVIOUS
<1>1. PICK late \in {<<>>, link.up} : proxy' = [got |-> proxy.got \o late, pending |-> {}]
  BY DEF Destruct
<1>2. frames' = <<>> /\ link' = NoLink /\ UNCHANGED app
  BY DEF Destruct
<1> DEFINE c == proxy.got \o late
<1>3. proxy'.got = c /\ DOMAIN frames' = {} /\ DOMAIN link'.up = {}
  BY <1>1, <1>2 DEF NoLink
<1>4. /\ proxy.got \in Seq(Frame) /\ link.up \in Seq(Frame) /\ late \in Seq(Frame)
      /\ late = <<>> \/ late = link.up
  <2>1. proxy.got \in Seq(Frame) /\ link.up \in Seq(Frame)
    BY DEF Base, Types, LinkType
  <2>2. <<>> \in Seq(Frame)
    BY EmptySeq
  <2> QED
    BY <1>1, <2>1, <2>2
<1>5. Sorted(late) /\ Below(proxy.got, late) /\ AllMeant(late)
  <2>1. CASE late = link.up
    BY <2>1 DEF InOrder
  <2>2. CASE late = <<>>
    <3>1. DOMAIN late = {}
      BY <2>2
    <3> QED
      BY <3>1 DEF Sorted, Below, AllMeant
  <2> QED
    BY <1>4, <2>1, <2>2
<1>6. c = proxy.got \o late
  OBVIOUS
<1> HIDE DEF c
<1>7. Sorted(c)
  BY <1>4, <1>5, <1>6, JoinSorted DEF InOrder
<1>8. AllMeant(c)
  BY <1>4, <1>5, <1>6, JoinKeeps DEF InOrder
<1>9. Sorted(proxy.got)' /\ Sorted(link.up)' /\ Sorted(frames)'
  BY <1>3, <1>7 DEF Sorted
<1>10. Below(proxy.got, link.up)' /\ Ahead(proxy.got)' /\ Ahead(link.up)'
  BY <1>3 DEF Below, Ahead, Unsent
<1>11. AllMeant(proxy.got)' /\ AllMeant(link.up)' /\ AllMeant(frames)'
  BY <1>2, <1>3, <1>8 DEF AllMeant, Meant
<1> QED
  BY <1>9, <1>10, <1>11 DEF InOrder

\* A datagram of the app gets an id above all others.
LEMMA QueueOrder ==
  ASSUME Base, InOrder, NEW ip \in IPs, NEW port \in Ports, AppSend(ip, port)
  PROVE  InOrder'
<1>1. /\ UNCHANGED <<link, proxy>> /\ app' = [app EXCEPT !.sent = Append(@, PeerAt(ip, port))]
      /\ ses'.sent = ses.sent
      /\ frames' = frames \/ frames' = Append(frames, FrameAt(ip, port))
  BY AppSendGives
<1> DEFINE n == Len(app.sent)
           f == FrameAt(ip, port)
           q == PeerAt(ip, port)
           s == Append(app.sent, q)
<1>2. /\ app.sent \in Seq(Peer) /\ frames \in Seq(Frame) /\ app \in AppType
      /\ link.up \in Seq(Frame) /\ proxy.got \in Seq(Frame)
  BY DEF Base, Types, LinkType, AppType
<1>3. n \in Nat /\ DOMAIN app.sent = 1 .. n /\ Len(frames) \in Nat /\ DOMAIN frames = 1 .. Len(frames)
  BY <1>2, LenIs
<1>4. f.id = n + 1 /\ q = [name |-> f.name, ip |-> f.ip, port |-> f.port]
  BY DEF FrameAt, PeerAt
<1>5. DOMAIN s = 1 .. n + 1 /\ s[n + 1] = q /\ \A i \in 1 .. n : s[i] = app.sent[i]
  BY <1>2, <1>3
<1>6. app' = [app EXCEPT !.sent = s]
  BY <1>1
<1> HIDE DEF s, q, f
<1>7. app'.sent = s
  BY <1>2, <1>6 DEF AppType
<1> HIDE DEF n
<1> DEFINE Holds(m) == m.id \in DOMAIN s /\ s[m.id] = [name |-> m.name, ip |-> m.ip, port |-> m.port]
<1>8. ASSUME NEW m, Meant(m) PROVE Holds(m) /\ m.id < n + 1
  BY <1>3, <1>5, <1>8 DEF Meant
<1>9. AllMeant(proxy.got)' /\ AllMeant(link.up)'
  BY <1>1, <1>7, <1>8 DEF InOrder, AllMeant, Meant
<1>10. Sorted(proxy.got)' /\ Sorted(link.up)' /\ Below(proxy.got, link.up)'
  BY <1>1 DEF InOrder, Sorted, Below
<1>11. CASE frames' = frames
  <2>1. AllMeant(frames)'
    BY <1>7, <1>8, <1>11 DEF InOrder, AllMeant, Meant
  <2>2. Sorted(frames)' /\ Ahead(proxy.got)' /\ Ahead(link.up)'
    BY <1>1, <1>11 DEF InOrder, Sorted, Ahead, Unsent
  <2> QED
    BY <1>9, <1>10, <2>1, <2>2 DEF InOrder
<1>12. CASE frames' = Append(frames, f)
  <2> DEFINE k == Len(frames)
  <2>1. DOMAIN frames' = 1 .. k + 1 /\ frames'[k + 1] = f /\ \A i \in 1 .. k : frames'[i] = frames[i]
    BY <1>2, <1>3, <1>12
  <2> HIDE DEF k
  <2>2. k \in Nat /\ DOMAIN frames = 1 .. k
    BY <1>3 DEF k
  <2>3. f.id \in DOMAIN s /\ s[f.id] = [name |-> f.name, ip |-> f.ip, port |-> f.port]
    BY <1>3, <1>4, <1>5
  <2>4. ASSUME NEW i \in DOMAIN frames' PROVE Holds(frames'[i])
    <3>1. CASE i = k + 1
      BY <2>1, <2>3, <3>1
    <3>2. CASE i \in 1 .. k
      <4>1. frames'[i] = frames[i] /\ Meant(frames[i])
        BY <2>1, <2>2, <3>2 DEF InOrder, AllMeant
      <4> QED
        BY <1>8, <4>1
    <3> QED
      BY <2>1, <2>2, <3>1, <3>2
  <2>5. AllMeant(frames)'
    BY <1>7, <2>4 DEF AllMeant, Meant
  <2>6. \A i \in 1 .. k : frames[i].id < f.id
    BY <1>4, <1>8, <2>2 DEF InOrder, AllMeant
  <2>7. Sorted(frames)'
    <3> SUFFICES ASSUME NEW i \in DOMAIN frames', NEW j \in DOMAIN frames', i < j
                 PROVE  frames'[i].id < frames'[j].id
      BY DEF Sorted
    <3>1. i \in 1 .. k
      BY <2>1, <2>2
    <3>2. CASE j = k + 1
      BY <2>1, <2>6, <3>1, <3>2
    <3>3. CASE j \in 1 .. k
      BY <2>1, <2>2, <3>1, <3>3 DEF InOrder, Sorted
    <3> QED
      BY <2>1, <2>2, <3>2, <3>3
  <2>8. ASSUME NEW t, AllMeant(t), Ahead(t), NEW i \in DOMAIN t, NEW j \in DOMAIN frames', j > ses.sent
        PROVE  t[i].id < frames'[j].id
    <3>1. CASE j = k + 1
      BY <1>4, <1>8, <2>1, <2>8, <3>1 DEF AllMeant
    <3>2. CASE j \in 1 .. k
      <4>1. frames'[j] = frames[j] /\ j \in Unsent(ses.sent)
        BY <2>1, <2>2, <2>8, <3>2 DEF Unsent
      <4> QED
        BY <2>8, <4>1 DEF Ahead
    <3> QED
      BY <2>1, <2>2, <3>1, <3>2
  <2>9. Ahead(proxy.got)' /\ Ahead(link.up)'
    BY <1>1, <2>8 DEF InOrder, Ahead, Unsent
  <2> QED
    BY <1>9, <1>10, <2>5, <2>7, <2>9 DEF InOrder
<1> QED
  BY <1>1, <1>11, <1>12 DEF f

\* A send moves the next part of the list to the carrier, and what the list loses
\* contains all that was written.
LEMMA SendOrder ==
  ASSUME Base, InOrder, Send, ses.pc \in {"f", "send"}, UNCHANGED <<proxy, app>>
  PROVE  InOrder'
<1>1. /\ ses \in SesType /\ ses.sent \in Nat /\ frames \in Seq(Frame) /\ link \in LinkType
      /\ link.up \in Seq(Frame) /\ proxy.got \in Seq(Frame) /\ mode \in Cases
  BY SMTT(60) DEF Base, Types, SesType, LinkType
<1>2. PICK batch \in Nat, done \in Nat, gone \in Nat :
        /\ ses.sent <= done /\ done <= batch /\ batch <= Len(frames)
        /\ link' = [link EXCEPT !.up = @ \o SubSeq(frames, ses.sent + 1, done),
                                !.nospace = done < batch]
        /\ frames' = Drop(frames, gone)
        /\ \/ /\ gone = 0
              /\ ses' = [ses EXCEPT !.pc = "send", !.batch = batch, !.sent = done,
                                    !.task = "WAITING"]
           \/ /\ gone \in done .. batch
              /\ ses' = [ses EXCEPT !.pc = "b", !.batch = 0, !.sent = 0, !.expired = FALSE,
                                    !.f = IF gone > 0 THEN 1 ELSE -1]
  BY <1>1, SendGives
<1>3. Len(frames) \in Nat /\ DOMAIN frames = 1 .. Len(frames)
  BY <1>1, LenIs
<1> DEFINE part == SubSeq(frames, ses.sent + 1, done)
           up == link.up \o part
           x == done < batch
           rest == Drop(frames, gone)
<1>4. link' = [link EXCEPT !.up = up, !.nospace = x] /\ frames' = rest
  BY <1>2
<1>5. /\ ses.sent \in 0 .. Len(frames) /\ done \in ses.sent .. Len(frames)
      /\ gone \in 0 .. Len(frames)
  BY <1>1, <1>2, <1>3
<1>6. part = SubSeq(frames, ses.sent + 1, done)
  OBVIOUS
<1>6a. rest = Drop(frames, gone)
  OBVIOUS
<1>6b. up = link.up \o part
  OBVIOUS
<1>6c. frames \in Seq(Frame)
  BY <1>1
<1> HIDE DEF x, up, part, rest
<1>7. part \in Seq(Frame) /\ Len(part) = done - ses.sent
      /\ \A i \in 1 .. done - ses.sent : part[i] = frames[ses.sent + i]
  BY <1>5, <1>6, <1>6c, PartIs, SMTT(60)
<1>8. rest \in Seq(Frame) /\ Len(rest) = Len(frames) - gone
      /\ \A i \in 1 .. Len(frames) - gone : rest[i] = frames[gone + i]
  <2>1. gone \in 0 .. Len(frames)
    BY <1>5
  <2> QED
    BY <1>6a, <1>6c, <2>1, DropIs, ZenonT(90)
<1>9. DOMAIN part = 1 .. done - ses.sent /\ DOMAIN rest = 1 .. Len(frames) - gone
  BY <1>7, <1>8, LenIs
<1>10. link'.up = up
  BY <1>1, <1>4 DEF LinkType
<1>11. gone + ses'.sent >= done /\ ses'.sent \in Nat
  <2>1. CASE gone = 0 /\ ses' = [ses EXCEPT !.pc = "send", !.batch = batch, !.sent = done,
                                           !.task = "WAITING"]
    <3>1. ses'.sent = done
      BY <1>1, <2>1 DEF SesType
    <3> QED
      BY <2>1, <3>1
  <2>2. CASE /\ gone \in done .. batch
             /\ ses' = [ses EXCEPT !.pc = "b", !.batch = 0, !.sent = 0, !.expired = FALSE,
                                   !.f = IF gone > 0 THEN 1 ELSE -1]
    <3>1. ses'.sent = 0
      BY <1>1, <2>2 DEF SesType
    <3> QED
      BY <2>2, <3>1
  <2> QED
    BY <1>2, <2>1, <2>2
<1> DEFINE l == Len(frames)
<1>12. \A i \in DOMAIN part : ses.sent + i \in DOMAIN frames /\ ses.sent + i \in Unsent(ses.sent)
                              /\ ses.sent + i <= done /\ part[i] = frames[ses.sent + i]
  <2>1. l \in Nat /\ done <= l /\ DOMAIN frames = 1 .. l
    BY <1>3, <1>5
  <2> HIDE DEF l
  <2> QED
    BY <1>1, <1>7, <1>9, <2>1 DEF Unsent
<1>13. \A j \in DOMAIN rest : gone + j \in DOMAIN frames /\ rest[j] = frames[gone + j]
  <2>1. l \in Nat /\ gone <= l /\ DOMAIN frames = 1 .. l /\ DOMAIN rest = 1 .. l - gone
    BY <1>3, <1>5, <1>9
  <2> HIDE DEF l
  <2>2. \A j \in DOMAIN rest : gone + j \in DOMAIN frames
    BY <2>1
  <2>3. \A j \in DOMAIN rest : rest[j] = frames[gone + j]
    BY <1>8, <1>9
  <2> QED
    BY <2>2, <2>3
<1>14. \A j \in DOMAIN rest : j > ses'.sent => gone + j > done /\ gone + j \in Unsent(ses.sent)
  BY <1>1, <1>2, <1>9, <1>11, <1>13 DEF Unsent
<1> HIDE DEF l
<1>15. \A i \in DOMAIN part : i \in Nat
  BY <1>9
<1>16. \A j \in DOMAIN rest : j \in Nat
  BY <1>9
<1>17. Sorted(part)
  <2> SUFFICES ASSUME NEW i \in DOMAIN part, NEW j \in DOMAIN part, i < j
               PROVE  part[i].id < part[j].id
    BY DEF Sorted
  <2>1. ses.sent + i < ses.sent + j
    BY <1>1, <1>15
  <2> QED
    BY <1>12, <2>1 DEF InOrder, Sorted
<1>18. Sorted(rest)
  <2> SUFFICES ASSUME NEW i \in DOMAIN rest, NEW j \in DOMAIN rest, i < j
               PROVE  rest[i].id < rest[j].id
    BY DEF Sorted
  <2>1. gone + i < gone + j
    BY <1>16
  <2> QED
    BY <1>13, <2>1 DEF InOrder, Sorted
<1>19. Below(proxy.got, part) /\ Below(link.up, part)
  BY <1>12 DEF InOrder, Below, Ahead
<1>20. AllMeant(part)
  BY <1>12 DEF InOrder, AllMeant
<1>21. AllMeant(rest)
  BY <1>13 DEF InOrder, AllMeant
<1>22. Sorted(up) /\ AllMeant(up) /\ Below(proxy.got, up)
  <2>1. link.up \in Seq(Frame) /\ part \in Seq(Frame) /\ Sorted(link.up) /\ Sorted(part)
        /\ Below(link.up, part)
    BY <1>1, <1>7, <1>17, <1>19 DEF InOrder
  <2>2. Sorted(up)
    BY <1>6b, <2>1, JoinSorted
  <2>3. Below(proxy.got, link.up) /\ AllMeant(link.up)
    BY DEF InOrder
  <2>4. ASSUME NEW i \in DOMAIN up
        PROVE  (\E k \in DOMAIN link.up : up[i] = link.up[k]) \/ (\E k \in DOMAIN part : up[i] = part[k])
    <3>1. link.up \in Seq(Frame) /\ part \in Seq(Frame)
      BY <2>1
    <3>2. \/ i \in DOMAIN link.up /\ up[i] = link.up[i]
          \/ \E k \in DOMAIN part : i = Len(link.up) + k /\ up[i] = part[k]
      BY <1>6b, <2>4, <3>1, JoinOf, SMTT(60)
    <3> QED
      BY <3>2
  <2>5. AllMeant(up)
    BY <1>20, <2>3, <2>4 DEF AllMeant
  <2>6. Below(proxy.got, up)
    BY <1>19, <2>3, <2>4 DEF Below
  <2> QED
    BY <2>2, <2>5, <2>6
<1>23. ASSUME NEW t, Ahead(t), NEW i \in DOMAIN t, NEW j \in DOMAIN rest, j > ses'.sent
       PROVE  t[i].id < rest[j].id
  BY <1>13, <1>14, <1>23 DEF Ahead
<1>24. ASSUME NEW i \in DOMAIN part, NEW j \in DOMAIN rest, j > ses'.sent
       PROVE  part[i].id < rest[j].id
  <2>1. ses.sent + i < gone + j
    BY <1>1, <1>2, <1>12, <1>14, <1>15, <1>16, <1>24
  <2> QED
    BY <1>12, <1>13, <2>1 DEF InOrder, Sorted
<1>25. ASSUME NEW i \in DOMAIN up, NEW j \in DOMAIN rest, j > ses'.sent
       PROVE  up[i].id < rest[j].id
  <2>1. \/ i \in DOMAIN link.up /\ up[i] = link.up[i]
        \/ \E k \in DOMAIN part : i = Len(link.up) + k /\ up[i] = part[k]
    <3>1. link.up \in Seq(Frame) /\ part \in Seq(Frame)
      BY <1>1, <1>7
    <3> QED
      BY <1>6b, <1>25, <3>1, JoinOf
  <2> QED
    BY <1>23, <1>24, <1>25, <2>1 DEF InOrder
<1>26. Ahead(proxy.got)' /\ Ahead(link.up)'
  BY <1>4, <1>10, <1>23, <1>25 DEF InOrder, Ahead, Unsent
<1>27. AllMeant(proxy.got)' /\ AllMeant(link.up)' /\ AllMeant(frames)'
  BY <1>4, <1>10, <1>21, <1>22 DEF InOrder, AllMeant, Meant
<1>28. Sorted(proxy.got)' /\ Sorted(link.up)' /\ Sorted(frames)' /\ Below(proxy.got, link.up)'
  BY <1>4, <1>10, <1>18, <1>22 DEF InOrder, Sorted, Below
<1> QED
  BY <1>26, <1>27, <1>28 DEF InOrder

\* The session's task keeps the order.
LEMMA TaskOrder == Base /\ InOrder /\ TaskStep => InOrder'
<1> SUFFICES ASSUME Base, InOrder, TaskStep PROVE InOrder'
  OBVIOUS
<1>1. ses \in SesType /\ link \in LinkType /\ app \in AppType /\ mode \in Cases
  BY DEF Base, Types
<1>2. ASSUME Handshake PROVE InOrder'
  <2>1. PICK pc \in {"f", "destruct"} : ses' = [ses EXCEPT !.pc = pc, !.timeout = 1]
    BY <1>2 DEF Handshake
  <2>2. UNCHANGED <<frames, link, proxy, app>>
    BY <1>2 DEF Handshake
  <2>3. ses'.sent = ses.sent
    BY <1>1, <2>1 DEF SesType
  <2> QED
    BY <2>2, <2>3, OrderKept
<1>3. ASSUME FwdF PROVE InOrder'
  <2>1. ses.pc \in {"f", "send"} /\ UNCHANGED <<proxy, app>>
    BY <1>3, FwdFGives
  <2>2. CASE Send
    BY <2>1, <2>2, SendOrder
  <2>3. CASE ses' = [ses EXCEPT !.pc = "destruct"] /\ UNCHANGED <<frames, link>>
    <3>1. ses'.sent = ses.sent
      BY <1>1, <2>3 DEF SesType
    <3> QED
      BY <2>1, <2>3, <3>1, OrderKept
  <2>4. CASE /\ ses' = [ses EXCEPT !.pc = "b", !.f = IF @ < 0 THEN @ ELSE 0]
             /\ UNCHANGED <<frames, link>>
    <3>1. ses'.sent = ses.sent
      BY <1>1, <2>4 DEF SesType
    <3> QED
      BY <2>1, <2>4, <3>1, OrderKept
  <2> QED
    BY <1>3, <2>2, <2>3, <2>4, FwdFGives
<1>4. ASSUME FwdB PROVE InOrder'
  <2>1. PICK n \in 0 .. Len(link.down), b \in -1 .. 1 :
              /\ link' = link \/ link' = [link EXCEPT !.down = Drop(@, n)]
              /\ app' = app \/ \E got : app' = [app EXCEPT !.got = got]
              /\ ses' = Decide([ses EXCEPT !.b = b])
    BY <1>4, FwdBGives
  <2>2. UNCHANGED <<frames, proxy>>
    BY <1>4, FwdBGives
  <2> DEFINE d == Drop(link.down, n)
             s == [ses EXCEPT !.b = b]
  <2>3. s \in SesType /\ s.sent = ses.sent
    BY <1>1 DEF SesType
  <2> HIDE DEF s
  <2>4. ses' = Decide(s)
    BY <2>1 DEF s
  <2>5. ses'.sent = ses.sent
    BY <1>1, <2>3, <2>4, DecideIs
  <2>6. link' = link \/ link' = [link EXCEPT !.down = d]
    BY <2>1
  <2> HIDE DEF d
  <2>7. link'.up = link.up
    BY <1>1, <2>6 DEF LinkType
  <2>8. app'.sent = app.sent
    BY <1>1, <2>1 DEF AppType
  <2> QED
    BY <2>2, <2>5, <2>7, <2>8, OrderKept
<1> QED
  BY <1>2, <1>3, <1>4, EndOrder DEF TaskStep

\* Every step keeps it.
LEMMA OrderStep == Base /\ InOrder /\ [Next]_vars => InOrder'
<1> SUFFICES ASSUME Base, InOrder, [Next]_vars PROVE InOrder'
  OBVIOUS
<1>1. ses \in SesType /\ link \in LinkType /\ app \in AppType
      /\ proxy \in [got : Seq(Frame), pending : SUBSET Frame]
  BY DEF Base, Types
<1> DEFINE w == Wake(ses)
<1>2. w \in SesType /\ w.sent = ses.sent
  BY <1>1, WakeIs
<1> HIDE DEF w
<1>3. ASSUME IoPoll PROVE InOrder'
  <2>1. ses' = w /\ link' = [link EXCEPT !.edge = FALSE] /\ UNCHANGED <<frames, proxy, app>>
    BY <1>3 DEF IoPoll, w
  <2>2. ses'.sent = ses.sent /\ link'.up = link.up
    BY <1>1, <1>2, <2>1 DEF LinkType
  <2> QED
    BY <2>1, <2>2, OrderKept
<1>4. ASSUME Expire PROVE InOrder'
  <2>1. ses' = [w EXCEPT !.expired = TRUE] /\ UNCHANGED <<frames, link, proxy, app>>
    BY <1>4 DEF Expire, w
  <2>2. ses'.sent = ses.sent
    BY <1>2, <2>1 DEF SesType
  <2> QED
    BY <2>1, <2>2, OrderKept
<1>5. ASSUME Terminate PROVE InOrder'
  <2>1. ses' = [w EXCEPT !.timeout = 0] /\ UNCHANGED <<frames, link, proxy, app>>
    BY <1>5 DEF Terminate, w
  <2>2. ses'.sent = ses.sent
    BY <1>2, <2>1 DEF SesType
  <2> QED
    BY <2>1, <2>2, OrderKept
<1>6. ASSUME OtherApps \/ UNCHANGED vars PROVE InOrder'
  <2>1. UNCHANGED <<ses, frames, link, proxy, app>>
    BY <1>6 DEF OtherApps, vars, udpVars, sesVars
  <2> QED
    BY <2>1, OrderKept
<1>7. ASSUME AppAsk PROVE InOrder'
  <2> DEFINE a == app.asked + 1
  <2>1. app' = [app EXCEPT !.asked = a] /\ UNCHANGED <<ses, frames, link, proxy>>
    BY <1>7 DEF AppAsk, sesVars
  <2> HIDE DEF a
  <2>2. app'.sent = app.sent
    BY <1>1, <2>1 DEF AppType
  <2> QED
    BY <2>1, <2>2, OrderKept
<1>8. ASSUME ProxyReply PROVE InOrder'
  <2>1. PICK d, m : link' = [link EXCEPT !.down = d, !.edge = TRUE]
                    /\ proxy' = [proxy EXCEPT !.pending = m]
    BY <1>8 DEF ProxyReply
  <2>2. UNCHANGED <<ses, frames, app>>
    BY <1>8 DEF ProxyReply, sesVars
  <2>3. link'.up = link.up /\ proxy'.got = proxy.got
    BY <1>1, <2>1 DEF LinkType
  <2> QED
    BY <2>2, <2>3, OrderKept
<1>9. ASSUME ProxyClose PROVE InOrder'
  <2>1. link' = [link EXCEPT !.closed = TRUE, !.edge = TRUE] /\ UNCHANGED <<ses, frames, proxy, app>>
    BY <1>9 DEF ProxyClose, sesVars
  <2>2. link'.up = link.up
    BY <1>1, <2>1 DEF LinkType
  <2> QED
    BY <2>1, <2>2, OrderKept
<1> QED
  BY <1>3, <1>4, <1>5, <1>6, <1>7, <1>8, <1>9, TaskOrder, QueueOrder, ReadOrder DEF Next

\* There is nothing to order at the beginning.
LEMMA OrderInit == Init => InOrder
<1> SUFFICES ASSUME Init PROVE InOrder
  OBVIOUS
<1>1. DOMAIN proxy.got = {} /\ DOMAIN link.up = {} /\ DOMAIN frames = {}
  BY SMTT(60) DEF Init, NoLink
<1> QED
  BY <1>1 DEF InOrder, Sorted, Below, Ahead, AllMeant

\* What the proxy has got, what is on its way to it and what is still to be written are
\* one sequence in order.
LEMMA InOrderMeans == Base /\ InOrder => UpInOrder
<1> SUFFICES ASSUME Base, InOrder PROVE UpInOrder
  OBVIOUS
<1>1. /\ proxy.got \in Seq(Frame) /\ link.up \in Seq(Frame) /\ frames \in Seq(Frame)
      /\ ses.sent \in Nat /\ ses.sent <= ses.batch /\ ses.batch <= Len(frames) /\ ses.batch \in Nat
  BY DEF Base, Types, Limits, LinkType, SesType
<1>2. Len(frames) \in Nat /\ DOMAIN frames = 1 .. Len(frames)
  BY <1>1, LenIs
<1>2a. frames \in Seq(Frame)
  BY <1>1
<1> DEFINE a == proxy.got \o link.up
           r == Drop(frames, ses.sent)
           c == a \o r
<1>3. a = proxy.got \o link.up
  OBVIOUS
<1>4. r = Drop(frames, ses.sent)
  OBVIOUS
<1>5. c = a \o r
  OBVIOUS
<1> HIDE DEF a, r, c
<1>6. a \in Seq(Frame)
  <2>1. proxy.got \in Seq(Frame) /\ link.up \in Seq(Frame)
    BY <1>1
  <2> QED
    BY <1>3, <2>1, JoinIs
<1>7. Sorted(a)
  BY <1>1, <1>3, JoinSorted DEF InOrder
<1>8. AllMeant(a) /\ Ahead(a)
  BY <1>1, <1>3, JoinKeeps DEF InOrder
<1>9. r \in Seq(Frame) /\ Len(r) = Len(frames) - ses.sent
      /\ \A i \in 1 .. Len(frames) - ses.sent : r[i] = frames[ses.sent + i]
  <2> DEFINE n == ses.sent
  <2>1. n \in 0 .. Len(frames)
    BY <1>1, <1>2
  <2>2. r = Drop(frames, n)
    BY <1>4
  <2> HIDE DEF n
  <2>3. r \in Seq(Frame) /\ Len(r) = Len(frames) - n
        /\ \A i \in 1 .. Len(frames) - n : r[i] = frames[n + i]
    BY <1>2a, <2>1, <2>2, DropIs, ZenonT(60)
  <2> QED
    BY <2>3 DEF n
<1>10. DOMAIN r = 1 .. Len(frames) - ses.sent
  BY <1>9, LenIs
<1>11. \A i \in DOMAIN r : /\ i \in Nat /\ ses.sent + i \in Unsent(ses.sent)
                           /\ ses.sent + i \in DOMAIN frames /\ r[i] = frames[ses.sent + i]
  <2> DEFINE l == Len(frames)
  <2>1. l \in Nat /\ DOMAIN frames = 1 .. l /\ DOMAIN r = 1 .. l - ses.sent
        /\ \A i \in 1 .. l - ses.sent : r[i] = frames[ses.sent + i]
    BY <1>2, <1>9, <1>10
  <2> HIDE DEF l
  <2> QED
    BY <1>1, <2>1 DEF Unsent
<1>12. Below(a, r)
  BY <1>8, <1>11 DEF Below, Ahead
<1>13. Sorted(r)
  <2> SUFFICES ASSUME NEW i \in DOMAIN r, NEW j \in DOMAIN r, i < j PROVE r[i].id < r[j].id
    BY DEF Sorted
  <2>1. ses.sent + i < ses.sent + j
    BY <1>1, <1>11
  <2> QED
    BY <1>11, <2>1 DEF InOrder, Sorted
<1>14. AllMeant(r)
  BY <1>11 DEF InOrder, AllMeant
<1>15. Sorted(c)
  BY <1>5, <1>6, <1>7, <1>9, <1>12, <1>13, JoinSorted
<1>16. ASSUME NEW i \in DOMAIN c PROVE Meant(c[i])
  <2>1. a \in Seq(Frame) /\ r \in Seq(Frame)
    BY <1>6, <1>9
  <2>2. \/ i \in DOMAIN a /\ c[i] = a[i]
        \/ \E j \in DOMAIN r : i = Len(a) + j /\ c[i] = r[j]
    BY <1>5, <1>16, <2>1, JoinOf
  <2> QED
    BY <1>8, <1>14, <2>2 DEF AllMeant
<1>17. \A i \in DOMAIN c : /\ \A j \in DOMAIN c : i < j => c[i].id < c[j].id
                           /\ c[i].name = app.sent[c[i].id].name
                           /\ c[i].port = app.sent[c[i].id].port
  <2>1. \A i, j \in DOMAIN c : i < j => c[i].id < c[j].id
    BY <1>15 DEF Sorted
  <2>2. ASSUME NEW i \in DOMAIN c
        PROVE  c[i].name = app.sent[c[i].id].name /\ c[i].port = app.sent[c[i].id].port
    <3>1. app.sent[c[i].id] = [name |-> c[i].name, ip |-> c[i].ip, port |-> c[i].port]
      BY <1>16, <2>2 DEF Meant
    <3> QED
      BY <3>1
  <2> QED
    BY <2>1, <2>2
<1>18. c = (proxy.got \o link.up) \o Drop(frames, ses.sent)
  BY <1>3, <1>4, <1>5
<1> QED
  BY <1>17, <1>18 DEF UpInOrder

(* Datagrams reach the proxy in the order the app sent them, each at most  *)
(* once and for the peer it was sent to, whatever the batches, the waits   *)
(* in a send and the ends of a session; and a session never sleeps with    *)
(* something to forward or to deliver and no edge left to wake it          *)
(* (udp_recv_handler, fwd_f, fwd_b, hev_socks5_udp_sendmmsg).              *)
THEOREM DirectionsAreKept == Spec => []DirectionsHold
<1>1. Init => Base /\ Alert /\ InOrder
  BY BaseInit, AlertInit, OrderInit
<1>2. Base /\ Alert /\ InOrder /\ [Next]_vars => (Base /\ Alert /\ InOrder)'
  BY BaseStep, AlertStep, OrderStep
<1>3. Alert => NeverAsleepWithWork
  BY DEF Alert, NeverAsleepWithWork
<1>4. Base /\ Alert /\ InOrder => DirectionsHold
  BY <1>3, InOrderMeans DEF DirectionsHold
<1> QED
  BY <1>1, <1>2, <1>4, PTL DEF Spec

-----------------------------------------------------------------------------
(***************************************************************************)
(* Peers.  Every peer the session remembers is one the app has sent to; a  *)
(* reply bears the id of a datagram and, from a proxy that echoes the      *)
(* peer, that datagram's peer.                                             *)
(***************************************************************************)
SentTo(p) == \E j \in DOMAIN app.sent : app.sent[j] = p
FromPeer(g) ==
  /\ g.id \in DOMAIN app.sent
  /\ mode.echo => \E i \in DOMAIN app.sent :
                    /\ app.sent[i].ip = g.ip /\ app.sent[i].port = g.port
                    /\ \/ app.sent[i].name = app.sent[g.id].name
                       \/ app.sent[i].ip = app.sent[g.id].ip
Answers(r) == r.id \in DOMAIN app.sent /\ (mode.echo => Meant(r))

Heard ==
  /\ \A i \in DOMAIN names : names[i] # Empty => SentTo(names[i])
  /\ last # Empty => SentTo(last)
  /\ \A m \in proxy.pending : Meant(m)
  /\ \A i \in DOMAIN link.down : Answers(link.down[i])
  /\ \A g \in app.got : FromPeer(g)

\* Steps that leave the peers, the replies and the app alone.
LEMMA HeardKept ==
  ASSUME Heard, UNCHANGED <<mode, names, last>>, proxy'.pending = proxy.pending,
         link'.down = link.down, app'.sent = app.sent, app'.got = app.got
  PROVE  Heard'
BY DEF Heard, SentTo, FromPeer, Answers, Meant

\* The source of a reply is a peer the app has used, for the reply's own peer.
LEMMA SourceIs ==
  ASSUME Types, Heard, NEW m \in Reply, Answers(m), Source(m) # Empty
  PROVE  FromPeer([id |-> m.id, ip |-> Source(m).ip, port |-> Source(m).port])
<1> DEFINE s == Source(m)
           g == [id |-> m.id, ip |-> s.ip, port |-> s.port]
<1>1. g.id = m.id /\ g.ip = s.ip /\ g.port = s.port
  OBVIOUS
<1>2. m.id \in DOMAIN app.sent
  BY DEF Answers
<1>3. ASSUME mode.echo
      PROVE  \E i \in DOMAIN app.sent :
               /\ app.sent[i].ip = s.ip /\ app.sent[i].port = s.port
               /\ \/ app.sent[i].name = app.sent[m.id].name
                  \/ app.sent[i].ip = app.sent[m.id].ip
  <2>1. app.sent[m.id] = [name |-> m.name, ip |-> m.ip, port |-> m.port]
    BY <1>3 DEF Answers, Meant
  <2>2. app.sent[m.id].name = m.name /\ app.sent[m.id].ip = m.ip /\ app.sent[m.id].port = m.port
    BY <2>1
  <2>3. CASE m.name # NoName
    <3>1. SlotOf(m.name) # {} /\ s = names[CHOOSE i \in SlotOf(m.name) : TRUE]
      BY <2>3 DEF Source
    <3>2. PICK i \in SlotOf(m.name) : s = names[i]
      BY <3>1
    <3>3. i \in DOMAIN names /\ s.name = m.name
      BY <3>2 DEF SlotOf
    <3>4. PICK j \in DOMAIN app.sent : app.sent[j] = s
      BY <3>2, <3>3 DEF Heard, SentTo
    <3> QED
      BY <2>2, <3>3, <3>4
  <2>4. CASE m.name = NoName /\ m.ip = last.ip /\ last.port # 0
    <3>1. s = last
      BY <2>4 DEF Source
    <3>2. last # Empty
      BY <2>4 DEF Empty
    <3>3. PICK j \in DOMAIN app.sent : app.sent[j] = last
      BY <3>2 DEF Heard, SentTo
    <3> QED
      BY <2>2, <2>4, <3>1, <3>3
  <2>5. CASE m.name = NoName /\ ~(m.ip = last.ip /\ last.port # 0)
    <3>1. s = [name |-> NoName, ip |-> m.ip, port |-> m.port]
      BY <2>5 DEF Source
    <3>2. s.ip = m.ip /\ s.port = m.port
      BY <3>1
    <3> QED
      BY <1>2, <2>2, <3>2
  <2> QED
    BY <2>3, <2>4, <2>5
<1> HIDE DEF s
<1>4. FromPeer(g)
  BY <1>1, <1>2, <1>3 DEF FromPeer
<1> QED
  BY <1>4 DEF s

\* fwd_b delivers replies.
LEMMA DeliverHeard == Base /\ Heard /\ FwdB => Heard'
<1> SUFFICES ASSUME Base, Heard, FwdB PROVE Heard'
  OBVIOUS
<1>1. Types /\ link \in LinkType /\ app \in AppType /\ link.down \in Seq(Reply)
  BY DEF Base, Types, LinkType
<1>2. UNCHANGED <<mode, names, last, proxy>>
  BY FwdBGives
<1>2a. PICK n \in 0 .. Len(link.down), b \in -1 .. 1 : \E k \in 0 .. n :
         /\ link' = link \/ link' = [link EXCEPT !.down = Drop(@, n)]
         /\ \/ app' = app
            \/ app' = [app EXCEPT !.got = @ \cup
                         {[id |-> link.down[i].id, ip |-> Source(link.down[i]).ip,
                           port |-> Source(link.down[i]).port] :
                          i \in {j \in 1 .. k : Source(link.down[j]) # Empty}}]
  BY FwdBGives
<1>3. PICK k \in 0 .. n :
         /\ link' = link \/ link' = [link EXCEPT !.down = Drop(@, n)]
         /\ \/ app' = app
            \/ app' = [app EXCEPT !.got = @ \cup
                         {[id |-> link.down[i].id, ip |-> Source(link.down[i]).ip,
                           port |-> Source(link.down[i]).port] :
                          i \in {j \in 1 .. k : Source(link.down[j]) # Empty}}]
  BY <1>2a
<1>4. Len(link.down) \in Nat /\ DOMAIN link.down = 1 .. Len(link.down)
      /\ \A i \in 1 .. Len(link.down) : link.down[i] \in Reply
  BY <1>1, LenIs
<1> DEFINE d == Drop(link.down, n)
           G == {[id |-> link.down[i].id, ip |-> Source(link.down[i]).ip,
                  port |-> Source(link.down[i]).port] :
                 i \in {j \in 1 .. k : Source(link.down[j]) # Empty}}
           got == app.got \cup G
<1>5. \A i \in DOMAIN d : \E j \in DOMAIN link.down : d[i] = link.down[j]
  <2> DEFINE q == link.down
  <2>1. d = Drop(q, n)
    OBVIOUS
  <2>2. q \in Seq(Reply) /\ n \in 0 .. Len(q)
    BY <1>1
  <2> HIDE DEF d, q
  <2>3. ASSUME NEW i \in DOMAIN d PROVE \E j \in DOMAIN q : d[i] = q[j]
    BY <2>1, <2>2, <2>3, DropOf
  <2> QED
    BY <2>3 DEF q
<1>6. link' = link \/ link' = [link EXCEPT !.down = d]
  BY <1>3
<1> HIDE DEF d
<1>7. link'.down = link.down \/ link'.down = d
  BY <1>1, <1>6 DEF LinkType
<1>8. \A i \in DOMAIN link'.down : \E j \in DOMAIN link.down : link'.down[i] = link.down[j]
  BY <1>5, <1>7
<1>9. \A g \in G : FromPeer(g)
  <2> SUFFICES ASSUME NEW i \in 1 .. k, Source(link.down[i]) # Empty
               PROVE  FromPeer([id |-> link.down[i].id, ip |-> Source(link.down[i]).ip,
                                port |-> Source(link.down[i]).port])
    OBVIOUS
  <2>1. i \in DOMAIN link.down /\ link.down[i] \in Reply
    BY <1>4
  <2>2. Answers(link.down[i])
    BY <2>1 DEF Heard
  <2> QED
    BY <1>1, <2>1, <2>2, SourceIs
<1>10. app' = app \/ app' = [app EXCEPT !.got = got]
  BY <1>3
<1>11. \A g \in got : FromPeer(g)
  BY <1>9 DEF Heard
<1> HIDE DEF got
<1>12. app'.sent = app.sent /\ (app'.got = app.got \/ app'.got = got)
  BY <1>1, <1>10 DEF AppType
<1>13. \A g \in app'.got : FromPeer(g)
  BY <1>11, <1>12 DEF Heard
<1>14. /\ \A i \in DOMAIN names : names[i] # Empty => SentTo(names[i])
       /\ last # Empty => SentTo(last)
       /\ \A m \in proxy.pending : Meant(m)
       /\ \A i \in DOMAIN link.down : Answers(link.down[i])
  BY DEF Heard
<1>15. \A i \in DOMAIN link'.down : Answers(link'.down[i])
  BY <1>8, <1>14
<1>16. /\ (\A i \in DOMAIN names : names[i] # Empty => SentTo(names[i]))'
       /\ (last # Empty => SentTo(last))'
  BY <1>2, <1>12, <1>14 DEF SentTo
<1>17. (\A m \in proxy.pending : Meant(m))'
  BY <1>2, <1>12, <1>14 DEF Meant
<1>18. (\A i \in DOMAIN link.down : Answers(link.down[i]))'
  BY <1>2, <1>12, <1>15 DEF Answers, Meant
<1>19. (\A g \in app.got : FromPeer(g))'
  BY <1>2, <1>12, <1>13 DEF FromPeer
<1> QED
  BY <1>16, <1>17, <1>18, <1>19 DEF Heard

\* The app sends: the peer of the datagram may be learned.
LEMMA LearnHeard ==
  ASSUME Base, Heard, NEW ip \in IPs, NEW port \in Ports, AppSend(ip, port)
  PROVE  Heard'
<1>1. /\ UNCHANGED <<mode, link, proxy>>
      /\ app' = [app EXCEPT !.sent = Append(@, PeerAt(ip, port))]
      /\ \/ UNCHANGED <<names, last>>
         \/ name_map_learn(NameAt(ip), ip, port) /\ last' = PeerAt(ip, port)
  BY AppSendGives
<1> DEFINE n == Len(app.sent)
           q == PeerAt(ip, port)
           s == Append(app.sent, q)
<1>2. app.sent \in Seq(Peer) /\ app \in AppType /\ names \in [0 .. Slots - 1 -> Known]
      /\ next \in 0 .. Slots - 1
  BY DEF Base, Types, AppType
<1>3. n \in Nat /\ DOMAIN app.sent = 1 .. n
  BY <1>2, LenIs
<1>4. DOMAIN s = 1 .. n + 1 /\ s[n + 1] = q /\ \A i \in 1 .. n : s[i] = app.sent[i]
  BY <1>2, <1>3
<1>5. app' = [app EXCEPT !.sent = s]
  BY <1>1
<1>6. q = PeerAt(ip, port)
  OBVIOUS
<1> HIDE DEF s, q
<1>7. app'.sent = s /\ app'.got = app.got
  BY <1>2, <1>5 DEF AppType
<1> HIDE DEF n
<1>8. \A i \in DOMAIN app.sent : i \in DOMAIN s /\ s[i] = app.sent[i]
  BY <1>3, <1>4
<1>9. \E j \in DOMAIN s : s[j] = q
  BY <1>3, <1>4
<1>10. \A p : (\E j \in DOMAIN app.sent : app.sent[j] = p) => \E j \in DOMAIN s : s[j] = p
  BY <1>8
<1>11. ASSUME NEW i \in DOMAIN names' PROVE i \in DOMAIN names /\ (names'[i] = names[i] \/ names'[i] = q)
  <2>1. CASE UNCHANGED names
    BY <2>1
  <2>2. CASE name_map_learn(NameAt(ip), ip, port)
    <3> DEFINE S == SlotOf(NameAt(ip))
    <3>1. \/ names' = [j \in DOMAIN names |-> IF j \in S THEN q ELSE names[j]]
          \/ names' = [names EXCEPT ![next] = q]
      BY <1>6, <2>2 DEF name_map_learn, PeerAt
    <3> HIDE DEF S
    <3> QED
      BY <1>2, <3>1
  <2> QED
    BY <1>1, <2>1, <2>2
<1>12. \A i \in DOMAIN names' : names'[i] # Empty => \E j \in DOMAIN s : s[j] = names'[i]
  BY <1>9, <1>10, <1>11 DEF Heard, SentTo
<1>13. last' # Empty => \E j \in DOMAIN s : s[j] = last'
  BY <1>1, <1>6, <1>9, <1>10 DEF Heard, SentTo
<1>14. (\A m \in proxy.pending : Meant(m))'
  BY <1>1, <1>7, <1>8 DEF Heard, Meant
<1>15. (\A i \in DOMAIN link.down : Answers(link.down[i]))'
  <2> DEFINE Holds(r) == /\ r.id \in DOMAIN s
                         /\ mode.echo => s[r.id] = [name |-> r.name, ip |-> r.ip, port |-> r.port]
  <2>1. \A r : Answers(r) => Holds(r)
    BY <1>8 DEF Answers, Meant
  <2>2. \A i \in DOMAIN link.down : Holds(link.down[i])
    BY <2>1 DEF Heard
  <2>3. mode' = mode /\ link' = link
    BY <1>1
  <2> QED
    BY <1>7, <2>2, <2>3 DEF Answers, Meant
<1>16. ASSUME NEW g \in app.got
       PROVE  /\ g.id \in DOMAIN s
              /\ mode.echo => \E i \in DOMAIN s :
                    /\ s[i].ip = g.ip /\ s[i].port = g.port
                    /\ s[i].name = s[g.id].name \/ s[i].ip = s[g.id].ip
  <2>1. FromPeer(g)
    BY <1>16 DEF Heard
  <2> QED
    BY <1>8, <2>1 DEF FromPeer
<1>17. (\A g \in app.got : FromPeer(g))'
  <2>1. mode' = mode
    BY <1>1
  <2> QED
    BY <1>7, <1>16, <2>1 DEF FromPeer
<1>18. /\ (\A i \in DOMAIN names : names[i] # Empty => SentTo(names[i]))'
       /\ (last # Empty => SentTo(last))'
  BY <1>7, <1>12, <1>13 DEF SentTo
<1> QED
  BY <1>14, <1>15, <1>17, <1>18 DEF Heard

\* The proxy reads and answers.
LEMMA ProxyHeard == Base /\ InOrder /\ Heard /\ (ProxyRead \/ ProxyReply) => Heard'
<1> SUFFICES ASSUME Base, InOrder, Heard, ProxyRead \/ ProxyReply PROVE Heard'
  OBVIOUS
<1>1. link \in LinkType /\ mode \in Cases /\ proxy \in [got : Seq(Frame), pending : SUBSET Frame]
      /\ link.down \in Seq(Reply)
  BY DEF Base, Types, LinkType
<1>2. UNCHANGED <<mode, names, last, app>>
  BY DEF ProxyRead, ProxyReply, sesVars
<1>3. (\A i \in DOMAIN names : names[i] # Empty => SentTo(names[i]))'
  BY <1>2 DEF Heard, SentTo
<1>4. (last # Empty => SentTo(last))' /\ (\A g \in app.got : FromPeer(g))'
  BY <1>2 DEF Heard, SentTo, FromPeer
<1>5. CASE ProxyRead
  <2> DEFINE c == proxy.got \o link.up
             e == <<>>
             x == link.edge \/ link.nospace
             p == proxy.pending \cup Messages(link.up)
  <2>1. proxy' = [proxy EXCEPT !.got = c, !.pending = p]
        /\ link' = [link EXCEPT !.up = e, !.edge = x, !.nospace = FALSE]
    BY <1>5 DEF ProxyRead
  <2>2. \A m \in p : Meant(m)
    BY DEF Heard, InOrder, AllMeant, Messages
  <2> HIDE DEF c, e, x, p
  <2>3. proxy'.pending = p /\ link'.down = link.down
    BY <1>1, <2>1 DEF LinkType
  <2>4. (\A m \in proxy.pending : Meant(m))'
    BY <1>2, <2>2, <2>3 DEF Meant
  <2>5. (\A i \in DOMAIN link.down : Answers(link.down[i]))'
    BY <1>2, <2>3 DEF Heard, Answers, Meant
  <2> QED
    BY <1>3, <1>4, <2>4, <2>5 DEF Heard
<1>6. CASE ProxyReply
  <2>1. PICK m \in proxy.pending, bad \in BOOLEAN :
          LET named == mode.echo \/ m.name = NoName
              reply == [id |-> m.id, port |-> m.port, bad |-> bad,
                        name |-> IF named THEN m.name ELSE NoName,
                        ip |-> IF named THEN m.ip ELSE RealIp(m.name)]
          IN /\ link' = [link EXCEPT !.down = Append(@, reply), !.edge = TRUE]
             /\ proxy' = [proxy EXCEPT !.pending = @ \ {m}]
    BY <1>6 DEF ProxyReply
  <2> DEFINE named == mode.echo \/ m.name = NoName
             nm == IF named THEN m.name ELSE NoName
             at == IF named THEN m.ip ELSE RealIp(m.name)
             reply == [id |-> m.id, port |-> m.port, bad |-> bad, name |-> nm, ip |-> at]
             d == Append(link.down, reply)
             p == proxy.pending \ {m}
  <2>2. link' = [link EXCEPT !.down = d, !.edge = TRUE] /\ proxy' = [proxy EXCEPT !.pending = p]
    BY <2>1
  <2>3. mode.echo => nm = m.name /\ at = m.ip
    OBVIOUS
  <2>4. Meant(m)
    BY DEF Heard
  <2> HIDE DEF nm, at
  <2>5. reply.id = m.id /\ reply.port = m.port /\ reply.name = nm /\ reply.ip = at
    OBVIOUS
  <2> HIDE DEF reply
  <2>6. Answers(reply)
    BY <2>3, <2>4, <2>5 DEF Answers, Meant
  <2>7. \A i \in DOMAIN d : d[i] = reply \/ (i \in DOMAIN link.down /\ d[i] = link.down[i])
    <3>1. Len(link.down) \in Nat /\ DOMAIN link.down = 1 .. Len(link.down)
      BY <1>1, LenIs
    <3> QED
      BY <1>1, <3>1
  <2>8. \A r \in p : Meant(r)
    BY DEF Heard
  <2> HIDE DEF d, p
  <2>9. link'.down = d /\ proxy'.pending = p
    BY <1>1, <2>2 DEF LinkType
  <2>10. \A i \in DOMAIN d : Answers(d[i])
    BY <2>6, <2>7 DEF Heard
  <2>11. (\A r \in proxy.pending : Meant(r))'
    BY <1>2, <2>8, <2>9 DEF Meant
  <2>12. (\A i \in DOMAIN link.down : Answers(link.down[i]))'
    BY <1>2, <2>9, <2>10 DEF Answers, Meant
  <2> QED
    BY <1>3, <1>4, <2>11, <2>12 DEF Heard
<1> QED
  BY <1>5, <1>6

\* Every step keeps the peers.
LEMMA HeardStep == Base /\ InOrder /\ Heard /\ [Next]_vars => Heard'
<1> SUFFICES ASSUME Base, InOrder, Heard, [Next]_vars PROVE Heard'
  OBVIOUS
<1>1. link \in LinkType /\ app \in AppType
  BY DEF Base, Types
<1>2. ASSUME Handshake \/ Expire \/ Terminate \/ OtherApps \/ UNCHANGED vars PROVE Heard'
  <2>1. UNCHANGED <<mode, names, last, proxy, link, app>>
    BY <1>2 DEF Handshake, Expire, Terminate, OtherApps, vars, udpVars, sesVars
  <2> QED
    BY <2>1, HeardKept
<1>3. ASSUME FwdF PROVE Heard'
  <2>1. UNCHANGED <<mode, names, last, proxy, app>>
    BY <1>3, FwdFGives
  <2>2. link' = link \/ Send
    BY <1>3, FwdFGives
  <2>3. link' = link \/ \E u, x : link' = [link EXCEPT !.up = u, !.nospace = x]
    BY <2>2 DEF Send
  <2>4. link'.down = link.down
    BY <1>1, <2>3 DEF LinkType
  <2> QED
    BY <2>1, <2>4, HeardKept
<1>4. ASSUME Destruct PROVE Heard'
  <2>1. names' = NoNames /\ last' = Empty /\ link' = NoLink /\ UNCHANGED <<mode, app>>
    BY <1>4 DEF Destruct
  <2>2. proxy'.pending = {} /\ DOMAIN link'.down = {} /\ \A i \in DOMAIN names' : names'[i] = Empty
    BY <1>4, <2>1 DEF Destruct, NoLink, NoNames
  <2>3. (\A g \in app.got : FromPeer(g))'
    BY <2>1 DEF Heard, FromPeer
  <2> QED
    BY <2>1, <2>2, <2>3 DEF Heard
<1>5. ASSUME IoPoll \/ ProxyClose PROVE Heard'
  <2>1. UNCHANGED <<mode, names, last, proxy, app>>
    BY <1>5 DEF IoPoll, ProxyClose, sesVars
  <2>2. link'.down = link.down
    BY <1>1, <1>5 DEF IoPoll, ProxyClose, LinkType
  <2> QED
    BY <2>1, <2>2, HeardKept
<1>6. ASSUME AppAsk PROVE Heard'
  <2> DEFINE a == app.asked + 1
  <2>1. app' = [app EXCEPT !.asked = a] /\ UNCHANGED <<mode, names, last, proxy, link>>
    BY <1>6 DEF AppAsk, sesVars
  <2> HIDE DEF a
  <2>2. app'.sent = app.sent /\ app'.got = app.got
    BY <1>1, <2>1 DEF AppType
  <2> QED
    BY <2>1, <2>2, HeardKept
<1> QED
  BY <1>2, <1>3, <1>4, <1>5, <1>6, DeliverHeard, LearnHeard, ProxyHeard DEF Next, TaskStep

\* Nothing is known at the beginning.
LEMMA HeardInit == Init => Heard
<1> SUFFICES ASSUME Init PROVE Heard
  OBVIOUS
<1>1. /\ \A i \in DOMAIN names : names[i] = Empty
      /\ last = Empty /\ proxy.pending = {} /\ DOMAIN link.down = {} /\ app.got = {}
  BY DEF Init, NoNames, NoLink
<1> QED
  BY <1>1 DEF Heard

-----------------------------------------------------------------------------
(***************************************************************************)
(* Names.  Slot i holds the name learned at place Spot(i) of the order:    *)
(* the slots before the next one of the round hold the latest names, those *)
(* from it on the ones before.                                             *)
(***************************************************************************)
Spot(i, n, l) == IF i < n THEN l - n + i + 1 ELSE l - n - Slots + i + 1

Ring ==
  /\ \A i \in 0 .. Slots - 1 :
       LET p == Spot(i, next, Len(ses.order))
       IN names[i].name = IF p >= 1 THEN ses.order[p] ELSE NoName
  /\ \A i, j \in 0 .. Slots - 1 :
       names[i].name = names[j].name => i = j \/ names[i].name = NoName

\* The slots stand for the last places, each for one.
LEMMA SpotRange ==
  ASSUME NEW n \in 0 .. Slots - 1, NEW l \in Nat
  PROVE  /\ \A i \in 0 .. Slots - 1 : /\ Spot(i, n, l) \in Int /\ Spot(i, n, l) <= l
                                      /\ l - Spot(i, n, l) < Slots
         /\ \A p \in 1 .. l : l - p < Slots => \E i \in 0 .. Slots - 1 : Spot(i, n, l) = p
<1>1. Slots \in Nat \ {0}
  BY UdpFacts
<1>2. ASSUME NEW i \in 0 .. Slots - 1
      PROVE  Spot(i, n, l) \in Int /\ Spot(i, n, l) <= l /\ l - Spot(i, n, l) < Slots
  BY <1>1 DEF Spot
<1>3. ASSUME NEW p \in 1 .. l, l - p < Slots PROVE \E i \in 0 .. Slots - 1 : Spot(i, n, l) = p
  <2>1. CASE p > l - n
    <3>1. p - l + n - 1 \in 0 .. Slots - 1 /\ Spot(p - l + n - 1, n, l) = p
      BY <1>1, <1>3, <2>1 DEF Spot
    <3> QED
      BY <3>1
  <2>2. CASE ~(p > l - n)
    <3>1. p - l + n + Slots - 1 \in 0 .. Slots - 1 /\ Spot(p - l + n + Slots - 1, n, l) = p
      BY <1>1, <1>3, <2>2 DEF Spot
    <3> QED
      BY <3>1
  <2> QED
    BY <2>1, <2>2
<1> QED
  BY <1>2, <1>3

\* A name in the next slot moves none of the others.
LEMMA SpotStep ==
  ASSUME NEW n \in 0 .. Slots - 1, NEW l \in Nat, NEW i \in 0 .. Slots - 1,
         NEW m, m = IF n + 1 = Slots THEN 0 ELSE n + 1
  PROVE  Spot(i, m, l + 1) = IF i = n THEN l + 1 ELSE Spot(i, n, l)
BY UdpFacts DEF Spot

\* The app sends to a name.
LEMMA LearnRing ==
  ASSUME Base, Ring, NEW ip \in IPs, NEW port \in Ports, AppSend(ip, port)
  PROVE  Ring'
<1> DEFINE n == NameAt(ip)
           S == SlotOf(n)
           q == PeerAt(ip, port)
<1>1. \/ UNCHANGED <<names, next>> /\ ses'.order = ses.order
      \/ /\ n # NoName /\ name_map_learn(n, ip, port)
         /\ ses'.order = IF S # {} THEN ses.order ELSE Append(ses.order, n)
  BY AppSendGives
<1>2. /\ names \in [0 .. Slots - 1 -> Known] /\ next \in 0 .. Slots - 1
      /\ ses.order \in Seq(Names) /\ MapInv /\ Slots \in Nat \ {0}
  BY UdpFacts DEF Base, Types, SesType
<1>3. n \in Names \cup {NoName}
  BY <1>2, NameAtType
<1>4. q.name = n
  BY DEF PeerAt
<1>5. S = {i \in DOMAIN names : names[i].name = n}
  BY DEF SlotOf
<1>6. name_map_learn(n, ip, port) =>
        IF S # {} THEN names' = [i \in DOMAIN names |-> IF i \in S THEN q ELSE names[i]] /\ next' = next
        ELSE names' = [names EXCEPT ![next] = q] /\ next' = (next + 1) % Slots
  BY DEF name_map_learn, PeerAt
<1> HIDE DEF n, S, q
<1>7. DOMAIN names = 0 .. Slots - 1
  BY <1>2
<1>8. CASE UNCHANGED <<names, next>> /\ ses'.order = ses.order
  BY <1>8 DEF Ring
<1>9. CASE n # NoName /\ S # {} /\ ses'.order = ses.order /\ next' = next
           /\ names' = [i \in DOMAIN names |-> IF i \in S THEN q ELSE names[i]]
  <2>1. \A i \in 0 .. Slots - 1 : names'[i].name = names[i].name
    BY <1>4, <1>5, <1>7, <1>9
  <2> QED
    BY <1>9, <2>1 DEF Ring
<1>10. CASE /\ n # NoName /\ S = {} /\ ses'.order = Append(ses.order, n)
            /\ names' = [names EXCEPT ![next] = q] /\ next' = (next + 1) % Slots
  <2> DEFINE l == Len(ses.order)
             m == (next + 1) % Slots
             o == Append(ses.order, n)
  <2>1. m = IF next + 1 = Slots THEN 0 ELSE next + 1
    BY <1>2, RoundIs
  <2>2. l \in Nat
    BY <1>2, LenIs
  <2>3. Len(o) = l + 1 /\ o[l + 1] = n /\ \A p \in 1 .. l : o[p] = ses.order[p]
    <3>1. n \in Names
      BY <1>3, <1>10
    <3> QED
      BY <1>2, <2>2, <3>1
  <2>4. ses'.order = o /\ next' = m
    BY <1>10
  <2> HIDE DEF m, o
  <2>5. \A i \in 0 .. Slots - 1 : names'[i].name = IF i = next THEN n ELSE names[i].name
    BY <1>2, <1>4, <1>7, <1>10
  <2>6. \A i \in 0 .. Slots - 1 : names[i].name # n
    BY <1>5, <1>7, <1>10
  <2>7. ASSUME NEW i \in 0 .. Slots - 1
        PROVE  names'[i].name = IF Spot(i, m, l + 1) >= 1 THEN o[Spot(i, m, l + 1)] ELSE NoName
    <3>1. Spot(i, m, l + 1) = IF i = next THEN l + 1 ELSE Spot(i, next, l)
      <4>1. l \in Nat /\ next \in 0 .. Slots - 1
        BY <1>2, <2>2
      <4> HIDE DEF l
      <4> QED
        BY <2>1, <4>1, SpotStep
    <3>2. CASE i = next
      <4>1. Spot(i, m, l + 1) = l + 1 /\ l + 1 >= 1
        BY <2>2, <3>1, <3>2
      <4>2. names'[i].name = n
        BY <2>5, <3>2
      <4> QED
        BY <2>3, <4>1, <4>2
    <3>3. CASE i # next
      <4> DEFINE p == Spot(i, next, l)
      <4>1. p \in Int /\ p <= l
        BY <1>2, <2>2, SpotRange
      <4>2. names[i].name = IF p >= 1 THEN ses.order[p] ELSE NoName
        BY DEF Ring
      <4>3. Spot(i, m, l + 1) = p /\ names'[i].name = names[i].name
        BY <2>5, <3>1, <3>3
      <4> HIDE DEF p, l
      <4>4. p >= 1 => o[p] = ses.order[p]
        BY <2>2, <2>3, <4>1
      <4> QED
        BY <4>2, <4>3, <4>4
    <3> QED
      BY <3>2, <3>3
  <2>8. \A i, j \in 0 .. Slots - 1 :
          names'[i].name = names'[j].name => i = j \/ names'[i].name = NoName
    BY <2>5, <2>6 DEF Ring
  <2>9. Len(ses'.order) = l + 1
    BY <2>3, <2>4
  <2> HIDE DEF l
  <2> QED
    BY <2>4, <2>7, <2>8, <2>9 DEF Ring
<1> QED
  BY <1>1, <1>6, <1>8, <1>9, <1>10

\* Every step keeps the ring.
LEMMA RingStep == Base /\ Ring /\ [Next]_vars => Ring'
<1> SUFFICES ASSUME Base, Ring, [Next]_vars PROVE Ring'
  OBVIOUS
<1>1. ses \in SesType /\ mode \in Cases
  BY DEF Base, Types
<1> DEFINE w == Wake(ses)
<1>2. w \in SesType /\ w.order = ses.order
  BY <1>1, WakeIs
<1> HIDE DEF w
<1>3. ASSUME UNCHANGED <<names, next>>, ses'.order = ses.order PROVE Ring'
  BY <1>3 DEF Ring
<1>4. ASSUME Handshake PROVE Ring'
  <2>1. PICK pc \in {"f", "destruct"} : ses' = [ses EXCEPT !.pc = pc, !.timeout = 1]
    BY <1>4 DEF Handshake
  <2>2. UNCHANGED <<names, next>>
    BY <1>4 DEF Handshake
  <2>3. ses'.order = ses.order
    BY <1>1, <2>1 DEF SesType
  <2> QED
    BY <1>3, <2>2, <2>3
<1>5. ASSUME FwdF PROVE Ring'
  <2>1. UNCHANGED <<names, next>>
    BY <1>5, FwdFGives
  <2>2. ses'.order = ses.order
    <3>1. CASE Send
      <4>1. \/ \E x, y : ses' = [ses EXCEPT !.pc = "send", !.batch = x, !.sent = y,
                                            !.task = "WAITING"]
            \/ \E x : ses' = [ses EXCEPT !.pc = "b", !.batch = 0, !.sent = 0, !.expired = FALSE,
                                         !.f = x]
        BY <3>1 DEF Send
      <4> QED
        BY <1>1, <4>1 DEF SesType
    <3>2. CASE ses' = [ses EXCEPT !.pc = "destruct"]
      BY <1>1, <3>2 DEF SesType
    <3>3. CASE ses' = [ses EXCEPT !.pc = "b", !.f = IF @ < 0 THEN @ ELSE 0]
      BY <1>1, <3>3 DEF SesType
    <3> QED
      BY <1>5, <3>1, <3>2, <3>3, FwdFGives
  <2> QED
    BY <1>3, <2>1, <2>2
<1>6. ASSUME FwdB PROVE Ring'
  <2>1. PICK b \in -1 .. 1 : ses' = Decide([ses EXCEPT !.b = b])
    BY <1>6, FwdBGives
  <2>2. UNCHANGED <<names, next>>
    BY <1>6, FwdBGives
  <2> DEFINE s == [ses EXCEPT !.b = b]
  <2>3. s \in SesType /\ s.order = ses.order
    BY <1>1 DEF SesType
  <2> HIDE DEF s
  <2>4. ses' = Decide(s)
    BY <2>1 DEF s
  <2>5. ses'.order = ses.order
    BY <1>1, <2>3, <2>4, DecideIs
  <2> QED
    BY <1>3, <2>2, <2>5
<1>7. ASSUME Destruct PROVE Ring'
  <2>1. names' = NoNames /\ next' = 0 /\ ses' = [Fresh EXCEPT !.pc = "none"]
    BY <1>7 DEF Destruct
  <2>2. ses'.order = <<>>
    BY <2>1 DEF Fresh
  <2>3. Len(ses'.order) = 0
    BY <2>2
  <2>4. \A i \in 0 .. Slots - 1 : names'[i].name = NoName
    BY <2>1 DEF NoNames, Empty
  <2>5. \A i \in 0 .. Slots - 1 : ~(Spot(i, 0, 0) >= 1)
    BY UdpFacts DEF Spot
  <2> QED
    BY <2>1, <2>3, <2>4, <2>5 DEF Ring
<1>8. ASSUME IoPoll \/ Expire \/ Terminate PROVE Ring'
  <2>1. UNCHANGED <<names, next>>
    BY <1>8 DEF IoPoll, Expire, Terminate
  <2>2. \/ ses' = w \/ ses' = [w EXCEPT !.expired = TRUE] \/ ses' = [w EXCEPT !.timeout = 0]
    BY <1>8 DEF IoPoll, Expire, Terminate, w
  <2>3. ses'.order = ses.order
    BY <1>2, <2>2 DEF SesType
  <2> QED
    BY <1>3, <2>1, <2>3
<1>9. ASSUME AppAsk \/ OtherApps \/ ProxyRead \/ ProxyReply \/ ProxyClose \/ UNCHANGED vars PROVE Ring'
  <2>1. UNCHANGED <<names, next, ses>>
    BY <1>9 DEF AppAsk, OtherApps, ProxyRead, ProxyReply, ProxyClose, vars, udpVars, sesVars
  <2> QED
    BY <1>3, <2>1
<1> QED
  BY <1>4, <1>5, <1>6, <1>7, <1>8, <1>9, LearnRing DEF Next, TaskStep

\* The slots are empty at the beginning.
LEMMA RingInit == Init => Ring
<1> SUFFICES ASSUME Init PROVE Ring
  OBVIOUS
<1>1. names = NoNames /\ next = 0 /\ ses = [Fresh EXCEPT !.pc = "none"]
  BY DEF Init
<1>2. ses.order = <<>>
  BY <1>1 DEF Fresh
<1>3. Len(ses.order) = 0
  BY <1>2
<1>4. \A i \in 0 .. Slots - 1 : names[i].name = NoName
  BY <1>1 DEF NoNames, Empty
<1>5. \A i \in 0 .. Slots - 1 : ~(Spot(i, 0, 0) >= 1)
  BY UdpFacts DEF Spot
<1> QED
  BY <1>1, <1>3, <1>4, <1>5 DEF Ring

\* The names in the slots are those learned last, each once.
LEMMA RingMeans == Base /\ Ring => NamesKept
<1> SUFFICES ASSUME Base, Ring PROVE NamesKept
  OBVIOUS
<1> DEFINE o == ses.order
           l == Len(o)
           newest == {o[i] : i \in {j \in DOMAIN o : l - j < Slots}}
           held == {names[i].name : i \in DOMAIN names} \ {NoName}
<1>1. /\ DOMAIN names = 0 .. Slots - 1 /\ next \in 0 .. Slots - 1 /\ NoName \notin Names
      /\ o \in Seq(Names)
  BY UdpFacts DEF Base, Types, SesType
<1>2. l \in Nat /\ DOMAIN o = 1 .. l /\ \A i \in 1 .. l : o[i] \in Names
  BY <1>1, LenIs
<1>3. \A i \in 0 .. Slots - 1 :
        names[i].name = IF Spot(i, next, l) >= 1 THEN o[Spot(i, next, l)] ELSE NoName
  BY DEF Ring
<1>4. NamesKept <=> held = newest /\ \A n \in newest : Cardinality(SlotOf(n)) = 1
  BY DEF NamesKept
<1> HIDE DEF o, l
<1>5. /\ \A i \in 0 .. Slots - 1 : /\ Spot(i, next, l) \in Int /\ Spot(i, next, l) <= l
                                   /\ l - Spot(i, next, l) < Slots
      /\ \A p \in 1 .. l : l - p < Slots => \E i \in 0 .. Slots - 1 : Spot(i, next, l) = p
  BY <1>1, <1>2, SpotRange
<1>6. ASSUME NEW n \in held PROVE n \in newest
  <2>1. PICK i \in 0 .. Slots - 1 : names[i].name = n /\ n # NoName
    BY <1>1
  <2> DEFINE p == Spot(i, next, l)
  <2>2. p >= 1 /\ n = o[p] /\ p \in Int /\ p <= l /\ l - p < Slots
    BY <1>3, <1>5, <2>1
  <2> HIDE DEF p
  <2>3. p \in DOMAIN o
    BY <1>2, <2>2
  <2> QED
    BY <2>2, <2>3
<1>7. ASSUME NEW n \in newest PROVE n \in Names /\ \E i \in 0 .. Slots - 1 : names[i].name = n
  <2>1. PICK p \in 1 .. l : l - p < Slots /\ n = o[p]
    BY <1>2
  <2>2. PICK i \in 0 .. Slots - 1 : Spot(i, next, l) = p
    BY <1>5, <2>1
  <2>3. names[i].name = o[p]
    BY <1>2, <1>3, <2>2
  <2> QED
    BY <1>2, <2>1, <2>3
<1>8. held = newest
  <2>1. \A n \in newest : n \in held
    BY <1>1, <1>7
  <2> QED
    BY <1>6, <2>1
<1>9. ASSUME NEW n \in newest PROVE Cardinality(SlotOf(n)) = 1
  <2>1. PICK i \in 0 .. Slots - 1 : names[i].name = n /\ n # NoName
    BY <1>1, <1>7
  <2>2. SlotOf(n) = {i}
    BY <1>1, <2>1 DEF SlotOf, Ring
  <2> QED
    BY <2>2, FS_Singleton
<1> QED
  BY <1>4, <1>8, <1>9

\* The values of TypeOK.
LEMMA BaseMeans == Base => TypeOK
<1> SUFFICES ASSUME Base PROVE TypeOK
  OBVIOUS
<1>1. MapTypeOK /\ Types /\ Limits
  BY DEF Base, MapInv
<1>2. ses \in SesType /\ frames \in Seq(Frame) /\ mode \in Cases /\ next \in 0 .. Slots - 1
  BY <1>1 DEF Types
<1>3. Len(frames) \in Nat /\ Num \in Nat
  BY <1>2, LenIs, UdpFacts
<1>4. /\ ses.pc \in Pcs /\ ses.task \in {"RUNNING", "WAITING"} /\ ses.f \in -1 .. 1
      /\ ses.b \in -1 .. 1 /\ ses.sent \in Nat /\ ses.batch \in Nat
  BY <1>2 DEF SesType
<1>5. ses.sent \in 0 .. ses.batch /\ ses.batch \in 0 .. Least(Num, Len(frames))
  BY <1>1, <1>3, <1>4 DEF Limits, Least
<1> QED
  BY <1>1, <1>2, <1>4, <1>5 DEF TypeOK, Limits, Pcs

(* A reply the app gets bears an address and a port the app has used for   *)
(* that very peer, the names learned last are known, each once, for any    *)
(* number of slots, and a batch, the list and the carrier stay within      *)
(* their limits (name_map_learn, name_map_lookup, fwd_b).                  *)
THEOREM PeersAreKept == Spec => []PeersHold
<1>1. Init => Base /\ InOrder /\ Heard /\ Ring
  BY BaseInit, OrderInit, HeardInit, RingInit
<1>2. Base /\ InOrder /\ Heard /\ Ring /\ [Next]_vars => (Base /\ InOrder /\ Heard /\ Ring)'
  BY BaseStep, OrderStep, HeardStep, RingStep
<1>3. Heard => RightPeer
  BY DEF Heard, FromPeer, RightPeer
<1>4. Base /\ InOrder /\ Heard /\ Ring => PeersHold
  BY <1>3, BaseMeans, RingMeans DEF PeersHold
<1> QED
  BY <1>1, <1>2, <1>4, PTL DEF Spec
=============================================================================
