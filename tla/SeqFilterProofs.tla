--------------------------- MODULE SeqFilterProofs ---------------------------
(***************************************************************************)
(* What Strip computes, for every sequence.  The inductions are written as *)
(* a search for the least counterexample: the natural numbers are well     *)
(* founded, and a set of counterexamples needs no operator parameter.      *)
(***************************************************************************)
EXTENDS SeqFilter, SequenceTheorems, WellFoundedInduction, TLAPS

\* A set of natural numbers with 0 and every successor has all of them.
LEMMA NatSetInduction ==
  ASSUME NEW S, 0 \in S, \A n \in Nat : n \in S => n + 1 \in S
  PROVE  Nat \subseteq S
<1> SUFFICES ASSUME Nat \ S # {} PROVE FALSE
  OBVIOUS
<1> DEFINE less == {ss \in Nat \X Nat : ss[1] < ss[2]}
<1>1. IsWellFoundedOn(less, Nat)
  BY NatLessThanWellFounded DEF OpToRel
<1>2. PICK x \in Nat \ S : \A y \in Nat \ S : <<y, x>> \notin less
  <2> HIDE DEF less
  <2> QED
    BY <1>1, WFMin
<1>3. \A y \in Nat \ S : ~(y < x)
  BY <1>2
<1>4. x # 0 /\ x - 1 \in Nat
  OBVIOUS
<1> QED
  BY <1>3, <1>4

\* A set with the empty sequence and, with a sequence, every longer one by an
\* element, has all sequences.
LEMMA SeqSetInduction ==
  ASSUME NEW T, NEW P, << >> \in P, \A s \in Seq(T), e \in T : s \in P => Append(s, e) \in P
  PROVE  Seq(T) \subseteq P
<1> DEFINE N == {n \in Nat : \A s \in Seq(T) : Len(s) = n => s \in P}
<1>1. 0 \in N
  BY EmptySeq
<1>2. ASSUME NEW n \in Nat, n \in N PROVE n + 1 \in N
  <2> SUFFICES ASSUME NEW s \in Seq(T), Len(s) = n + 1 PROVE s \in P
    OBVIOUS
  <2>1. s # << >>
    BY EmptySeq
  <2>2. PICK r \in Seq(T), e \in T : s = Append(r, e)
    BY <2>1, SequenceEmptyOrAppend
  <2>3. Len(r) = n
    BY <2>2, AppendProperties, LenProperties
  <2> QED
    BY <1>2, <2>2, <2>3
<1>3. Nat \subseteq N
  <2> HIDE DEF N
  <2> QED
    BY <1>1, <1>2, NatSetInduction
<1> QED
  BY <1>3, LenProperties

-----------------------------------------------------------------------------
\* k is the recursive function in the definition of Strip, as far as n.
Keeps(k, seq, S, n) ==
  k = [i \in 0 .. n |-> IF i = 0 THEN << >>
                        ELSE IF seq[i] \in S THEN k[i - 1] ELSE Append(k[i - 1], seq[i])]

\* One step of the recursion behind Strip.
LEMMA KeepsStep ==
  ASSUME NEW seq, NEW S, NEW n \in Nat, NEW k, Keeps(k, seq, S, n), NEW i \in 0 .. n - 1
  PROVE  k[i + 1] = IF seq[i + 1] \in S THEN k[i] ELSE Append(k[i], seq[i + 1])
<1> DEFINE j == i + 1
<1>1. j \in 0 .. n /\ j # 0 /\ j - 1 = i
  OBVIOUS
<1>2. k[j] = IF seq[j] \in S THEN k[j - 1] ELSE Append(k[j - 1], seq[j])
  <2> HIDE DEF j
  <2> QED
    BY <1>1 DEF Keeps
<1> QED
  BY <1>1, <1>2

\* There is such a function, ...
LEMMA KeepsExists ==
  ASSUME NEW seq, NEW S, NEW n \in Nat
  PROVE  \E k : Keeps(k, seq, S, n)
<1> DEFINE N == {m \in Nat : \E k : Keeps(k, seq, S, m)}
<1>1. 0 \in N
  <2>1. Keeps([i \in 0 .. 0 |-> << >>], seq, S, 0)
    BY DEF Keeps
  <2> QED
    BY <2>1
<1>2. ASSUME NEW m \in Nat, m \in N PROVE m + 1 \in N
  <2>1. PICK k : Keeps(k, seq, S, m)
    BY <1>2
  <2> DEFINE next == IF seq[m + 1] \in S THEN k[m] ELSE Append(k[m], seq[m + 1])
             longer == [i \in 0 .. m + 1 |-> IF i <= m THEN k[i] ELSE next]
  <2>2. ASSUME NEW i \in 0 .. m + 1
        PROVE  longer[i] = IF i = 0 THEN << >>
                           ELSE IF seq[i] \in S THEN longer[i - 1]
                                ELSE Append(longer[i - 1], seq[i])
    <3>1. CASE i = m + 1
      <4>1. longer[i - 1] = k[m]
        BY <3>1
      <4> QED
        BY <3>1, <4>1
    <3>2. CASE i \in 0 .. m
      <4>1. longer[i] = k[i] /\ (i # 0 => longer[i - 1] = k[i - 1])
        BY <3>2
      <4> QED
        BY <2>1, <3>2, <4>1 DEF Keeps
    <3> QED
      BY <3>1, <3>2
  <2>3. Keeps(longer, seq, S, m + 1)
    BY <2>2 DEF Keeps
  <2> QED
    BY <2>3
<1>3. Nat \subseteq N
  <2> HIDE DEF N
  <2> QED
    BY <1>1, <1>2, NatSetInduction
<1> QED
  BY <1>3

\* ... only one, ...
LEMMA KeepsUnique ==
  ASSUME NEW s, NEW t, NEW S, NEW n \in Nat, NEW m \in Nat, n <= m, NEW k, NEW l,
         Keeps(k, s, S, n), Keeps(l, t, S, m), \A i \in 1 .. n : s[i] = t[i]
  PROVE  k[n] = l[n]
<1> DEFINE N == {i \in Nat : i <= n => k[i] = l[i]}
<1>0. \A i \in 0 .. n - 1 : k[i + 1] = IF s[i + 1] \in S THEN k[i] ELSE Append(k[i], s[i + 1])
  <2> HIDE DEF N
  <2> QED
    BY KeepsStep
<1>1. 0 \in N
  BY DEF Keeps
<1>2. ASSUME NEW i \in Nat, i \in N PROVE i + 1 \in N
  <2> SUFFICES ASSUME i + 1 <= n PROVE k[i + 1] = l[i + 1]
    OBVIOUS
  <2>1. k[i] = l[i] /\ s[i + 1] = t[i + 1] /\ i \in 0 .. n - 1 /\ i \in 0 .. m - 1
    BY <1>2
  <2>2. k[i + 1] = IF s[i + 1] \in S THEN k[i] ELSE Append(k[i], s[i + 1])
    BY <1>0, <2>1
  <2>3. l[i + 1] = IF t[i + 1] \in S THEN l[i] ELSE Append(l[i], t[i + 1])
    BY <2>1, KeepsStep
  <2> QED
    BY <2>1, <2>2, <2>3
<1>3. Nat \subseteq N
  <2> HIDE DEF N
  <2> QED
    BY <1>1, <1>2, NatSetInduction
<1> QED
  BY <1>3

\* ... and Strip is its last value.
LEMMA StripKeeps ==
  ASSUME NEW seq, NEW S, Len(seq) \in Nat
  PROVE  \E k : Keeps(k, seq, S, Len(seq)) /\ Strip(seq, S) = k[Len(seq)]
<1> DEFINE c == CHOOSE k : Keeps(k, seq, S, Len(seq))
<1>1. Keeps(c, seq, S, Len(seq))
  BY KeepsExists
<1>2. Strip(seq, S) = c[Len(seq)]
  BY DEF Strip, Keeps
<1> QED
  BY <1>1, <1>2

-----------------------------------------------------------------------------
\* Nothing is left of nothing.
LEMMA StripEmpty ==
  ASSUME NEW S
  PROVE  Strip(<< >>, S) = << >>
<1>1. PICK k : Keeps(k, << >>, S, 0) /\ Strip(<< >>, S) = k[0]
  BY StripKeeps
<1> QED
  BY <1>1 DEF Keeps

\* What Strip makes of a sequence with one more element.
LEMMA StripAppend ==
  ASSUME NEW T, NEW s \in Seq(T), NEW e \in T, NEW S
  PROVE  Strip(Append(s, e), S) = IF e \in S THEN Strip(s, S) ELSE Append(Strip(s, S), e)
<1> DEFINE t == Append(s, e)
<1>1. /\ t \in Seq(T) /\ Len(s) \in Nat /\ Len(t) = Len(s) + 1
      /\ \A i \in 1 .. Len(s) : t[i] = s[i]
      /\ t[Len(s) + 1] = e
  BY AppendProperties, LenProperties
<1> HIDE DEF t
<1>2. PICK k : Keeps(k, s, S, Len(s)) /\ Strip(s, S) = k[Len(s)]
  BY <1>1, StripKeeps
<1>3. PICK l : Keeps(l, t, S, Len(s) + 1) /\ Strip(t, S) = l[Len(s) + 1]
  BY <1>1, StripKeeps
<1>4. k[Len(s)] = l[Len(s)]
  BY <1>1, <1>2, <1>3, KeepsUnique
<1>5. l[Len(s) + 1] = IF t[Len(s) + 1] \in S THEN l[Len(s)] ELSE Append(l[Len(s)], t[Len(s) + 1])
  BY <1>1, <1>3, KeepsStep
<1> QED
  BY <1>1, <1>2, <1>3, <1>4, <1>5 DEF t

\* The result is a sequence of what is not in the set, and no longer.
LEMMA StripType ==
  ASSUME NEW T, NEW S, NEW s \in Seq(T)
  PROVE  Strip(s, S) \in Seq(T \ S) /\ Strip(s, S) \in Seq(T) /\ Len(Strip(s, S)) <= Len(s)
<1> DEFINE P == {r \in Seq(T) : Strip(r, S) \in Seq(T \ S) /\ Len(Strip(r, S)) <= Len(r)}
<1>1. << >> \in P
  <2>1. Strip(<< >>, S) = << >> /\ << >> \in Seq(T) /\ << >> \in Seq(T \ S)
    BY StripEmpty, EmptySeq
  <2>2. Len(Strip(<< >>, S)) <= Len(<< >>)
    BY <2>1
  <2> QED
    BY <2>1, <2>2
<1>2. ASSUME NEW r \in Seq(T), NEW e \in T, r \in P PROVE Append(r, e) \in P
  <2>1. Append(r, e) \in Seq(T) /\ Len(Append(r, e)) = Len(r) + 1 /\ Len(r) \in Nat
    BY AppendProperties, LenProperties
  <2>2. CASE e \in S
    BY <1>2, <2>1, <2>2, StripAppend, LenProperties
  <2>3. CASE e \notin S
    <3>1. Strip(Append(r, e), S) = Append(Strip(r, S), e)
      BY <2>3, StripAppend
    <3>2. Append(Strip(r, S), e) \in Seq(T \ S) /\ Len(Append(Strip(r, S), e)) = Len(Strip(r, S)) + 1
      BY <1>2, <2>3, AppendProperties
    <3>3. Len(Strip(r, S)) \in Nat /\ Len(Strip(r, S)) <= Len(r)
      BY <1>2, LenProperties
    <3>4. Len(Append(Strip(r, S), e)) <= Len(Append(r, e))
      BY <2>1, <3>2, <3>3
    <3> QED
      BY <2>1, <3>1, <3>2, <3>4
  <2> QED
    BY <2>2, <2>3
<1>3. Seq(T) \subseteq P
  <2> HIDE DEF P
  <2> QED
    BY <1>1, <1>2, SeqSetInduction
<1> QED
  BY <1>3, SeqMonotonic

\* Strip distributes over concatenation.
LEMMA StripConcat ==
  ASSUME NEW T, NEW S, NEW s \in Seq(T), NEW t \in Seq(T)
  PROVE  Strip(s \o t, S) = Strip(s, S) \o Strip(t, S)
<1> DEFINE P == {r \in Seq(T) : Strip(s \o r, S) = Strip(s, S) \o Strip(r, S)}
<1>0. Strip(s, S) \in Seq(T)
  BY StripType
<1>1. << >> \in P
  BY <1>0, StripEmpty, EmptySeq, ConcatEmptySeq
<1>2. ASSUME NEW r \in Seq(T), NEW e \in T, r \in P PROVE Append(r, e) \in P
  <2>1. Append(r, e) = r \o <<e>> /\ Append(r, e) \in Seq(T) /\ <<e>> \in Seq(T)
    BY AppendIsConcat, AppendProperties
  <2>2. s \o r \in Seq(T) /\ Strip(r, S) \in Seq(T)
    BY ConcatProperties, StripType
  <2>3. s \o Append(r, e) = Append(s \o r, e)
    BY <2>1, <2>2, ConcatAssociative, AppendIsConcat
  <2>0. Strip(s \o r, S) = Strip(s, S) \o Strip(r, S)
    BY <1>2
  <2>6. Strip(Append(s \o r, e), S) =
          IF e \in S THEN Strip(s \o r, S) ELSE Append(Strip(s \o r, S), e)
    BY <2>2, StripAppend, ZenonT(60)
  <2>4. CASE e \in S
    <3>1. Strip(Append(r, e), S) = Strip(r, S)
      BY <2>4, StripAppend
    <3> QED
      BY <2>0, <2>1, <2>3, <2>4, <2>6, <3>1
  <2>5. CASE e \notin S
    <3>1. Strip(s \o Append(r, e), S) = Append(Strip(s, S) \o Strip(r, S), e)
      BY <2>0, <2>3, <2>5, <2>6
    <3>2. Strip(Append(r, e), S) = Append(Strip(r, S), e)
      BY <2>5, StripAppend
    <3>3. Strip(s, S) \o Append(Strip(r, S), e) = Append(Strip(s, S) \o Strip(r, S), e)
      <4>1. Append(Strip(r, S), e) = Strip(r, S) \o <<e>>
        BY <2>2, AppendIsConcat
      <4>2. Strip(s, S) \o Strip(r, S) \in Seq(T)
        BY <1>0, <2>2, ConcatProperties
      <4>3. Append(Strip(s, S) \o Strip(r, S), e) = (Strip(s, S) \o Strip(r, S)) \o <<e>>
        BY <4>2, AppendIsConcat
      <4> QED
        BY <1>0, <2>1, <2>2, <4>1, <4>3, ConcatAssociative, SMTT(60)
    <3> QED
      BY <2>1, <3>1, <3>2, <3>3
  <2> QED
    BY <2>4, <2>5
<1>3. Seq(T) \subseteq P
  <2> HIDE DEF P
  <2> QED
    BY <1>1, <1>2, SeqSetInduction
<1> QED
  BY <1>3

\* Nothing is left exactly of a sequence that lies in the set.
LEMMA StripNothing ==
  ASSUME NEW T, NEW S, NEW s \in Seq(T)
  PROVE  Strip(s, S) = << >> <=> \A i \in 1 .. Len(s) : s[i] \in S
<1> DEFINE P == {r \in Seq(T) : Strip(r, S) = << >> <=> \A i \in 1 .. Len(r) : r[i] \in S}
<1>1. << >> \in P
  BY StripEmpty, EmptySeq
<1>2. ASSUME NEW r \in Seq(T), NEW e \in T, r \in P PROVE Append(r, e) \in P
  <2> DEFINE q == Append(r, e)
  <2>1. /\ q \in Seq(T) /\ Len(q) = Len(r) + 1 /\ Len(r) \in Nat
        /\ \A i \in 1 .. Len(r) : q[i] = r[i]
        /\ q[Len(r) + 1] = e
    BY AppendProperties, LenProperties
  <2> HIDE DEF q
  <2>2. (\A i \in 1 .. Len(q) : q[i] \in S) <=> e \in S /\ \A i \in 1 .. Len(r) : r[i] \in S
    <3>1. \A i \in 1 .. Len(q) : i \in 1 .. Len(r) \/ i = Len(r) + 1
      BY <2>1
    <3>2. Len(r) + 1 \in 1 .. Len(q) /\ 1 .. Len(r) \subseteq 1 .. Len(q)
      BY <2>1
    <3> QED
      BY <2>1, <3>1, <3>2
  <2>3. Strip(q, S) = IF e \in S THEN Strip(r, S) ELSE Append(Strip(r, S), e)
    BY StripAppend DEF q
  <2>4. e \notin S => Append(Strip(r, S), e) # << >>
    BY StripType, AppendProperties
  <2>5. q \in P
    BY <1>2, <2>1, <2>2, <2>3, <2>4
  <2> QED
    BY <2>5 DEF q
<1>3. Seq(T) \subseteq P
  <2> HIDE DEF P
  <2> QED
    BY <1>1, <1>2, SeqSetInduction
<1> QED
  BY <1>3

\* What has nothing to strip stays as it is.
LEMMA StripAll ==
  ASSUME NEW T, NEW S, NEW s \in Seq(T), \A i \in 1 .. Len(s) : s[i] \notin S
  PROVE  Strip(s, S) = s
<1> DEFINE P == {r \in Seq(T) : (\A i \in 1 .. Len(r) : r[i] \notin S) => Strip(r, S) = r}
<1>1. << >> \in P
  BY StripEmpty, EmptySeq
<1>2. ASSUME NEW r \in Seq(T), NEW e \in T, r \in P PROVE Append(r, e) \in P
  <2> DEFINE q == Append(r, e)
  <2>1. /\ q \in Seq(T) /\ Len(q) = Len(r) + 1 /\ Len(r) \in Nat
        /\ \A i \in 1 .. Len(r) : q[i] = r[i]
        /\ q[Len(r) + 1] = e
    BY AppendProperties, LenProperties
  <2>2. Strip(q, S) = IF e \in S THEN Strip(r, S) ELSE Append(Strip(r, S), e)
    BY StripAppend
  <2> SUFFICES ASSUME \A i \in 1 .. Len(q) : q[i] \notin S PROVE Strip(q, S) = q
    BY <2>1
  <2> HIDE DEF q
  <2>3. Len(r) + 1 \in 1 .. Len(q) /\ \A i \in 1 .. Len(r) : i \in 1 .. Len(q)
    BY <2>1
  <2>4. e \notin S /\ \A i \in 1 .. Len(r) : r[i] \notin S
    BY <2>1, <2>3
  <2>5. Strip(r, S) = r
    BY <1>2, <2>4
  <2> QED
    BY <2>2, <2>4, <2>5 DEF q
<1> HIDE DEF P
<1>3. Seq(T) \subseteq P
  BY <1>1, <1>2, SeqSetInduction
<1> QED
  BY <1>3 DEF P

\* What Strip makes of the first element.
LEMMA StripHead ==
  ASSUME NEW T, NEW S, NEW s \in Seq(T), s # << >>
  PROVE  Strip(s, S) = IF Head(s) \in S THEN Strip(Tail(s), S)
                       ELSE <<Head(s)>> \o Strip(Tail(s), S)
<1>1. Head(s) \in T /\ Tail(s) \in Seq(T) /\ s = <<Head(s)>> \o Tail(s)
  BY HeadTailProperties, ConcatProperties
<1> DEFINE h == Head(s)
           t == Tail(s)
           o == <<h>>
<1>2. o \in Seq(T) /\ o = Append(<< >>, h) /\ << >> \in Seq(T)
  BY <1>1
<1>3. Strip(o, S) = IF h \in S THEN << >> ELSE o
  <2>1. Strip(Append(<< >>, h), S) = IF h \in S THEN Strip(<< >>, S) ELSE Append(Strip(<< >>, S), h)
    <3>1. h \in T /\ << >> \in Seq(T)
      BY <1>1
    <3> HIDE DEF h, o, t
    <3> QED
      BY <3>1, StripAppend
  <2> QED
    BY <1>2, <2>1, StripEmpty
<1>4. s = o \o t /\ t \in Seq(T)
  BY <1>1
<1> HIDE DEF o, t, h
<1>5. Strip(o \o t, S) = Strip(o, S) \o Strip(t, S) /\ Strip(t, S) \in Seq(T)
  <2>1. o \in Seq(T)
    BY <1>2
  <2>2. t \in Seq(T)
    BY <1>4
  <2>3. Strip(o \o t, S) = Strip(o, S) \o Strip(t, S)
    BY <2>1, <2>2, StripConcat
  <2>4. Strip(t, S) \in Seq(T)
    BY <2>2, StripType
  <2> QED
    BY <2>3, <2>4
<1>6. << >> \o Strip(t, S) = Strip(t, S)
  BY <1>5, ConcatEmptySeq
<1> QED
  BY <1>3, <1>4, <1>5, <1>6 DEF o, t, h
=============================================================================
