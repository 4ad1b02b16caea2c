-------------------------- MODULE SocksBridgeProofs --------------------------
(***************************************************************************)
(* Proofs about the SOCKS bridge: for any connections, scripts and buffer  *)
(* sizes no byte is lost or reordered, FIN follows the last byte, the      *)
(* interest sets are exact and so are the counters; and for any limits the *)
(* reaper keeps no connection beyond them.                                 *)
(*                                                                         *)
(* Everything that matters about one connection is an invariant Sound of   *)
(* its record that does not mention the state of its keys.  Every channel  *)
(* operation and every handshake step preserves it; what updateInterest    *)
(* adds at the end of a step is Settled.                                   *)
(***************************************************************************)
EXTENDS SocksBridge, ConnReaper, SeqFilterProofs, FiniteSetTheorems

\* (The provers do not know that "ok" is a string.)
Token == STRING \cup Control
Tokens == Seq(Token)
Phases == ClientPhases \cup RemotePhases \cup {"connecting", "relay"}

\* The records a connection may be.
Connections ==
    [state : {"new", "open", "closed"}, phase : Phases, hs : Tokens, early : Tokens,
     toRemote : Tokens, toClient : Tokens, clientEof : BOOLEAN, remoteEof : BOOLEAN,
     closeAfterFlush : BOOLEAN, half : BOOLEAN,
     remote : {"none", "connecting", "open", "failed"},
     ck : SUBSET {"read", "write"}, rk : SUBSET {"read", "write", "connect"},
     sent : Tokens, replies : Tokens,
     cIn : Tokens, cTodo : Tokens, cGot : Tokens, cShut : BOOLEAN,
     rIn : Tokens, rTodo : Tokens, rGot : Tokens, rShut : BOOLEAN]

\* How the phase, the upstream channel and the flags go together.
Shape(x) ==
    /\ x.phase \in ClientPhases /\ ~x.closeAfterFlush => x.remote = "none"
    /\ x.closeAfterFlush => x.phase \in ClientPhases /\ x.remote = "none"
    /\ x.phase = "connecting" => x.remote = "connecting"
    /\ x.phase \in RemotePhases => x.remote \in {"open", "failed"}
    /\ x.phase = "relay" => x.remote = "open"
    /\ x.phase # "relay" => ~x.clientEof /\ ~x.remoteEof /\ ~x.cShut /\ ~x.rShut

\* The direction from the client to the server ...
Up(x) ==
    /\ EndsAtFin(x.cIn \o x.cTodo)
    /\ DataAfter(x.rGot \o x.toRemote, "uc")
    /\ x.phase \in {"upCommand", "relay"} => "uc" \in Elements(x.rGot \o x.toRemote)
    /\ x.phase \in ClientPhases \cup {"connecting"} /\ ~x.closeAfterFlush => x.toRemote = << >>
    /\ x.phase \in ClientPhases \cup {"relay"} /\ ~x.closeAfterFlush => x.early = << >>
    /\ x.clientEof => x.cIn = <<"FIN">> /\ x.cTodo = << >>
    /\ x.rShut => x.clientEof /\ x.toRemote = << >>
    /\ ~x.closeAfterFlush => Data(UpStream(x)) = Data(x.sent)

\* ... and back.
Down(x) ==
    /\ EndsAtFin(x.rIn \o x.rTodo)
    /\ DataAfter(x.cGot \o x.toClient, "ok")
    /\ x.phase = "relay" => "ok" \in Elements(x.cGot \o x.toClient)
    /\ x.remoteEof => x.rIn = <<"FIN">> /\ x.rTodo = << >>
    /\ x.cShut => x.remoteEof /\ x.toClient = << >>
    /\ ~x.closeAfterFlush => Data(DownStream(x)) = Data(x.replies)

Sound(x) == x \in Connections /\ Shape(x) /\ Up(x) /\ Down(x)

\* What a step leaves behind.
Settled(x) ==
    /\ x.remote # "failed"
    /\ x.state = "new" => x = New(x.sent, x.replies)
    /\ x.state = "closed" => x.rk = {}
    /\ x.closeAfterFlush => x.rk = {}
    /\ x.state = "open" /\ ~x.closeAfterFlush => x.ck = ClientKey(x) /\ x.rk = RemoteKey(x)
    /\ x.state = "open" /\ x.phase = "relay" => ~RelayDone(x)

Counted ==
    /\ running \in BOOLEAN
    /\ IsFiniteSet(Open)
    /\ active = Cardinality(Open) /\ active <= MaxActive
    /\ halfClosed = Cardinality({c \in Open : conn[c].half})
    /\ ~running => Open = {}

\* The inductive invariant.
BridgeInv ==
    /\ DOMAIN conn = Ids
    /\ \A c \in Ids : Sound(conn[c]) /\ Settled(conn[c])
    /\ Counted

-----------------------------------------------------------------------------
(***************************************************************************)
(* Sequences of tokens.                                                    *)
(***************************************************************************)
LEMMA TokenLen ==
  ASSUME NEW s \in Tokens
  PROVE  Len(s) \in Nat /\ DOMAIN s = 1 .. Len(s) /\ \A i \in 1 .. Len(s) : s[i] \in Token
BY LenProperties DEF Tokens

\* Tokens are closed under concatenation.
LEMMA ConcatType ==
  ASSUME NEW a \in Tokens, NEW b \in Tokens
  PROVE  a \o b \in Tokens
BY ConcatProperties DEF Tokens

\* Concatenation of tokens is associative.
LEMMA Assoc ==
  ASSUME NEW a \in Tokens, NEW b \in Tokens, NEW c \in Tokens
  PROVE  (a \o b) \o c = a \o (b \o c)
BY ConcatAssociative DEF Tokens

\* The empty sequence is a unit of concatenation.
LEMMA EmptyTokens ==
  /\ << >> \in Tokens
  /\ \A s \in Tokens : s \o << >> = s /\ << >> \o s = s
BY EmptySeq, ConcatEmptySeq DEF Tokens

\* A buffer is what a write takes of it followed by what it leaves.
LEMMA TakeDrop ==
  ASSUME NEW s \in Tokens, NEW n \in 0 .. Len(s)
  PROVE  /\ Take(s, n) \in Tokens /\ Drop(s, n) \in Tokens
         /\ Take(s, n) \o Drop(s, n) = s
         /\ Len(Drop(s, n)) = Len(s) - n
<1>1. Len(s) \in Nat /\ \A i \in 1 .. Len(s) : s[i] \in Token
  BY TokenLen
<1>2. Take(s, n) \in Tokens
  BY <1>1, SubSeqProperties DEF Take, Tokens
<1>3. Drop(s, n) \in Tokens /\ Len(Drop(s, n)) = Len(s) - n
  <2>1. \A i \in n + 1 .. Len(s) : s[i] \in Token
    BY <1>1
  <2> QED
    BY <1>1, <2>1, SubSeqProperties DEF Drop, Tokens
<1>4. Take(s, n) \o Drop(s, n) = SubSeq(s, 1, Len(s))
  <2>1. 1 \in 1 .. Len(s) + 1 /\ n \in 1 - 1 .. Len(s) /\ Len(s) \in n .. Len(s)
    BY <1>1
  <2>2. s \in Seq(Token)
    BY DEF Tokens
  <2>3. SubSeq(s, 1, n) \o SubSeq(s, n + 1, Len(s)) = SubSeq(s, 1, Len(s))
    BY <2>1, <2>2, ConcatAdjacentSubSeq, Zenon
  <2> QED
    BY <2>3 DEF Take, Drop
<1> QED
  BY <1>2, <1>3, <1>4, SubSeqFull DEF Tokens

\* The first n of b may go to the end of a, with r behind b or without it.
Shifts(a, b, r, n) ==
  /\ (a \o Take(b, n)) \o Drop(b, n) = a \o b
  /\ (a \o Take(b, n)) \o (Drop(b, n) \o r) = a \o (b \o r)

\* A prefix moves from one buffer to the end of the one before it.
LEMMA Shift ==
  ASSUME NEW a \in Tokens, NEW b \in Tokens, NEW r \in Tokens, NEW n \in 0 .. Len(b)
  PROVE  Shifts(a, b, r, n)
<1> DEFINE t == Take(b, n)
           d == Drop(b, n)
<1>1. t \in Tokens /\ d \in Tokens /\ t \o d = b
  BY TakeDrop
<1> HIDE DEF t, d
<1>2. (a \o t) \o d = a \o b
  BY <1>1, Assoc, ZenonT(60)
<1>3. d \o r \in Tokens /\ a \o t \in Tokens
  BY <1>1, ConcatType
<1>4. (a \o t) \o (d \o r) = ((a \o t) \o d) \o r
  <2> DEFINE u == a \o t
  <2>1. u \in Tokens
    BY <1>3
  <2> HIDE DEF u
  <2>2. (u \o d) \o r = u \o (d \o r)
    BY <1>1, <2>1, Assoc, ZenonT(60)
  <2> QED
    BY <2>2 DEF u
<1>5. (a \o b) \o r = a \o (b \o r)
  BY Assoc
<1>6. (a \o t) \o (d \o r) = a \o (b \o r)
  BY <1>2, <1>4, <1>5
<1> QED
  BY <1>2, <1>6 DEF Shifts, t, d

\* The data of two streams in a row is the data of the one, then of the other.
LEMMA DataConcat ==
  ASSUME NEW a \in Tokens, NEW b \in Tokens
  PROVE  Data(a \o b) = Data(a) \o Data(b)
BY StripConcat DEF Data, Tokens

\* The data of a stream is a stream.
LEMMA DataType ==
  ASSUME NEW a \in Tokens
  PROVE  Data(a) \in Tokens
BY StripType DEF Data, Tokens

\* An empty stream holds no data.
LEMMA DataEmpty == Data(<< >>) = << >>
BY StripEmpty DEF Data

\* A message of the protocol adds no data.
LEMMA DataAppend ==
  ASSUME NEW a \in Tokens, NEW e \in Control
  PROVE  Append(a, e) \in Tokens /\ Data(Append(a, e)) = Data(a)
BY StripAppend, AppendProperties DEF Data, Tokens, Token

\* An end of stream is no data.
LEMMA DataFin == <<"FIN">> \in Tokens /\ Data(<<"FIN">>) = << >>
<1>1. Append(<< >>, "FIN") = <<"FIN">>
  OBVIOUS
<1>2. "FIN" \in Control
  BY DEF Control
<1>3. << >> \in Tokens
  BY EmptyTokens
<1>4. Append(<< >>, "FIN") \in Tokens /\ Data(Append(<< >>, "FIN")) = Data(<< >>)
  BY <1>2, <1>3, DataAppend
<1> QED
  BY <1>1, <1>4, DataEmpty

\* A stream is its first token followed by the rest.
LEMMA TailType ==
  ASSUME NEW s \in Tokens, s # << >>
  PROVE  Tail(s) \in Tokens /\ s = <<Head(s)>> \o Tail(s) /\ <<Head(s)>> \in Tokens /\ Head(s) \in Token
<1>1. Len(s) \in Nat \ {0} /\ Tail(s) \in Tokens /\ Head(s) \in Token
  BY EmptySeq, HeadTailProperties DEF Tokens
<1>2. SubSeq(s, 1, Len(s)) = <<s[1]>> \o SubSeq(s, 2, Len(s))
  BY <1>1, SubSeqRecursiveFirst DEF Tokens
<1>3. SubSeq(s, 1, Len(s)) = s /\ SubSeq(s, 2, Len(s)) = Tail(s)
  BY SubSeqFull, TailIsSubSeq DEF Tokens
<1>4. s[1] = Head(s)
  BY <1>1
<1>5. <<Head(s)>> \in Tokens
  BY <1>1 DEF Tokens
<1> QED
  BY <1>1, <1>2, <1>3, <1>4, <1>5

\* A message that was understood leaves the data as it was.
LEMMA DataTail ==
  ASSUME NEW s \in Tokens, s # << >>, Head(s) \in Control
  PROVE  Data(Tail(s)) = Data(s)
<1>1. Tail(s) \in Tokens /\ s = <<Head(s)>> \o Tail(s) /\ <<Head(s)>> \in Tokens
  BY TailType
<1>2. Data(s) = Data(<<Head(s)>>) \o Data(Tail(s))
  BY <1>1, DataConcat
<1>3. Append(<< >>, Head(s)) = <<Head(s)>>
  OBVIOUS
<1>4. Data(<<Head(s)>>) = << >>
  BY <1>3, TailType, DataAppend, DataEmpty, EmptyTokens
<1> QED
  BY <1>1, <1>2, <1>4, DataType, EmptyTokens

\* The end of a stream that ends at FIN ends at FIN.
LEMMA EndsSuffix ==
  ASSUME NEW p \in Tokens, NEW q \in Tokens, EndsAtFin(p \o q)
  PROVE  EndsAtFin(q)
<1> SUFFICES ASSUME NEW i \in DOMAIN q, q[i] = "FIN" PROVE i = Len(q)
  BY DEF EndsAtFin
<1>1. Len(p) \in Nat /\ Len(q) \in Nat /\ DOMAIN q = 1 .. Len(q)
  BY TokenLen
<1>2. p \o q \in Tokens /\ Len(p \o q) = Len(p) + Len(q)
      /\ \A j \in 1 .. Len(p) + Len(q) : (p \o q)[j] = IF j <= Len(p) THEN p[j] ELSE q[j - Len(p)]
  BY ConcatProperties DEF Tokens
<1>3. DOMAIN (p \o q) = 1 .. Len(p) + Len(q)
  BY <1>2, TokenLen
<1>4. Len(p) + i \in 1 .. Len(p) + Len(q) /\ ~(Len(p) + i <= Len(p)) /\ (Len(p) + i) - Len(p) = i
  BY <1>1
<1>5. (p \o q)[Len(p) + i] = "FIN"
  BY <1>2, <1>4
<1>6. Len(p) + i = Len(p) + Len(q)
  BY <1>2, <1>3, <1>4, <1>5 DEF EndsAtFin
<1> QED
  BY <1>1, <1>6

\* A read that finds the end of the stream finds nothing else.
LEMMA EofIsAll ==
  ASSUME NEW a \in Tokens, NEW b \in Tokens, EndsAtFin(a \o b), AtEof(a)
  PROVE  a = <<"FIN">> /\ b = << >>
<1>1. Len(a) \in Nat /\ Len(b) \in Nat /\ a # << >> /\ a[1] = "FIN"
  BY TokenLen DEF AtEof
<1>2. Len(a) # 0
  BY <1>1, EmptySeq DEF Tokens
<1>3. a \o b \in Tokens /\ Len(a \o b) = Len(a) + Len(b)
      /\ \A j \in 1 .. Len(a) + Len(b) : (a \o b)[j] = IF j <= Len(a) THEN a[j] ELSE b[j - Len(a)]
  BY ConcatProperties DEF Tokens
<1>4. DOMAIN (a \o b) = 1 .. Len(a) + Len(b)
  BY <1>3, TokenLen
<1>5. 1 \in 1 .. Len(a) + Len(b) /\ (a \o b)[1] = "FIN"
  BY <1>1, <1>2, <1>3
<1>6. 1 = Len(a) + Len(b)
  BY <1>3, <1>4, <1>5 DEF EndsAtFin
<1>7. Len(a) = 1 /\ Len(b) = 0
  BY <1>1, <1>2, <1>6, SMTT(60)
<1>8. b = << >>
  BY <1>7, EmptySeq DEF Tokens
<1>9. a = <<"FIN">>
  BY <1>1, <1>7, DataFin, SeqEqual DEF Tokens
<1> QED
  BY <1>8, <1>9

\* What is in a stream is in every longer one.
LEMMA ElementsGrow ==
  ASSUME NEW s \in Tokens, NEW q \in Tokens, NEW t \in Elements(s)
  PROVE  t \in Elements(s \o q)
<1>1. PICK i \in 1 .. Len(s) : t = s[i]
  BY TokenLen DEF Elements
<1>2. Len(s) \in Nat /\ Len(q) \in Nat /\ i \in 1 .. Len(s) + Len(q)
  BY TokenLen
<1>3. s \o q \in Tokens /\ Len(s \o q) = Len(s) + Len(q) /\ (s \o q)[i] = s[i]
  BY <1>2, ConcatProperties DEF Tokens
<1>4. i \in DOMAIN (s \o q)
  BY <1>2, <1>3, TokenLen
<1> QED
  BY <1>1, <1>3, <1>4 DEF Elements

\* What is in the front of a stream is at one of its places.
LEMMA TakeElements ==
  ASSUME NEW s \in Tokens, NEW n \in 0 .. Len(s), NEW t
  PROVE  t \in Elements(Take(s, n)) <=> \E i \in 1 .. n : t = s[i]
<1>1. Len(s) \in Nat /\ \A i \in 1 .. Len(s) : s[i] \in Token
  BY TokenLen
<1>2. Take(s, n) \in Tokens /\ Len(Take(s, n)) = n /\ \A i \in 1 .. n : Take(s, n)[i] = s[i]
  <2>1. \A i \in 1 .. n : s[i] \in Token
    BY <1>1
  <2> QED
    BY <1>1, <2>1, SubSeqProperties DEF Take, Tokens
<1>3. DOMAIN Take(s, n) = 1 .. n
  BY <1>2, TokenLen
<1> QED
  BY <1>2, <1>3 DEF Elements

\* Once the token is there, anything may follow; before, control tokens may.
LEMMA AfterGrows ==
  ASSUME NEW s \in Tokens, NEW q \in Tokens, NEW t, DataAfter(s, t),
         t \in Elements(s) \/ \A i \in DOMAIN q : q[i] \in Control
  PROVE  DataAfter(s \o q, t)
<1> DEFINE w == s \o q
<1>1. Len(s) \in Nat /\ Len(q) \in Nat /\ DOMAIN s = 1 .. Len(s) /\ DOMAIN q = 1 .. Len(q)
  BY TokenLen
<1>2. w \in Tokens /\ Len(w) = Len(s) + Len(q)
      /\ \A j \in 1 .. Len(s) + Len(q) : w[j] = IF j <= Len(s) THEN s[j] ELSE q[j - Len(s)]
  BY ConcatProperties DEF Tokens
<1>3. DOMAIN w = 1 .. Len(s) + Len(q)
  BY <1>2, TokenLen
<1> HIDE DEF w
<1> SUFFICES ASSUME NEW i \in 1 .. Len(s) + Len(q), w[i] \notin Control
             PROVE  t \in Elements(Take(w, i))
  BY <1>3 DEF DataAfter, w
<1>4. CASE i <= Len(s)
  <2>1. i \in 1 .. Len(s) /\ s[i] \notin Control
    BY <1>2, <1>4
  <2>2. t \in Elements(Take(s, i))
    BY <1>1, <2>1 DEF DataAfter
  <2>3. i \in 0 .. Len(s) /\ i \in 0 .. Len(w)
    BY <1>1, <1>2, <2>1
  <2>4. PICK j \in 1 .. i : t = s[j]
    BY <2>2, <2>3, TakeElements
  <2>5. w[j] = s[j]
    BY <1>1, <1>2, <2>1
  <2> QED
    BY <1>2, <2>3, <2>4, <2>5, TakeElements
<1>5. CASE i > Len(s)
  <2>1. i - Len(s) \in 1 .. Len(q) /\ w[i] = q[i - Len(s)]
    BY <1>1, <1>2, <1>5
  <2>2. t \in Elements(s)
    BY <1>1, <2>1
  <2>3. PICK j \in 1 .. Len(s) : t = s[j]
    BY <1>1, <2>2 DEF Elements
  <2>4. j \in 1 .. i /\ w[j] = s[j] /\ i \in 0 .. Len(w)
    BY <1>1, <1>2, <1>5
  <2> QED
    BY <1>2, <2>3, <2>4, TakeElements
<1> QED
  BY <1>1, <1>4, <1>5
-----------------------------------------------------------------------------
(***************************************************************************)
(* Operations on a connection.  What an operation leaves alone:            *)
(***************************************************************************)
SameUp(x, y) ==
    /\ y.phase = x.phase /\ y.closeAfterFlush = x.closeAfterFlush /\ y.hs = x.hs
    /\ y.early = x.early /\ y.toRemote = x.toRemote /\ y.rGot = x.rGot
    /\ y.cIn = x.cIn /\ y.cTodo = x.cTodo /\ y.sent = x.sent
    /\ y.clientEof = x.clientEof /\ y.rShut = x.rShut
SameDown(x, y) ==
    /\ y.phase = x.phase /\ y.closeAfterFlush = x.closeAfterFlush /\ y.hs = x.hs
    /\ y.toClient = x.toClient /\ y.cGot = x.cGot
    /\ y.rIn = x.rIn /\ y.rTodo = x.rTodo /\ y.replies = x.replies
    /\ y.remoteEof = x.remoteEof /\ y.cShut = x.cShut
SameKeys(x, y) ==
    /\ y.state = x.state /\ y.half = x.half /\ y.remote = x.remote
    /\ y.ck = x.ck /\ y.rk = x.rk

\* A step that leaves the upward stream alone keeps it conserved.
LEMMA SameUpKeeps == ASSUME NEW x, NEW y, Up(x), SameUp(x, y) PROVE Up(y)
BY DEF Up, SameUp, UpStream

\* A step that leaves the downward stream alone keeps it conserved.
LEMMA SameDownKeeps == ASSUME NEW x, NEW y, Down(x), SameDown(x, y) PROVE Down(y)
BY DEF Down, SameDown, DownStream

\* A write takes a part of the buffer.
LEMMA Written ==
  ASSUME NEW buf \in Tokens, NEW w \in WriteSizes(buf)
  PROVE  w \in 0 .. Len(buf) /\ Drop(buf, w) \in Tokens /\ Take(buf, w) \in Tokens
<1>1. Len(buf) \in Nat
  BY TokenLen
<1>2. w \in 0 .. Len(buf)
  BY <1>1 DEF WriteSizes
<1> QED
  BY <1>2, TakeDrop

\* What has not reached the buffers of a direction yet.
UpHs(x) == IF x.phase \in ClientPhases THEN x.hs ELSE << >>
UpRest(x) == x.early \o (UpHs(x) \o (x.cIn \o x.cTodo))
DownHs(x) == IF x.phase \in RemotePhases THEN x.hs ELSE << >>
DownRest(x) == DownHs(x) \o (x.rIn \o x.rTodo)

\* The pieces of the two streams of a connection are sequences of tokens.
LEMMA Streams ==
  ASSUME NEW x \in Connections
  PROVE  /\ UpHs(x) \in Tokens /\ x.cIn \o x.cTodo \in Tokens /\ UpRest(x) \in Tokens
         /\ DownHs(x) \in Tokens /\ x.rIn \o x.rTodo \in Tokens /\ DownRest(x) \in Tokens
         /\ UpStream(x) = x.rGot \o (x.toRemote \o UpRest(x))
         /\ DownStream(x) = x.cGot \o (x.toClient \o DownRest(x))
<1>1. /\ x.hs \in Tokens /\ x.early \in Tokens
      /\ x.cIn \in Tokens /\ x.cTodo \in Tokens /\ x.rIn \in Tokens /\ x.rTodo \in Tokens
  BY DEF Connections
<1>2. UpHs(x) \in Tokens /\ DownHs(x) \in Tokens
  BY <1>1, EmptyTokens DEF UpHs, DownHs
<1>3. x.cIn \o x.cTodo \in Tokens /\ x.rIn \o x.rTodo \in Tokens
  BY <1>1, ConcatType
<1>4. UpHs(x) \o (x.cIn \o x.cTodo) \in Tokens /\ DownHs(x) \o (x.rIn \o x.rTodo) \in Tokens
  BY <1>2, <1>3, ConcatType
<1>5. UpRest(x) \in Tokens
  BY <1>1, <1>4, ConcatType DEF UpRest
<1>6. DownRest(x) \in Tokens
  BY <1>4 DEF DownRest
<1>7. UpStream(x) = x.rGot \o (x.toRemote \o UpRest(x))
  BY DEF UpStream, UpRest, UpHs
<1>8. DownStream(x) = x.cGot \o (x.toClient \o DownRest(x))
  BY DEF DownStream, DownRest, DownHs
<1> QED
  BY <1>2, <1>3, <1>5, <1>6, <1>7, <1>8

\* Nothing is written of an empty buffer.
LEMMA DropNothing ==
  ASSUME NEW w \in 0 .. Len(<< >>)
  PROVE  w = 0 /\ Drop(<< >>, w) = << >> /\ Take(<< >>, w) = << >>
<1>1. w = 0
  OBVIOUS
<1>2. SubSeq(<< >>, 0 + 1, Len(<< >>)) = << >> /\ SubSeq(<< >>, 1, 0) = << >>
  BY SubSeqEmpty
<1> QED
  BY <1>1, <1>2 DEF Drop, Take

\* flushClient moves bytes from the buffer to the client and loses none.
LEMMA FlushClientSound ==
  ASSUME NEW x, Sound(x), NEW y \in FlushClient(x)
  PROVE  /\ Sound(y) /\ SameUp(x, y) /\ SameKeys(x, y)
         /\ y.rIn = x.rIn /\ y.remoteEof = x.remoteEof
<1>1. PICK w \in WriteSizes(x.toClient) :
        y = [x EXCEPT !.toClient = Drop(@, w), !.cGot = @ \o Take(x.toClient, w)]
  BY DEF FlushClient
<1>2. x \in Connections /\ x.toClient \in Tokens /\ x.cGot \in Tokens
  BY DEF Sound, Connections
<1>3. /\ w \in 0 .. Len(x.toClient)
      /\ Drop(x.toClient, w) \in Tokens /\ x.cGot \o Take(x.toClient, w) \in Tokens
  BY <1>2, Written, ConcatType
<1>4. y \in Connections
  BY <1>1, <1>2, <1>3 DEF Connections
<1>5. y.toClient = Drop(x.toClient, w) /\ y.cGot = x.cGot \o Take(x.toClient, w)
  BY <1>1, <1>2 DEF Connections
<1>6. SameUp(x, y) /\ SameKeys(x, y)
  BY <1>1, <1>2 DEF Connections, SameUp, SameKeys
<1>7. /\ y.rIn = x.rIn /\ y.remoteEof = x.remoteEof /\ y.cShut = x.cShut /\ y.rTodo = x.rTodo
      /\ y.replies = x.replies
  BY <1>1, <1>2 DEF Connections
<1>8. DownRest(x) \in Tokens /\ DownRest(y) = DownRest(x)
      /\ DownStream(x) = x.cGot \o (x.toClient \o DownRest(x))
      /\ DownStream(y) = y.cGot \o (y.toClient \o DownRest(y))
  BY <1>2, <1>4, <1>6, <1>7, Streams DEF SameUp, DownRest, DownHs
<1>9. y.cGot \o y.toClient = x.cGot \o x.toClient /\ DownStream(y) = DownStream(x)
  <2>1. /\ (x.cGot \o Take(x.toClient, w)) \o Drop(x.toClient, w) = x.cGot \o x.toClient
        /\ (x.cGot \o Take(x.toClient, w)) \o (Drop(x.toClient, w) \o DownRest(x))
             = x.cGot \o (x.toClient \o DownRest(x))
    <3> DEFINE a == x.cGot
               b == x.toClient
               r == DownRest(x)
    <3>1. a \in Tokens /\ b \in Tokens /\ r \in Tokens /\ w \in 0 .. Len(b)
      BY <1>2, <1>3, <1>8
    <3> HIDE DEF a, b, r
    <3>2. /\ (a \o Take(b, w)) \o Drop(b, w) = a \o b
          /\ (a \o Take(b, w)) \o (Drop(b, w) \o r) = a \o (b \o r)
      <4>1. Shifts(a, b, r, w)
        BY <3>1, Shift
      <4> QED
        BY <4>1 DEF Shifts
    <3> QED
      BY <3>2 DEF a, b, r
  <2> QED
    BY <1>5, <1>8, <2>1, Zenon
<1>10. y.cShut => y.remoteEof /\ y.toClient = << >>
  BY <1>3, <1>5, <1>7, DropNothing DEF Sound, Down
<1>11. Down(y)
  BY <1>6, <1>7, <1>9, <1>10 DEF Sound, Down, SameUp
<1>12. Up(y)
  BY <1>6, SameUpKeeps DEF Sound
<1>13. Shape(y)
  BY <1>6, <1>7 DEF Sound, Shape, SameUp, SameKeys
<1> QED
  BY <1>4, <1>6, <1>7, <1>11, <1>12, <1>13 DEF Sound

\* flushRemote moves bytes from the buffer to the server and loses none.
LEMMA FlushRemoteSound ==
  ASSUME NEW x, Sound(x), NEW y \in FlushRemote(x)
  PROVE  /\ Sound(y) /\ SameDown(x, y) /\ SameKeys(x, y)
         /\ y.cIn = x.cIn /\ y.clientEof = x.clientEof /\ y.sent = x.sent
         /\ y.early = x.early
<1>a. CASE x.remote # "open"
  <2>1. y = x
    BY <1>a DEF FlushRemote
  <2> QED
    BY <2>1 DEF SameDown, SameKeys
<1>b. CASE x.remote = "open"
  <2>1. PICK w \in WriteSizes(x.toRemote) :
          y = [x EXCEPT !.toRemote = Drop(@, w), !.rGot = @ \o Take(x.toRemote, w)]
    BY <1>b DEF FlushRemote
  <2>2. x \in Connections /\ x.toRemote \in Tokens /\ x.rGot \in Tokens
    BY DEF Sound, Connections
  <2>3. /\ w \in 0 .. Len(x.toRemote)
        /\ Drop(x.toRemote, w) \in Tokens /\ x.rGot \o Take(x.toRemote, w) \in Tokens
    BY <2>2, Written, ConcatType
  <2>4. y \in Connections
    BY <2>1, <2>2, <2>3 DEF Connections
  <2>5. y.toRemote = Drop(x.toRemote, w) /\ y.rGot = x.rGot \o Take(x.toRemote, w)
    BY <2>1, <2>2 DEF Connections
  <2>6. SameDown(x, y) /\ SameKeys(x, y)
    BY <2>1, <2>2 DEF Connections, SameDown, SameKeys
  <2>7. /\ y.cIn = x.cIn /\ y.clientEof = x.clientEof /\ y.rShut = x.rShut /\ y.cTodo = x.cTodo
        /\ y.sent = x.sent /\ y.early = x.early
    BY <2>1, <2>2 DEF Connections
  <2>8. /\ UpRest(x) \in Tokens /\ UpRest(y) = UpRest(x)
        /\ UpStream(x) = x.rGot \o (x.toRemote \o UpRest(x))
        /\ UpStream(y) = y.rGot \o (y.toRemote \o UpRest(y))
    BY <2>2, <2>4, <2>6, <2>7, Streams DEF SameDown, UpRest, UpHs
  <2>9. y.rGot \o y.toRemote = x.rGot \o x.toRemote /\ UpStream(y) = UpStream(x)
    <3>1. /\ (x.rGot \o Take(x.toRemote, w)) \o Drop(x.toRemote, w) = x.rGot \o x.toRemote
          /\ (x.rGot \o Take(x.toRemote, w)) \o (Drop(x.toRemote, w) \o UpRest(x))
               = x.rGot \o (x.toRemote \o UpRest(x))
      <4> DEFINE a == x.rGot
                 b == x.toRemote
                 r == UpRest(x)
      <4>1. a \in Tokens /\ b \in Tokens /\ r \in Tokens /\ w \in 0 .. Len(b)
        BY <2>2, <2>3, <2>8
      <4> HIDE DEF a, b, r
      <4>2. /\ (a \o Take(b, w)) \o Drop(b, w) = a \o b
            /\ (a \o Take(b, w)) \o (Drop(b, w) \o r) = a \o (b \o r)
        <5>1. Shifts(a, b, r, w)
          BY <4>1, Shift
        <5> QED
          BY <5>1 DEF Shifts
      <4> QED
        BY <4>2 DEF a, b, r
    <3> QED
      BY <2>5, <2>8, <3>1, Zenon
  <2>10. x.toRemote = << >> => y.toRemote = << >>
    BY <2>3, <2>5, DropNothing
  <2>11. Up(y)
    BY <2>6, <2>7, <2>9, <2>10 DEF Sound, Up, SameDown
  <2>12. Down(y)
    BY <2>6, SameDownKeeps DEF Sound
  <2>13. Shape(y)
    BY <2>6, <2>7 DEF Sound, Shape, SameDown, SameKeys
  <2> QED
    BY <2>4, <2>6, <2>7, <2>11, <2>12, <2>13 DEF Sound
<1> QED
  BY <1>a, <1>b
-----------------------------------------------------------------------------
\* A buffer has room for something.
LEMMA CapNat == Cap \in Nat \ {0}
BY BridgeAssumption

\* An empty buffer has room.
LEMMA RoomNat ==
  ASSUME NEW buf \in Tokens
  PROVE  Room(buf) \in Nat /\ (buf = << >> => Room(buf) > 0)
BY CapNat, TokenLen DEF Room

\* What a read takes has arrived; and there is something to take unless the
\* stream has ended.
LEMMA ReadSize ==
  ASSUME NEW in \in Tokens, NEW room \in Nat, NEW n \in ReadSizes(in, room)
  PROVE  /\ n \in 0 .. Len(in)
         /\ in # << >> /\ ~AtEof(in) /\ room > 0 => n > 0
<1> DEFINE avail == Len(Strip(in, {"FIN"}))
<1>1. avail \in Nat /\ avail <= Len(in) /\ Len(in) \in Nat
  BY StripType, LenProperties DEF Tokens
<1>2. in # << >> /\ ~AtEof(in) => avail # 0
  <2> SUFFICES ASSUME in # << >>, avail = 0 PROVE AtEof(in)
    OBVIOUS
  <2>1. Strip(in, {"FIN"}) \in Tokens
    BY StripType DEF Tokens
  <2>2. Strip(in, {"FIN"}) = << >>
    BY <2>1, EmptySeq DEF Tokens
  <2>3. Len(in) \in Nat \ {0}
    BY EmptySeq DEF Tokens
  <2>4. in[1] \in {"FIN"}
    BY <2>2, <2>3, StripNothing DEF Tokens
  <2>5. Head(in) = in[1]
    BY <2>3
  <2> QED
    BY <2>4, <2>5 DEF AtEof
<1> HIDE DEF avail
<1>3. n \in IF avail = 0 \/ room = 0 THEN {0} ELSE 1 .. Lesser(avail, room)
  BY DEF ReadSizes, avail
<1> QED
  BY <1>1, <1>2, <1>3 DEF Lesser

\* The end of stream stays the last thing when the front has been read.
LEMMA EndsDrop ==
  ASSUME NEW a \in Tokens, NEW b \in Tokens, NEW n \in 0 .. Len(a), EndsAtFin(a \o b)
  PROVE  EndsAtFin(Drop(a, n) \o b)
<1> DEFINE t == Take(a, n)
           d == Drop(a, n)
<1>1. t \in Tokens /\ d \in Tokens /\ t \o d = a
  BY TakeDrop
<1> HIDE DEF t, d
<1>2. d \o b \in Tokens /\ t \o (d \o b) = a \o b
  <2>1. d \o b \in Tokens
    BY <1>1, ConcatType
  <2>2. (t \o d) \o b = t \o (d \o b)
    BY <1>1, Assoc, ZenonT(60)
  <2> QED
    BY <1>1, <2>1, <2>2
<1>3. EndsAtFin(d \o b)
  BY <1>1, <1>2, EndsSuffix
<1> QED
  BY <1>3 DEF d

\* Data is appended where the handshake has been.
LEMMA Relayed ==
  ASSUME NEW g \in Tokens, NEW b \in Tokens, NEW q \in Tokens, NEW t,
         DataAfter(g \o b, t), t \in Elements(g \o b)
  PROVE  DataAfter(g \o (b \o q), t) /\ t \in Elements(g \o (b \o q))
<1>1. (g \o b) \o q = g \o (b \o q) /\ g \o b \in Tokens
  BY Assoc, ConcatType
<1> DEFINE s == g \o b
<1>2. DataAfter(s \o q, t) /\ t \in Elements(s \o q)
  <2> s \in Tokens /\ DataAfter(s, t) /\ t \in Elements(s)
    BY <1>1
  <2> HIDE DEF s
  <2> QED
    BY AfterGrows, ElementsGrow
<1> QED
  BY <1>1, <1>2

\* A handshake frame is appended.
LEMMA Framed ==
  ASSUME NEW g \in Tokens, NEW b \in Tokens, NEW e \in Control, NEW t, DataAfter(g \o b, t)
  PROVE  /\ Append(b, e) \in Tokens
         /\ DataAfter(g \o Append(b, e), t)
         /\ e \in Elements(g \o Append(b, e))
         /\ t \in Elements(g \o b) => t \in Elements(g \o Append(b, e))
         /\ Data(Append(b, e)) = Data(b)
<1> DEFINE s == g \o b
           q == <<e>>
<1>1. Append(b, e) = b \o q /\ q \in Tokens /\ s \in Tokens
  BY AppendIsConcat, ConcatType DEF Tokens, Token
<1>2. g \o Append(b, e) = s \o q
  BY <1>1, Assoc
<1>3. Len(s) \in Nat /\ Len(s \o q) = Len(s) + 1 /\ (s \o q)[Len(s) + 1] = e /\ s \o q \in Tokens
  <2>1. Len(q) = 1 /\ q[1] = e
    OBVIOUS
  <2>2. Len(s) \in Nat
    BY <1>1, TokenLen
  <2> HIDE DEF s, q
  <2> QED
    BY <1>1, <2>1, <2>2, ConcatProperties DEF Tokens
<1>4. DataAfter(s \o q, t)
  <2>1. \A i \in DOMAIN q : q[i] \in Control
    OBVIOUS
  <2>2. DataAfter(s, t)
    OBVIOUS
  <2> HIDE DEF s, q
  <2> QED
    BY <1>1, <2>1, <2>2, AfterGrows
<1>5. e \in Elements(s \o q)
  <2>1. Len(s) + 1 \in DOMAIN (s \o q)
    BY <1>3, TokenLen
  <2> QED
    BY <1>3, <2>1 DEF Elements
<1>6. t \in Elements(s) => t \in Elements(s \o q)
  <2> HIDE DEF s, q
  <2> QED
    BY <1>1, ElementsGrow
<1> QED
  BY <1>2, <1>4, <1>5, <1>6, DataAppend
\* Data behind a message in a part of a stream is behind it in the whole.
LEMMA AfterPrefix ==
  ASSUME NEW g \in Tokens, NEW b \in Tokens, NEW t, DataAfter(g \o b, t)
  PROVE  DataAfter(g, t)
<1> DEFINE w == g \o b
<1>1. Len(g) \in Nat /\ Len(b) \in Nat /\ DOMAIN g = 1 .. Len(g)
  BY TokenLen
<1>2. w \in Tokens /\ Len(w) = Len(g) + Len(b)
      /\ \A j \in 1 .. Len(g) + Len(b) : w[j] = IF j <= Len(g) THEN g[j] ELSE b[j - Len(g)]
  BY ConcatProperties DEF Tokens
<1>3. DOMAIN w = 1 .. Len(g) + Len(b)
  BY <1>2, TokenLen
<1>4. \A i \in DOMAIN w : w[i] \notin Control => t \in Elements(Take(w, i))
  BY DEF DataAfter
<1> HIDE DEF w
<1> SUFFICES ASSUME NEW i \in 1 .. Len(g), g[i] \notin Control
             PROVE  t \in Elements(Take(g, i))
  BY <1>1 DEF DataAfter
<1>5. i \in 1 .. Len(g) + Len(b) /\ w[i] = g[i] /\ i \in 0 .. Len(w) /\ i \in 0 .. Len(g)
  BY <1>1, <1>2
<1>6. PICK j \in 1 .. i : t = w[j]
  BY <1>2, <1>3, <1>4, <1>5, TakeElements
<1>7. w[j] = g[j]
  BY <1>1, <1>2, <1>5
<1> QED
  BY <1>5, <1>6, <1>7, TakeElements

-----------------------------------------------------------------------------
(***************************************************************************)
(* Reading.                                                                *)
(***************************************************************************)
\* The bytes are put where the ones before them are.
LEMMA Refilled ==
  ASSUME NEW b \in Tokens, NEW in \in Tokens, NEW todo \in Tokens, NEW n \in 0 .. Len(in),
         EndsAtFin(in \o todo)
  PROVE  /\ b \o Take(in, n) \in Tokens /\ Drop(in, n) \in Tokens /\ Take(in, n) \in Tokens
         /\ (b \o Take(in, n)) \o (Drop(in, n) \o todo) = b \o (in \o todo)
         /\ EndsAtFin(Drop(in, n) \o todo)
         /\ n > 0 => Drop(in, n) # in
<1>1. Take(in, n) \in Tokens /\ Drop(in, n) \in Tokens /\ Len(Drop(in, n)) = Len(in) - n
  BY TakeDrop
<1>2. b \o Take(in, n) \in Tokens
  BY <1>1, ConcatType
<1>3. (b \o Take(in, n)) \o (Drop(in, n) \o todo) = b \o (in \o todo)
  <2>1. Shifts(b, in, todo, n)
    BY Shift
  <2> QED
    BY <2>1 DEF Shifts
<1>4. EndsAtFin(Drop(in, n) \o todo)
  BY EndsDrop
<1>5. n > 0 => Len(in) - n # Len(in)
  BY TokenLen
<1> QED
  BY <1>1, <1>2, <1>3, <1>4, <1>5

\* Reading from the client while relaying moves bytes into the buffer and loses
\* none.
LEMMA ReadFromClientSound ==
  ASSUME NEW x, Sound(x), x.phase = "relay", NEW y \in ReadFromClient(x)
  PROVE  /\ Sound(y) /\ SameDown(x, y)
         /\ y.state = x.state /\ y.rk = x.rk /\ y.ck = x.ck /\ y.remote = x.remote
         /\ x.half => y.half
         /\ ~x.clientEof /\ Room(x.toRemote) > 0 /\ x.cIn # << >> =>
              y.cIn # x.cIn \/ y.clientEof # x.clientEof
<1>0. /\ x \in Connections /\ x.toRemote \in Tokens /\ x.rGot \in Tokens
      /\ x.cIn \in Tokens /\ x.cTodo \in Tokens /\ EndsAtFin(x.cIn \o x.cTodo)
      /\ ~x.closeAfterFlush /\ x.phase \notin ClientPhases
  BY DEF Sound, Connections, Up, Shape, ClientPhases
<1>a. CASE x.clientEof \/ Room(x.toRemote) = 0
  <2>1. y = x
    BY <1>a DEF ReadFromClient
  <2>2. Room(x.toRemote) > 0 => x.clientEof
    BY <1>0, <1>a, RoomNat
  <2> QED
    BY <2>1, <2>2 DEF SameDown
<1>b. CASE ~x.clientEof /\ Room(x.toRemote) # 0 /\ AtEof(x.cIn)
  <2>1. y = [x EXCEPT !.clientEof = TRUE, !.half = TRUE]
    BY <1>b DEF ReadFromClient
  <2>2. y \in Connections /\ y.clientEof /\ y.half
    BY <1>0, <2>1 DEF Connections
  <2>3. /\ y.phase = x.phase /\ y.closeAfterFlush = x.closeAfterFlush /\ y.hs = x.hs
        /\ y.early = x.early /\ y.toRemote = x.toRemote /\ y.rGot = x.rGot
        /\ y.cIn = x.cIn /\ y.cTodo = x.cTodo /\ y.sent = x.sent /\ y.rShut = x.rShut
        /\ y.state = x.state /\ y.rk = x.rk /\ y.ck = x.ck /\ y.remote = x.remote
    BY <1>0, <2>1 DEF Connections
  <2>4. SameDown(x, y)
    BY <1>0, <2>1 DEF Connections, SameDown
  <2>5. x.cIn = <<"FIN">> /\ x.cTodo = << >>
    BY <1>0, <1>b, EofIsAll
  <2>6. UpStream(y) = UpStream(x)
    BY <2>3 DEF UpStream
  <2>7. Up(y)
    BY <1>b, <2>2, <2>3, <2>5, <2>6 DEF Sound, Up
  <2>8. Down(y)
    BY <2>4, SameDownKeeps DEF Sound
  <2>9. Shape(y)
    BY <2>2, <2>3, <2>4 DEF Sound, Shape, SameDown
  <2> QED
    BY <1>b, <2>2, <2>3, <2>4, <2>7, <2>8, <2>9 DEF Sound
<1>c. CASE ~x.clientEof /\ Room(x.toRemote) # 0 /\ ~AtEof(x.cIn)
  <2>1. PICK n \in ReadSizes(x.cIn, Room(x.toRemote)) :
          y = [x EXCEPT !.toRemote = @ \o Take(x.cIn, n), !.cIn = Drop(@, n)]
    BY <1>c DEF ReadFromClient
  <2>2. n \in 0 .. Len(x.cIn) /\ (x.cIn # << >> => n > 0)
    BY <1>0, <1>c, RoomNat, ReadSize
  <2> DEFINE b == x.toRemote
             in == x.cIn
             todo == x.cTodo
  <2>3. /\ b \o Take(in, n) \in Tokens /\ Drop(in, n) \in Tokens /\ Take(in, n) \in Tokens
        /\ (b \o Take(in, n)) \o (Drop(in, n) \o todo) = b \o (in \o todo)
        /\ EndsAtFin(Drop(in, n) \o todo)
        /\ n > 0 => Drop(in, n) # in
    <3>1. b \in Tokens /\ in \in Tokens /\ todo \in Tokens /\ n \in 0 .. Len(in) /\ EndsAtFin(in \o todo)
      BY <1>0, <2>2
    <3> HIDE DEF b, in, todo
    <3> QED
      BY <3>1, Refilled
  <2>4. y \in Connections /\ y.toRemote = x.toRemote \o Take(x.cIn, n) /\ y.cIn = Drop(x.cIn, n)
    BY <1>0, <2>1, <2>3 DEF Connections
  <2>5. /\ y.phase = x.phase /\ y.closeAfterFlush = x.closeAfterFlush /\ y.hs = x.hs
        /\ y.early = x.early /\ y.rGot = x.rGot /\ y.clientEof = x.clientEof
        /\ y.cTodo = x.cTodo /\ y.sent = x.sent /\ y.rShut = x.rShut
        /\ y.state = x.state /\ y.rk = x.rk /\ y.ck = x.ck /\ y.remote = x.remote /\ y.half = x.half
    BY <1>0, <2>1 DEF Connections
  <2>6. SameDown(x, y)
    BY <1>0, <2>1 DEF Connections, SameDown
  <2>7. UpRest(x) = x.cIn \o x.cTodo /\ UpRest(y) = y.cIn \o y.cTodo
    <3>1. x.early = << >> /\ y.early = << >> /\ UpHs(x) = << >> /\ UpHs(y) = << >>
      BY <1>0, <2>5 DEF UpHs, Sound, Up
    <3>2. x.cIn \o x.cTodo \in Tokens /\ y.cIn \o y.cTodo \in Tokens
      BY <1>0, <2>4, Streams
    <3> QED
      BY <3>1, <3>2, EmptyTokens DEF UpRest
  <2>8. UpStream(y) = UpStream(x)
    <3>1. UpStream(x) = x.rGot \o (x.toRemote \o UpRest(x)) /\ UpStream(y) = y.rGot \o (y.toRemote \o UpRest(y))
      BY <1>0, <2>4, Streams
    <3> QED
      BY <2>3, <2>4, <2>5, <2>7, <3>1
  <2>9. DataAfter(y.rGot \o y.toRemote, "uc") /\ "uc" \in Elements(y.rGot \o y.toRemote)
    <3> DEFINE g == x.rGot
               q == Take(x.cIn, n)
    <3>1. /\ g \in Tokens /\ b \in Tokens /\ q \in Tokens
          /\ DataAfter(g \o b, "uc") /\ "uc" \in Elements(g \o b)
      BY <1>0, <2>3 DEF Sound, Up
    <3>2. y.rGot \o y.toRemote = g \o (b \o q)
      BY <2>4, <2>5
    <3> HIDE DEF g, q, b
    <3>3. DataAfter(g \o (b \o q), "uc") /\ "uc" \in Elements(g \o (b \o q))
      BY <3>1, Relayed
    <3> QED
      BY <3>2, <3>3
  <2>10. EndsAtFin(y.cIn \o y.cTodo)
    BY <2>3, <2>4, <2>5
  <2>11. Up(y)
    BY <1>0, <1>c, <2>5, <2>8, <2>9, <2>10 DEF Sound, Up
  <2>12. Down(y)
    BY <2>6, SameDownKeeps DEF Sound
  <2>13. Shape(y)
    BY <2>5, <2>6 DEF Sound, Shape, SameDown
  <2> QED
    BY <2>2, <2>3, <2>4, <2>5, <2>6, <2>11, <2>12, <2>13 DEF Sound
<1> QED
  BY <1>a, <1>b, <1>c

\* Reading from the server while relaying moves bytes into the buffer and loses
\* none.
LEMMA ReadFromRemoteSound ==
  ASSUME NEW x, Sound(x), x.phase = "relay", NEW y \in ReadFromRemote(x)
  PROVE  /\ Sound(y) /\ SameUp(x, y)
         /\ y.state = x.state /\ y.rk = x.rk /\ y.ck = x.ck /\ y.remote = x.remote
         /\ x.half => y.half
         /\ ~x.remoteEof /\ Room(x.toClient) > 0 /\ x.rIn # << >> =>
              y.rIn # x.rIn \/ y.remoteEof # x.remoteEof
<1>0. /\ x \in Connections /\ x.toClient \in Tokens /\ x.cGot \in Tokens
      /\ x.rIn \in Tokens /\ x.rTodo \in Tokens /\ EndsAtFin(x.rIn \o x.rTodo)
      /\ ~x.closeAfterFlush /\ x.phase \notin RemotePhases
  BY DEF Sound, Connections, Down, Shape, RemotePhases
<1>a. CASE x.remoteEof \/ Room(x.toClient) = 0
  <2>1. y = x
    BY <1>a DEF ReadFromRemote
  <2>2. Room(x.toClient) > 0 => x.remoteEof
    BY <1>0, <1>a, RoomNat
  <2> QED
    BY <2>1, <2>2 DEF SameUp
<1>b. CASE ~x.remoteEof /\ Room(x.toClient) # 0 /\ AtEof(x.rIn)
  <2>1. y = [x EXCEPT !.remoteEof = TRUE, !.half = TRUE]
    BY <1>b DEF ReadFromRemote
  <2>2. y \in Connections /\ y.remoteEof /\ y.half
    BY <1>0, <2>1 DEF Connections
  <2>3. /\ y.phase = x.phase /\ y.closeAfterFlush = x.closeAfterFlush /\ y.hs = x.hs
        /\ y.early = x.early /\ y.toClient = x.toClient /\ y.cGot = x.cGot
        /\ y.rIn = x.rIn /\ y.rTodo = x.rTodo /\ y.replies = x.replies /\ y.cShut = x.cShut
        /\ y.state = x.state /\ y.rk = x.rk /\ y.ck = x.ck /\ y.remote = x.remote
    BY <1>0, <2>1 DEF Connections
  <2>4. SameUp(x, y)
    BY <1>0, <2>1 DEF Connections, SameUp
  <2>5. x.rIn = <<"FIN">> /\ x.rTodo = << >>
    BY <1>0, <1>b, EofIsAll
  <2>6. DownStream(y) = DownStream(x)
    BY <2>3 DEF DownStream
  <2>7. Down(y)
    BY <1>b, <2>2, <2>3, <2>5, <2>6 DEF Sound, Down
  <2>8. Up(y)
    BY <2>4, SameUpKeeps DEF Sound
  <2>9. Shape(y)
    BY <2>2, <2>3, <2>4 DEF Sound, Shape, SameUp
  <2> QED
    BY <1>b, <2>2, <2>3, <2>4, <2>7, <2>8, <2>9 DEF Sound
<1>c. CASE ~x.remoteEof /\ Room(x.toClient) # 0 /\ ~AtEof(x.rIn)
  <2>1. PICK n \in ReadSizes(x.rIn, Room(x.toClient)) :
          y = [x EXCEPT !.toClient = @ \o Take(x.rIn, n), !.rIn = Drop(@, n)]
    BY <1>c DEF ReadFromRemote
  <2>2. n \in 0 .. Len(x.rIn) /\ (x.rIn # << >> => n > 0)
    BY <1>0, <1>c, RoomNat, ReadSize
  <2> DEFINE b == x.toClient
             in == x.rIn
             todo == x.rTodo
  <2>3. /\ b \o Take(in, n) \in Tokens /\ Drop(in, n) \in Tokens /\ Take(in, n) \in Tokens
        /\ (b \o Take(in, n)) \o (Drop(in, n) \o todo) = b \o (in \o todo)
        /\ EndsAtFin(Drop(in, n) \o todo)
        /\ n > 0 => Drop(in, n) # in
    <3>1. b \in Tokens /\ in \in Tokens /\ todo \in Tokens /\ n \in 0 .. Len(in) /\ EndsAtFin(in \o todo)
      BY <1>0, <2>2
    <3> HIDE DEF b, in, todo
    <3> QED
      BY <3>1, Refilled
  <2>4. y \in Connections /\ y.toClient = x.toClient \o Take(x.rIn, n) /\ y.rIn = Drop(x.rIn, n)
    BY <1>0, <2>1, <2>3 DEF Connections
  <2>5. /\ y.phase = x.phase /\ y.closeAfterFlush = x.closeAfterFlush /\ y.hs = x.hs
        /\ y.early = x.early /\ y.cGot = x.cGot /\ y.remoteEof = x.remoteEof
        /\ y.rTodo = x.rTodo /\ y.replies = x.replies /\ y.cShut = x.cShut
        /\ y.state = x.state /\ y.rk = x.rk /\ y.ck = x.ck /\ y.remote = x.remote /\ y.half = x.half
    BY <1>0, <2>1 DEF Connections
  <2>6. SameUp(x, y)
    BY <1>0, <2>1 DEF Connections, SameUp
  <2>7. DownRest(x) = x.rIn \o x.rTodo /\ DownRest(y) = y.rIn \o y.rTodo
    <3>1. DownHs(x) = << >> /\ DownHs(y) = << >>
      BY <1>0, <2>5 DEF DownHs, Sound, Down
    <3>2. x.rIn \o x.rTodo \in Tokens /\ y.rIn \o y.rTodo \in Tokens
      BY <1>0, <2>4, Streams
    <3> QED
      BY <3>1, <3>2, EmptyTokens DEF DownRest
  <2>8. DownStream(y) = DownStream(x)
    <3>1. DownStream(x) = x.cGot \o (x.toClient \o DownRest(x)) /\ DownStream(y) = y.cGot \o (y.toClient \o DownRest(y))
      BY <1>0, <2>4, Streams
    <3> QED
      BY <2>3, <2>4, <2>5, <2>7, <3>1
  <2>9. DataAfter(y.cGot \o y.toClient, "ok") /\ "ok" \in Elements(y.cGot \o y.toClient)
    <3> DEFINE g == x.cGot
               q == Take(x.rIn, n)
    <3>1. /\ g \in Tokens /\ b \in Tokens /\ q \in Tokens
          /\ DataAfter(g \o b, "ok") /\ "ok" \in Elements(g \o b)
      BY <1>0, <2>3 DEF Sound, Down
    <3>2. y.cGot \o y.toClient = g \o (b \o q)
      BY <2>4, <2>5
    <3> HIDE DEF g, q, b
    <3>3. DataAfter(g \o (b \o q), "ok") /\ "ok" \in Elements(g \o (b \o q))
      BY <3>1, Relayed
    <3> QED
      BY <3>2, <3>3
  <2>10. EndsAtFin(y.rIn \o y.rTodo)
    BY <2>3, <2>4, <2>5
  <2>11. Down(y)
    BY <1>0, <1>c, <2>5, <2>8, <2>9, <2>10 DEF Sound, Down
  <2>12. Up(y)
    BY <2>6, SameUpKeeps DEF Sound
  <2>13. Shape(y)
    BY <2>5, <2>6 DEF Sound, Shape, SameUp
  <2> QED
    BY <2>2, <2>3, <2>4, <2>5, <2>6, <2>11, <2>12, <2>13 DEF Sound
<1> QED
  BY <1>a, <1>b, <1>c

-----------------------------------------------------------------------------
(***************************************************************************)
(* The end of a step.                                                      *)
(***************************************************************************)
LEMMA PropagateFinSound ==
  ASSUME NEW x, Sound(x), x.phase = "relay"
  PROVE  LET y == PropagateFin(x)
         IN  /\ Sound(y) /\ SameKeys(x, y) /\ y.phase = x.phase
             /\ y.cIn = x.cIn /\ y.clientEof = x.clientEof
             /\ y.rIn = x.rIn /\ y.remoteEof = x.remoteEof
<1> DEFINE y == PropagateFin(x)
<1>0. x \in Connections
  BY DEF Sound
<1>1. y \in Connections
  <2> DEFINE p == x.rShut \/ (x.clientEof /\ x.toRemote = << >>)
             q == x.cShut \/ (x.remoteEof /\ x.toClient = << >>)
  <2>1. p \in BOOLEAN /\ q \in BOOLEAN
    OBVIOUS
  <2>2. y = [x EXCEPT !.rShut = p, !.cShut = q]
    BY DEF PropagateFin
  <2> HIDE DEF p, q, y
  <2> QED
    BY <1>0, <2>1, <2>2 DEF Connections
<1>2. /\ y.rShut = (x.rShut \/ (x.clientEof /\ x.toRemote = << >>))
      /\ y.cShut = (x.cShut \/ (x.remoteEof /\ x.toClient = << >>))
  BY <1>0 DEF PropagateFin, Connections
<1>3. /\ SameKeys(x, y)
      /\ y.phase = x.phase /\ y.closeAfterFlush = x.closeAfterFlush /\ y.hs = x.hs
      /\ y.early = x.early /\ y.toRemote = x.toRemote /\ y.rGot = x.rGot
      /\ y.cIn = x.cIn /\ y.cTodo = x.cTodo /\ y.sent = x.sent /\ y.clientEof = x.clientEof
      /\ y.toClient = x.toClient /\ y.cGot = x.cGot
      /\ y.rIn = x.rIn /\ y.rTodo = x.rTodo /\ y.replies = x.replies
      /\ y.remoteEof = x.remoteEof
  BY <1>0 DEF PropagateFin, Connections, SameKeys
<1> HIDE DEF y
<1>4. UpStream(y) = UpStream(x) /\ DownStream(y) = DownStream(x)
  BY <1>3 DEF UpStream, DownStream
<1>5. Up(y)
  BY <1>2, <1>3, <1>4 DEF Sound, Up
<1>6. Down(y)
  BY <1>2, <1>3, <1>4 DEF Sound, Down
<1>7. Shape(y)
  BY <1>3 DEF Sound, Shape, SameKeys
<1>8. Sound(y)
  BY <1>1, <1>5, <1>6, <1>7 DEF Sound
<1> QED
  BY <1>3, <1>8 DEF y

\* The interest sets are sets of operations.
LEMMA KeyTypes ==
  ASSUME NEW x
  PROVE  /\ ClientKey(x) \in SUBSET {"read", "write"}
         /\ RemoteKey(x) \in SUBSET {"read", "write", "connect"}
<1>1. ClientKey(x) \in SUBSET {"read", "write"}
  BY DEF ClientKey
<1>2. RemoteKey(x) \in SUBSET {"read", "write", "connect"}
  BY DEF RemoteKey
<1> QED
  BY <1>1, <1>2

\* Fields that neither updateInterest nor closing changes.
SameBody(x, y) ==
    /\ SameUp(x, y) /\ SameDown(x, y) /\ y.remote = x.remote /\ y.half = x.half

\* The interest sets say nothing of the streams.
LEMMA SameBodySound ==
  ASSUME NEW x, Sound(x), NEW y \in Connections, SameBody(x, y)
  PROVE  Sound(y)
<1>1. Up(y) /\ Down(y)
  BY SameUpKeeps, SameDownKeeps DEF Sound, SameBody
<1>2. Shape(y)
  BY DEF Sound, Shape, SameBody, SameUp, SameDown
<1> QED
  BY <1>1, <1>2 DEF Sound

\* updateInterest leaves exactly the operations the connection can use.
LEMMA InterestSound ==
  ASSUME NEW x, Sound(x), x.remote # "failed", x.state = "open",
         x.phase = "relay" => ~RelayDone(x)
  PROVE  LET y == Interest(x)
         IN  Sound(y) /\ Settled(y) /\ SameBody(x, y) /\ y.state = x.state
<1> DEFINE y == Interest(x)
<1>0. x \in Connections
  BY DEF Sound
<1>1. y = [x EXCEPT !.ck = ClientKey(x), !.rk = RemoteKey(x)]
      /\ ClientKey(x) \in SUBSET {"read", "write"}
      /\ RemoteKey(x) \in SUBSET {"read", "write", "connect"}
  BY KeyTypes DEF Interest
<1> HIDE DEF y
<1>2. y \in Connections
  BY <1>0, <1>1 DEF Connections
<1>3. SameBody(x, y) /\ y.state = x.state
  BY <1>0, <1>1 DEF Connections, SameBody, SameUp, SameDown
<1>4. y.ck = ClientKey(x) /\ y.rk = RemoteKey(x)
  BY <1>0, <1>1 DEF Connections
<1>5. ClientKey(y) = ClientKey(x) /\ RemoteKey(y) = RemoteKey(x)
  BY <1>3 DEF SameBody, SameUp, SameDown, ClientKey, RemoteKey
<1>6. y.ck = ClientKey(y) /\ y.rk = RemoteKey(y)
  BY <1>4, <1>5
<1>7. Sound(y)
  BY <1>2, <1>3, SameBodySound
<1>8. y.closeAfterFlush => y.rk = {}
  <2>1. x.closeAfterFlush => RemoteKey(x) = {}
    BY DEF Sound, Shape, RemoteKey
  <2> QED
    BY <1>3, <1>4, <2>1 DEF SameBody, SameUp
<1>9. y.phase = "relay" => ~RelayDone(y)
  BY <1>3 DEF SameBody, SameUp, SameDown, RelayDone
<1>10. Settled(y)
  BY <1>3, <1>6, <1>8, <1>9 DEF Settled, SameBody
<1> QED
  BY <1>3, <1>7, <1>10 DEF y

\* Closing a connection leaves it settled.
LEMMA ClosedSound ==
  ASSUME NEW x, Sound(x), x.remote # "failed"
  PROVE  LET y == Closed(x)
         IN  Sound(y) /\ Settled(y) /\ SameBody(x, y) /\ y.state = "closed"
<1> DEFINE y == Closed(x)
<1>0. x \in Connections
  BY DEF Sound
<1>1. y \in Connections /\ SameBody(x, y) /\ y.state = "closed" /\ y.rk = {}
  BY <1>0 DEF Closed, Connections, SameBody, SameUp, SameDown
<1> HIDE DEF y
<1>2. Sound(y)
  BY <1>1, SameBodySound
<1>3. Settled(y)
  BY <1>1 DEF Settled, SameBody
<1> QED
  BY <1>1, <1>2, <1>3 DEF y

-----------------------------------------------------------------------------
\* What the selector loop needs of a step from an open connection x to y.
Stepped(x, y) ==
    Sound(y) /\ Settled(y) /\ y.state \in {"open", "closed"} /\ (x.half => y.half)

\* There is something to read, and room for it.
CanRead(x) ==
    \/ ~x.clientEof /\ Room(x.toRemote) > 0 /\ x.cIn # << >>
    \/ ~x.remoteEof /\ Room(x.toClient) > 0 /\ x.rIn # << >>

\* A turn of relay loses nothing, leaves the interest exact, and moves something
\* that was readable.
LEMMA RelaySound ==
  ASSUME NEW x, Sound(x), x.phase = "relay", x.state = "open", NEW y \in Relay(x)
  PROVE  Stepped(x, y) /\ (CanRead(x) => y # x)
<1>1. PICK e \in UNION {FlushClient(d) :
                 d \in UNION {ReadFromRemote(b) :
                         b \in UNION {FlushRemote(a) : a \in ReadFromClient(x)}}} :
        y = LET z == PropagateFin(e) IN IF RelayDone(z) THEN Closed(z) ELSE Interest(z)
  BY DEF Relay
<1>2. PICK a \in ReadFromClient(x) : \E b \in FlushRemote(a) : \E d \in ReadFromRemote(b) :
        e \in FlushClient(d)
  BY <1>1
<1>3. PICK b \in FlushRemote(a) : \E d \in ReadFromRemote(b) : e \in FlushClient(d)
  BY <1>2
<1>4. PICK d \in ReadFromRemote(b) : e \in FlushClient(d)
  BY <1>3
<1>a. /\ Sound(a) /\ SameDown(x, a) /\ a.state = x.state
      /\ x.half => a.half
      /\ ~x.clientEof /\ Room(x.toRemote) > 0 /\ x.cIn # << >> =>
           a.cIn # x.cIn \/ a.clientEof # x.clientEof
  BY ReadFromClientSound
<1>b. Sound(b) /\ SameDown(a, b) /\ SameKeys(a, b) /\ b.cIn = a.cIn /\ b.clientEof = a.clientEof
  BY <1>a, FlushRemoteSound
<1>c. b.phase = "relay" /\ b.state = "open"
  BY <1>a, <1>b DEF SameDown, SameKeys
<1>d. /\ Sound(d) /\ SameUp(b, d) /\ d.state = b.state
      /\ b.half => d.half
      /\ ~b.remoteEof /\ Room(b.toClient) > 0 /\ b.rIn # << >> =>
           d.rIn # b.rIn \/ d.remoteEof # b.remoteEof
  BY <1>b, <1>c, ReadFromRemoteSound
<1>e. Sound(e) /\ SameUp(d, e) /\ SameKeys(d, e) /\ e.rIn = d.rIn /\ e.remoteEof = d.remoteEof
  BY <1>4, <1>d, FlushClientSound
<1> DEFINE z == PropagateFin(e)
<1>f. e.phase = "relay"
  BY <1>c, <1>d, <1>e DEF SameUp
<1>g. /\ Sound(z) /\ SameKeys(e, z) /\ z.phase = "relay"
      /\ z.cIn = e.cIn /\ z.clientEof = e.clientEof
      /\ z.rIn = e.rIn /\ z.remoteEof = e.remoteEof
  BY <1>e, <1>f, PropagateFinSound
<1>5. y = IF RelayDone(z) THEN Closed(z) ELSE Interest(z)
  BY <1>1
<1> HIDE DEF z
<1>6. z.state = "open" /\ (x.half => z.half) /\ z.remote # "failed"
  BY <1>a, <1>b, <1>c, <1>d, <1>e, <1>g DEF SameKeys, Sound, Shape
<1>7. Sound(y) /\ Settled(y) /\ SameBody(z, y) /\ y.state \in {"open", "closed"}
  <2>1. CASE RelayDone(z)
    BY <1>5, <1>6, <1>g, <2>1, ClosedSound
  <2>2. CASE ~RelayDone(z)
    BY <1>5, <1>6, <1>g, <2>2, InterestSound
  <2> QED
    BY <2>1, <2>2
<1>8. Stepped(x, y)
  BY <1>6, <1>7 DEF Stepped, SameBody
<1>9. y.cIn = a.cIn /\ y.clientEof = a.clientEof
  BY <1>7, <1>g, <1>e, <1>d, <1>b DEF SameBody, SameUp
<1>10. y.rIn = d.rIn /\ y.remoteEof = d.remoteEof /\ b.rIn = x.rIn /\ b.remoteEof = x.remoteEof
       /\ b.toClient = x.toClient
  BY <1>7, <1>g, <1>e, <1>b, <1>a DEF SameBody, SameDown
<1>11. CanRead(x) => y # x
  BY <1>9, <1>10, <1>a, <1>d DEF CanRead
<1> QED
  BY <1>8, <1>11
-----------------------------------------------------------------------------
(***************************************************************************)
(* The handshake with the client.                                          *)
(***************************************************************************)
\* Two stretches with the same data may stand for each other.
LEMMA SwapMiddle ==
  ASSUME NEW p \in Tokens, NEW h \in Tokens, NEW k \in Tokens, NEW r \in Tokens, Data(h) = Data(k)
  PROVE  Data(p \o (h \o r)) = Data(p \o (k \o r))
<1>1. h \o r \in Tokens /\ k \o r \in Tokens
  BY ConcatType
<1>2. Data(h \o r) = Data(h) \o Data(r) /\ Data(k \o r) = Data(k) \o Data(r)
  BY DataConcat
<1>3. ASSUME NEW s \in Tokens PROVE Data(p \o s) = Data(p) \o Data(s)
  BY DataConcat
<1> QED
  BY <1>1, <1>2, <1>3, ZenonT(60)

\* While the client is being asked, nothing has gone to the server.
LEMMA ClientSide ==
  ASSUME NEW x \in Connections, x.phase \in ClientPhases, x.toRemote = << >>, x.early = << >>
  PROVE  /\ UpStream(x) = x.rGot \o (x.hs \o (x.cIn \o x.cTodo))
         /\ DownStream(x) = x.cGot \o (x.toClient \o (x.rIn \o x.rTodo))
<1>1. x.cIn \o x.cTodo \in Tokens /\ x.rIn \o x.rTodo \in Tokens /\ x.hs \in Tokens
  BY Streams DEF Connections
<1>2. x.hs \o (x.cIn \o x.cTodo) \in Tokens
  BY <1>1, ConcatType
<1>3. UpHs(x) = x.hs /\ DownHs(x) = << >>
  BY DEF UpHs, DownHs, ClientPhases, RemotePhases
<1>4. UpRest(x) = x.hs \o (x.cIn \o x.cTodo) /\ << >> \o UpRest(x) = UpRest(x)
  BY <1>2, <1>3, EmptyTokens DEF UpRest
<1>5. DownRest(x) = x.rIn \o x.rTodo
  BY <1>1, <1>3, EmptyTokens DEF DownRest
<1>6. UpStream(x) = x.rGot \o (x.toRemote \o UpRest(x)) /\ DownStream(x) = x.cGot \o (x.toClient \o DownRest(x))
  BY Streams
<1> QED
  BY <1>4, <1>5, <1>6

\* What the client sends ahead of its handshake is kept behind it.
LEMMA ReadHandshakeSound ==
  ASSUME NEW x, Sound(x), x.phase \in ClientPhases, ~x.closeAfterFlush,
         NEW n, n \in 0 .. Len(x.cIn)
  PROVE  LET y == [x EXCEPT !.hs = @ \o Take(x.cIn, n), !.cIn = Drop(@, n)]
         IN  /\ Sound(y) /\ SameKeys(x, y)
             /\ y.phase = x.phase /\ y.closeAfterFlush = x.closeAfterFlush
<1> DEFINE y == [x EXCEPT !.hs = @ \o Take(x.cIn, n), !.cIn = Drop(@, n)]
           h == x.hs
           in == x.cIn
           todo == x.cTodo
<1>0. /\ x \in Connections /\ h \in Tokens /\ in \in Tokens /\ todo \in Tokens
      /\ EndsAtFin(in \o todo) /\ n \in 0 .. Len(in)
  BY DEF Sound, Connections, Up
<1>1. /\ h \o Take(in, n) \in Tokens /\ Drop(in, n) \in Tokens /\ Take(in, n) \in Tokens
      /\ (h \o Take(in, n)) \o (Drop(in, n) \o todo) = h \o (in \o todo)
      /\ EndsAtFin(Drop(in, n) \o todo)
      /\ n > 0 => Drop(in, n) # in
  <2>1. h \in Tokens /\ in \in Tokens /\ todo \in Tokens /\ n \in 0 .. Len(in) /\ EndsAtFin(in \o todo)
    BY <1>0
  <2> HIDE DEF h, in, todo, y
  <2> QED
    BY <2>1, Refilled
<1>2. y \in Connections /\ y.hs = x.hs \o Take(x.cIn, n) /\ y.cIn = Drop(x.cIn, n)
  BY <1>0, <1>1 DEF Connections
<1>3. /\ SameKeys(x, y) /\ y.phase = x.phase /\ y.closeAfterFlush = x.closeAfterFlush
      /\ y.early = x.early /\ y.toRemote = x.toRemote /\ y.rGot = x.rGot
      /\ y.cTodo = x.cTodo /\ y.sent = x.sent /\ y.clientEof = x.clientEof /\ y.rShut = x.rShut
      /\ y.toClient = x.toClient /\ y.cGot = x.cGot
      /\ y.rIn = x.rIn /\ y.rTodo = x.rTodo /\ y.replies = x.replies
      /\ y.remoteEof = x.remoteEof /\ y.cShut = x.cShut
  BY <1>0 DEF Connections, SameKeys
<1> HIDE DEF y
<1>4. x.toRemote = << >> /\ x.early = << >> /\ ~x.clientEof /\ ~x.rShut
  BY DEF Sound, Up, Shape, ClientPhases
<1>5. UpStream(y) = UpStream(x) /\ DownStream(y) = DownStream(x)
  BY <1>0, <1>1, <1>2, <1>3, <1>4, ClientSide
<1>6. Up(y)
  BY <1>1, <1>2, <1>3, <1>4, <1>5 DEF Sound, Up
<1>7. Down(y)
  BY <1>3, <1>5 DEF Sound, Down
<1>8. Shape(y)
  BY <1>3 DEF Sound, Shape, SameKeys
<1>9. Sound(y)
  BY <1>2, <1>6, <1>7, <1>8 DEF Sound
<1> QED
  BY <1>3, <1>9 DEF y

\* A reply is appended; all else but the phase, the message and the decision
\* to close stays.
Answered(x, y, token) ==
    /\ token \in Control /\ y.toClient = Append(x.toClient, token)
    /\ SameKeys(x, y)
    /\ y.early = x.early /\ y.toRemote = x.toRemote /\ y.rGot = x.rGot
    /\ y.cIn = x.cIn /\ y.cTodo = x.cTodo /\ y.sent = x.sent
    /\ y.clientEof = x.clientEof /\ y.rShut = x.rShut
    /\ y.cGot = x.cGot /\ y.rIn = x.rIn /\ y.rTodo = x.rTodo /\ y.replies = x.replies
    /\ y.remoteEof = x.remoteEof /\ y.cShut = x.cShut
    /\ \/ /\ ~y.closeAfterFlush /\ y.phase \in ClientPhases
          /\ Head(x.hs) \in Control /\ y.hs = Tail(x.hs)
       \/ y.closeAfterFlush /\ y.phase = x.phase

\* A message of the client that is answered takes nothing of what follows it.
LEMMA AnsweredSound ==
  ASSUME NEW x, Sound(x), x.phase \in ClientPhases, ~x.closeAfterFlush, x.hs # << >>,
         NEW y \in Connections, NEW token, Answered(x, y, token)
  PROVE  Sound(y)
<1>0. /\ x \in Connections /\ x.hs \in Tokens /\ x.toClient \in Tokens /\ x.cGot \in Tokens
      /\ x.rGot \in Tokens
      /\ x.cIn \o x.cTodo \in Tokens /\ x.rIn \o x.rTodo \in Tokens
      /\ x.toRemote = << >> /\ x.early = << >> /\ x.remote = "none"
      /\ ~x.clientEof /\ ~x.rShut /\ ~x.remoteEof /\ ~x.cShut
  BY Streams DEF Sound, Connections, Up, Shape, ClientPhases
<1>1. y.phase \in ClientPhases
  BY DEF Answered
<1>2. /\ DataAfter(y.cGot \o y.toClient, "ok") /\ Data(y.toClient) = Data(x.toClient)
      /\ y.toClient \in Tokens
  <2> DEFINE g == x.cGot
             b == x.toClient
  <2>1. g \in Tokens /\ b \in Tokens /\ DataAfter(g \o b, "ok") /\ token \in Control
    BY <1>0 DEF Sound, Down, Answered
  <2>2. y.cGot = g /\ y.toClient = Append(b, token)
    BY DEF Answered
  <2> HIDE DEF g, b
  <2>3. DataAfter(g \o Append(b, token), "ok") /\ Data(Append(b, token)) = Data(b) /\ Append(b, token) \in Tokens
    BY <2>1, Framed
  <2> QED
    BY <2>2, <2>3 DEF b
<1>3. ~y.closeAfterFlush => Data(UpStream(y)) = Data(x.sent) /\ Data(DownStream(y)) = Data(x.replies)
  <2> SUFFICES ASSUME ~y.closeAfterFlush
               PROVE  Data(UpStream(y)) = Data(x.sent) /\ Data(DownStream(y)) = Data(x.replies)
    OBVIOUS
  <2>1. y.hs = Tail(x.hs) /\ Head(x.hs) \in Control
    BY DEF Answered
  <2>2. Tail(x.hs) \in Tokens /\ Data(Tail(x.hs)) = Data(x.hs)
    BY <1>0, <2>1, TailType, DataTail
  <2>3. /\ UpStream(x) = x.rGot \o (x.hs \o (x.cIn \o x.cTodo))
        /\ DownStream(x) = x.cGot \o (x.toClient \o (x.rIn \o x.rTodo))
    BY <1>0, ClientSide
  <2>4. /\ UpStream(y) = x.rGot \o (Tail(x.hs) \o (x.cIn \o x.cTodo))
        /\ DownStream(y) = x.cGot \o (y.toClient \o (x.rIn \o x.rTodo))
    <3>1. y.toRemote = << >> /\ y.early = << >>
      BY <1>0 DEF Answered
    <3>2. /\ UpStream(y) = y.rGot \o (y.hs \o (y.cIn \o y.cTodo))
          /\ DownStream(y) = y.cGot \o (y.toClient \o (y.rIn \o y.rTodo))
      BY <1>1, <3>1, ClientSide
    <3> QED
      BY <2>1, <3>2 DEF Answered
  <2>5. Data(UpStream(y)) = Data(UpStream(x))
    BY <1>0, <2>2, <2>3, <2>4, SwapMiddle
  <2>6. Data(DownStream(y)) = Data(DownStream(x))
    BY <1>0, <1>2, <2>3, <2>4, SwapMiddle
  <2> QED
    BY <2>5, <2>6 DEF Sound, Up, Down
<1>4. /\ y.phase # "upCommand" /\ y.phase # "relay" /\ y.phase # "connecting"
      /\ y.phase \notin RemotePhases
  BY <1>1 DEF ClientPhases, RemotePhases
<1>5. Up(y)
  BY <1>0, <1>3, <1>4 DEF Sound, Up, Answered
<1>6. Down(y)
  BY <1>0, <1>2, <1>3, <1>4 DEF Sound, Down, Answered
<1>7. Shape(y)
  BY <1>0, <1>1, <1>4 DEF Shape, Answered, SameKeys
<1> QED
  BY <1>5, <1>6, <1>7 DEF Sound
\* The request: what follows it is early data.
LEMMA RequestSound ==
  ASSUME NEW x, Sound(x), x.phase \in ClientPhases, ~x.closeAfterFlush, x.hs # << >>,
         Head(x.hs) = "request"
  PROVE  LET y == [x EXCEPT !.hs = << >>, !.early = Tail(x.hs), !.phase = "connecting",
                            !.remote = "connecting"]
         IN  Sound(y) /\ y.state = x.state /\ y.half = x.half /\ y.remote = "connecting"
             /\ y.phase = "connecting"
<1> DEFINE y == [x EXCEPT !.hs = << >>, !.early = Tail(x.hs), !.phase = "connecting",
                          !.remote = "connecting"]
<1>0. /\ x \in Connections /\ x.hs \in Tokens /\ x.rGot \in Tokens
      /\ x.cIn \o x.cTodo \in Tokens
      /\ x.toRemote = << >> /\ x.early = << >>
      /\ ~x.clientEof /\ ~x.rShut /\ ~x.remoteEof /\ ~x.cShut
  BY Streams DEF Sound, Connections, Up, Shape, ClientPhases
<1>1. Tail(x.hs) \in Tokens /\ Data(Tail(x.hs)) = Data(x.hs) /\ << >> \in Tokens
  BY <1>0, TailType, DataTail, EmptyTokens DEF Control
<1>2. "connecting" \in Phases
  BY DEF Phases
<1>3. y \in Connections
  BY <1>0, <1>1, <1>2 DEF Connections
<1>4. y.hs = << >> /\ y.early = Tail(x.hs) /\ y.phase = "connecting" /\ y.remote = "connecting"
  BY <1>0 DEF Connections
<1>5. /\ y.state = x.state /\ y.half = x.half /\ y.closeAfterFlush = x.closeAfterFlush
      /\ y.toRemote = x.toRemote /\ y.rGot = x.rGot
      /\ y.cIn = x.cIn /\ y.cTodo = x.cTodo /\ y.sent = x.sent /\ y.clientEof = x.clientEof
      /\ y.rShut = x.rShut
      /\ y.toClient = x.toClient /\ y.cGot = x.cGot
      /\ y.rIn = x.rIn /\ y.rTodo = x.rTodo /\ y.replies = x.replies
      /\ y.remoteEof = x.remoteEof /\ y.cShut = x.cShut
  BY <1>0 DEF Connections
<1> HIDE DEF y
<1>6. y.phase \notin ClientPhases /\ y.phase \notin RemotePhases
  BY <1>4 DEF ClientPhases, RemotePhases
<1>7. UpStream(y) = x.rGot \o (Tail(x.hs) \o (x.cIn \o x.cTodo))
  <2>1. UpHs(y) = << >>
    BY <1>6 DEF UpHs
  <2>2. UpRest(y) = Tail(x.hs) \o (x.cIn \o x.cTodo)
    BY <1>0, <1>4, <1>5, <2>1, EmptyTokens DEF UpRest
  <2>3. UpRest(y) \in Tokens /\ UpStream(y) = y.rGot \o (y.toRemote \o UpRest(y))
    BY <1>3, Streams
  <2>4. y.toRemote \o UpRest(y) = UpRest(y)
    BY <1>0, <1>5, <2>3, EmptyTokens
  <2> QED
    BY <1>5, <2>2, <2>3, <2>4
<1>8. Data(UpStream(y)) = Data(UpStream(x))
  <2>1. UpStream(x) = x.rGot \o (x.hs \o (x.cIn \o x.cTodo))
    BY <1>0, ClientSide
  <2> QED
    BY <1>0, <1>1, <1>7, <2>1, SwapMiddle
<1>9. DownStream(y) = DownStream(x)
  BY <1>5, <1>6 DEF DownStream, ClientPhases, RemotePhases
<1>10. Up(y)
  BY <1>0, <1>4, <1>5, <1>8 DEF Sound, Up, ClientPhases
<1>11. Down(y)
  BY <1>0, <1>4, <1>5, <1>9 DEF Sound, Down
<1>12. Shape(y)
  BY <1>0, <1>4, <1>5, <1>6 DEF Sound, Shape
<1>13. Sound(y)
  BY <1>3, <1>10, <1>11, <1>12 DEF Sound
<1> QED
  BY <1>4, <1>5, <1>13 DEF y

\* The loop of readClientHandshake is in one of these states after a round.
Asked(x, y) ==
    /\ Sound(y) /\ y.half = x.half /\ y.state \in {"open", "closed"}
    /\ y.phase \in ClientPhases \cup {"connecting"}
    /\ y.remote # "failed"
    /\ y.state = "closed" => Settled(y)

\* One message of the client's handshake, accepted or rejected.
LEMMA ClientMessageSound ==
  ASSUME NEW x, Sound(x), x.phase \in ClientPhases, ~x.closeAfterFlush, x.hs # << >>,
         x.state = "open"
  PROVE  Asked(x, ClientMessage(x))
<1> DEFINE y == ClientMessage(x)
           token == Head(x.hs)
           auth == IF mode.localAuth THEN "auth" ELSE "request"
<1>0. /\ x \in Connections /\ x.hs \in Tokens /\ x.toClient \in Tokens /\ x.remote = "none"
      /\ Tail(x.hs) \in Tokens
  BY TailType DEF Sound, Connections, Shape
<1>1. ASSUME NEW t \in Control PROVE Append(x.toClient, t) \in Tokens
  BY <1>0, DataAppend
<1>2. ASSUME NEW z \in Connections, NEW t, Answered(x, z, t) PROVE Asked(x, z)
  <2>1. Sound(z)
    BY <1>2, AnsweredSound
  <2>2. z.half = x.half /\ z.state = "open" /\ z.remote = "none" /\ z.phase \in ClientPhases
    BY <1>0, <1>2 DEF Answered, SameKeys
  <2> QED
    BY <2>1, <2>2 DEF Asked
<1>3. CASE x.phase = "greeting" /\ token = "greet"
  <2>1. y = [[[x EXCEPT !.hs = Tail(@)] EXCEPT !.toClient = Append(@, "method")] EXCEPT !.phase = auth]
    BY <1>3 DEF ClientMessage, Reply, Consume
  <2>2. "method" \in Control /\ token \in Control
    BY <1>3 DEF Control
  <2>3. auth \in ClientPhases /\ auth \in Phases
    BY DEF ClientPhases, Phases
  <2> HIDE DEF y, auth
  <2>4. y \in Connections
    BY <1>0, <1>1, <2>1, <2>2, <2>3 DEF Connections
  <2>5. Answered(x, y, "method")
    BY <1>0, <2>1, <2>2, <2>3 DEF Connections, Answered, SameKeys
  <2> QED
    BY <1>2, <2>4, <2>5 DEF y
<1>4. CASE x.phase = "auth" /\ token = "auth"
  <2>1. y = [[[x EXCEPT !.hs = Tail(@)] EXCEPT !.toClient = Append(@, "authOk")] EXCEPT !.phase = "request"]
    BY <1>4 DEF ClientMessage, Reply, Consume
  <2>2. "authOk" \in Control /\ token \in Control
    BY <1>4 DEF Control
  <2>3. "request" \in ClientPhases /\ "request" \in Phases
    BY DEF ClientPhases, Phases
  <2> HIDE DEF y
  <2>4. y \in Connections
    BY <1>0, <1>1, <2>1, <2>2, <2>3 DEF Connections
  <2>5. Answered(x, y, "authOk")
    BY <1>0, <2>1, <2>2, <2>3 DEF Connections, Answered, SameKeys
  <2> QED
    BY <1>2, <2>4, <2>5 DEF y
<1>5. ASSUME NEW t \in Control, NEW z, \/ z = Reject(Consume(x), t) \/ z = Reject(x, t)
      PROVE  Asked(x, z)
  <2>0. Append(x.toClient, t) \in Tokens
    BY <1>1
  <2>1. CASE z = Reject(Consume(x), t)
    <3>1. z = [[[x EXCEPT !.hs = Tail(@)] EXCEPT !.toClient = Append(@, t)] EXCEPT !.closeAfterFlush = TRUE]
      BY <2>1 DEF Reject, Reply, Consume
    <3>2. z \in Connections
      BY <1>0, <2>0, <3>1 DEF Connections
    <3>3. Answered(x, z, t)
      BY <1>0, <3>1 DEF Connections, Answered, SameKeys
    <3> QED
      BY <1>2, <3>2, <3>3
  <2>2. CASE z = Reject(x, t)
    <3>1. z = [[x EXCEPT !.toClient = Append(@, t)] EXCEPT !.closeAfterFlush = TRUE]
      BY <2>2 DEF Reject, Reply
    <3>2. z \in Connections
      BY <1>0, <2>0, <3>1 DEF Connections
    <3>3. Answered(x, z, t)
      BY <1>0, <3>1 DEF Connections, Answered, SameKeys
    <3> QED
      BY <1>2, <3>2, <3>3
  <2> QED
    BY <1>5, <2>1, <2>2
<1>6. CASE x.phase = "greeting" /\ token = "greetX"
  <2>1. y = Reject(Consume(x), "reject") /\ "reject" \in Control
    BY <1>6 DEF ClientMessage, Control
  <2> HIDE DEF y
  <2> QED
    BY <1>5, <2>1 DEF y
<1>7. CASE x.phase = "auth" /\ token = "authX"
  <2>1. y = Reject(Consume(x), "authNo") /\ "authNo" \in Control
    BY <1>7 DEF ClientMessage, Control
  <2> HIDE DEF y
  <2> QED
    BY <1>5, <2>1 DEF y
<1>8. CASE x.phase = "request" /\ token # "request"
  <2>1. y = Reject(x, "err7") /\ "err7" \in Control
    BY <1>8 DEF ClientMessage, Control
  <2> HIDE DEF y
  <2> QED
    BY <1>5, <2>1 DEF y
<1>9. CASE x.phase = "request" /\ token = "request"
  <2>1. y = [x EXCEPT !.hs = << >>, !.early = Tail(x.hs), !.phase = "connecting",
                      !.remote = "connecting"]
    BY <1>9 DEF ClientMessage
  <2>2. Sound(y) /\ y.state = x.state /\ y.half = x.half /\ y.remote = "connecting" /\ y.phase = "connecting"
    BY <1>9, <2>1, RequestSound
  <2> HIDE DEF y
  <2>3. Asked(x, y)
    BY <2>2 DEF Asked
  <2> QED
    BY <2>3 DEF y
<1>10. CASE /\ ~(x.phase = "greeting" /\ token = "greet") /\ ~(x.phase = "greeting" /\ token = "greetX")
            /\ ~(x.phase = "auth" /\ token = "auth") /\ ~(x.phase = "auth" /\ token = "authX")
            /\ x.phase # "request"
  <2>1. y = Closed(x)
    BY <1>10 DEF ClientMessage
  <2>2. Sound(y) /\ Settled(y) /\ SameBody(x, y) /\ y.state = "closed"
    BY <1>0, <2>1, ClosedSound
  <2> HIDE DEF y
  <2>3. Asked(x, y)
    BY <1>0, <2>2 DEF Asked, SameBody, SameUp
  <2> QED
    BY <2>3 DEF y
<1> QED
  BY <1>3, <1>4, <1>6, <1>7, <1>8, <1>9, <1>10

\* All the messages of the client's handshake that have come.
LEMMA ClientLoopSound ==
  ASSUME NEW x, Sound(x), x.phase \in ClientPhases, x.state = "open", x.remote # "failed"
  PROVE  Asked(x, ClientLoop(x))
<1>1. ASSUME NEW y, Asked(x, y) PROVE Asked(x, Proceed(y))
  <2>1. CASE y.phase \in ClientPhases /\ y.hs # << >> /\ ~y.closeAfterFlush /\ y.state = "open"
    <3>1. Asked(y, ClientMessage(y))
      BY <1>1, <2>1, ClientMessageSound DEF Asked
    <3>2. Proceed(y) = ClientMessage(y)
      BY <2>1 DEF Proceed
    <3> QED
      BY <1>1, <3>1, <3>2 DEF Asked
  <2>2. CASE ~(y.phase \in ClientPhases /\ y.hs # << >> /\ ~y.closeAfterFlush /\ y.state = "open")
    BY <1>1, <2>2 DEF Proceed
  <2> QED
    BY <2>1, <2>2
<1>2. Asked(x, x)
  BY DEF Asked
<1> QED
  BY <1>1, <1>2 DEF ClientLoop
-----------------------------------------------------------------------------
\* failUpstream, while the connection is not relaying.
LEMMA FailUpstreamSound ==
  ASSUME NEW x, Sound(x), x.state = "open", x.phase # "relay", NEW y \in FailUpstream(x)
  PROVE  Stepped(x, y) /\ y.closeAfterFlush
<1> DEFINE f == [x EXCEPT !.remote = "none", !.rk = {}, !.closeAfterFlush = TRUE,
                          !.phase = "request",
                          !.toClient = IF @ = << >> THEN <<"err5">> ELSE @]
<1>0. /\ x \in Connections /\ x.toClient \in Tokens /\ x.cGot \in Tokens
      /\ ~x.clientEof /\ ~x.rShut /\ ~x.remoteEof /\ ~x.cShut
  BY DEF Sound, Connections, Shape
<1>1. PICK z \in FlushClient(f) : y = IF z.toClient = << >> THEN Closed(z) ELSE Interest(z)
  BY DEF FailUpstream
<1>2. "request" \in Phases /\ "request" \in ClientPhases
  BY DEF Phases, ClientPhases
<1>3. <<"err5">> \in Tokens /\ DataAfter(x.cGot \o <<"err5">>, "ok")
  <2> DEFINE g == x.cGot
             q == <<"err5">>
  <2>1. "err5" \in Control
    BY DEF Control
  <2>2. Append(<< >>, "err5") = <<"err5">> /\ << >> \in Tokens
    BY EmptyTokens
  <2>3. g \o << >> = g /\ g \in Tokens
    BY <1>0, EmptyTokens
  <2>4. DataAfter(g, "ok")
    <3>1. DataAfter(x.cGot \o x.toClient, "ok")
      BY DEF Sound, Down
    <3> DEFINE b == x.toClient
    <3>2. g \in Tokens /\ b \in Tokens /\ DataAfter(g \o b, "ok")
      BY <1>0, <3>1
    <3> HIDE DEF g, b
    <3> QED
      BY <3>2, AfterPrefix
  <2> HIDE DEF g
  <2>5. Append(<< >>, "err5") \in Tokens /\ DataAfter(g \o Append(<< >>, "err5"), "ok")
    BY <2>1, <2>2, <2>3, <2>4, Framed
  <2> QED
    BY <2>2, <2>5 DEF g
<1>4. f \in Connections
  BY <1>0, <1>2, <1>3 DEF Connections
<1>5. /\ f.remote = "none" /\ f.closeAfterFlush /\ f.phase = "request"
      /\ f.toClient = IF x.toClient = << >> THEN <<"err5">> ELSE x.toClient
      /\ f.state = "open" /\ f.half = x.half
  BY <1>0 DEF Connections
<1>6. /\ f.cIn = x.cIn /\ f.cTodo = x.cTodo /\ f.rGot = x.rGot /\ f.toRemote = x.toRemote
      /\ f.clientEof = x.clientEof /\ f.rShut = x.rShut
      /\ f.rIn = x.rIn /\ f.rTodo = x.rTodo /\ f.cGot = x.cGot
      /\ f.remoteEof = x.remoteEof /\ f.cShut = x.cShut
  BY <1>0 DEF Connections
<1> HIDE DEF f
<1>7. DataAfter(f.cGot \o f.toClient, "ok")
  BY <1>3, <1>5, <1>6 DEF Sound, Down
<1>8. Up(f)
  BY <1>0, <1>5, <1>6 DEF Sound, Up
<1>9. Down(f)
  BY <1>0, <1>5, <1>6, <1>7 DEF Sound, Down
<1>10. Shape(f)
  BY <1>0, <1>2, <1>5, <1>6 DEF Shape, RemotePhases
<1>11. Sound(f)
  BY <1>4, <1>8, <1>9, <1>10 DEF Sound
<1>12. Sound(z) /\ SameUp(f, z) /\ SameKeys(f, z)
  BY <1>11, FlushClientSound
<1>13. z.state = "open" /\ z.remote = "none" /\ z.half = x.half /\ z.phase = "request" /\ z.closeAfterFlush
  BY <1>5, <1>12 DEF SameUp, SameKeys
<1>14. Sound(y) /\ Settled(y) /\ SameBody(z, y) /\ y.state \in {"open", "closed"}
  <2>1. CASE z.toClient = << >>
    BY <1>1, <1>12, <1>13, <2>1, ClosedSound
  <2>2. CASE z.toClient # << >>
    BY <1>1, <1>12, <1>13, <2>2, InterestSound
  <2> QED
    BY <2>1, <2>2
<1> QED
  BY <1>13, <1>14 DEF Stepped, SameBody, SameUp

\* What flush and updateInterest make of a connection that is not relaying.
LEMMA RestSound ==
  ASSUME NEW x, Sound(x), x.state = "open", x.remote # "failed", x.phase # "relay",
         NEW z \in FlushClient(x)
  PROVE  Stepped(x, Interest(z))
<1>1. Sound(z) /\ SameUp(x, z) /\ SameKeys(x, z)
  BY FlushClientSound
<1>2. z.state = "open" /\ z.remote # "failed" /\ z.half = x.half /\ z.phase # "relay"
  BY <1>1 DEF SameUp, SameKeys
<1> QED
  BY <1>1, <1>2, InterestSound DEF Stepped, SameBody

\* The handshake buffer has a size.
LEMMA HsCapNat == HsCap \in Nat
BY BridgeAssumption

\* readClientHandshake whole, with its flush and its interest.
LEMMA ReadClientHandshakeSound ==
  ASSUME NEW x, Sound(x), x.state = "open", x.phase \in ClientPhases, ~x.closeAfterFlush,
         NEW y \in ReadClientHandshake(x)
  PROVE  Stepped(x, y)
<1>0. x \in Connections /\ x.cIn \in Tokens /\ x.remote = "none" /\ x.phase # "relay"
  BY DEF Sound, Connections, Shape, ClientPhases
<1>1. CASE AtEof(x.cIn)
  <2>1. y = Closed(x)
    BY <1>1 DEF ReadClientHandshake
  <2> QED
    BY <1>0, <2>1, ClosedSound DEF Stepped, SameBody
<1>2. CASE ~AtEof(x.cIn)
  <2> DEFINE Rest(a) == {Interest(z) : z \in FlushClient(a)}
             After(a) ==
               IF a.state = "closed" THEN {a}
               ELSE Rest(a) \cup
                    IF a.phase = "connecting" /\ mode.faults
                      THEN UNION {IF z.state = "closed" THEN {z} ELSE Rest(z) : z \in FailUpstream(a)}
                      ELSE {}
             Filled(n) == [x EXCEPT !.hs = @ \o Take(x.cIn, n), !.cIn = Drop(@, n)]
  <2>1. PICK n \in ReadSizes(x.cIn, HsCap) : y \in After(ClientLoop(Filled(n)))
    BY <1>2 DEF ReadClientHandshake
  <2>2. n \in 0 .. Len(x.cIn)
    BY <1>0, HsCapNat, ReadSize
  <2> DEFINE r == Filled(n)
             a == ClientLoop(r)
  <2>3. Sound(r) /\ SameKeys(x, r) /\ r.phase = x.phase
    BY <2>2, ReadHandshakeSound
  <2>4. y \in After(a)
    BY <2>1
  <2> HIDE DEF r
  <2>5. Asked(r, a)
    BY <1>0, <2>3, ClientLoopSound DEF SameKeys
  <2> HIDE DEF a
  <2>6. Sound(a) /\ a.half = x.half /\ a.remote # "failed" /\ a.phase # "relay"
    BY <2>3, <2>5 DEF Asked, SameKeys, ClientPhases
  <2>7. CASE a.state = "closed"
    <3>1. y = a
      BY <2>4, <2>7
    <3> QED
      BY <2>5, <2>6, <2>7, <3>1 DEF Asked, Stepped
  <2>8. CASE a.state = "open"
    <3>1. CASE y \in Rest(a)
      BY <2>6, <2>8, <3>1, RestSound DEF Stepped
    <3>2. CASE y \notin Rest(a)
      <4>1. PICK z \in FailUpstream(a) : y \in IF z.state = "closed" THEN {z} ELSE Rest(z)
        BY <2>4, <2>8, <3>2
      <4>2. Stepped(a, z) /\ z.closeAfterFlush
        BY <2>6, <2>8, FailUpstreamSound
      <4>3. z.remote # "failed" /\ z.phase # "relay" /\ z.state \in {"open", "closed"} /\ Sound(z)
            /\ (x.half => z.half)
        BY <2>6, <4>2 DEF Stepped, Settled, Sound, Shape, ClientPhases
      <4>4. CASE z.state = "closed"
        BY <2>6, <4>1, <4>2, <4>4 DEF Stepped
      <4>5. CASE z.state = "open"
        <5>1. Stepped(z, y)
          BY <4>1, <4>3, <4>5, RestSound
        <5> QED
          BY <4>3, <5>1 DEF Stepped
      <4> QED
        BY <4>3, <4>4, <4>5
    <3> QED
      BY <3>1, <3>2
  <2> QED
    BY <2>5, <2>7, <2>8 DEF Asked
<1> QED
  BY <1>1, <1>2

\* serviceClient during the handshake.
LEMMA ServiceClientSound ==
  ASSUME NEW x, Sound(x), Settled(x), x.state = "open", x.phase \in ClientPhases,
         NEW y \in ServiceClient(x)
  PROVE  Stepped(x, y)
<1>1. PICK z \in FlushClient(x) :
        y \in IF ~z.closeAfterFlush THEN ReadClientHandshake(z)
              ELSE IF z.toClient = << >> THEN {Closed(z)} ELSE {z}
  BY DEF ServiceClient
<1>2. Sound(z) /\ SameUp(x, z) /\ SameKeys(x, z)
  BY FlushClientSound
<1>3. /\ z.state = "open" /\ z.half = x.half /\ z.phase \in ClientPhases /\ z.remote # "failed"
      /\ z.phase # "relay" /\ (z.closeAfterFlush => z.rk = {})
  BY <1>2 DEF SameUp, SameKeys, Settled, ClientPhases
<1>4. CASE ~z.closeAfterFlush
  <2>1. Stepped(z, y)
    BY <1>1, <1>2, <1>3, <1>4, ReadClientHandshakeSound
  <2> QED
    BY <1>3, <2>1 DEF Stepped
<1>5. CASE z.closeAfterFlush /\ z.toClient = << >>
  <2>1. y = Closed(z)
    BY <1>1, <1>5
  <2> QED
    BY <1>2, <1>3, <2>1, ClosedSound DEF Stepped, SameBody
<1>6. CASE z.closeAfterFlush /\ z.toClient # << >>
  <2>1. y = z
    BY <1>1, <1>6
  <2> QED
    BY <1>2, <1>3, <1>6, <2>1 DEF Stepped, Settled
<1> QED
  BY <1>4, <1>5, <1>6
-----------------------------------------------------------------------------
(***************************************************************************)
(* The handshake with the server.                                          *)
(***************************************************************************)
LEMMA SameTail ==
  ASSUME NEW p \in Tokens, NEW a \in Tokens, NEW b \in Tokens, Data(a) = Data(b)
  PROVE  Data(p \o a) = Data(p \o b)
<1>1. ASSUME NEW s \in Tokens PROVE Data(p \o s) = Data(p) \o Data(s)
  BY DataConcat
<1> QED
  BY <1>1

\* What the server sends behind its handshake is kept.
LEMMA ReadUpstreamSound ==
  ASSUME NEW x, Sound(x), x.phase \in RemotePhases, NEW n, n \in 0 .. Len(x.rIn)
  PROVE  LET y == [x EXCEPT !.hs = @ \o Take(x.rIn, n), !.rIn = Drop(@, n)]
         IN  Sound(y) /\ SameKeys(x, y) /\ y.phase = x.phase
<1> DEFINE y == [x EXCEPT !.hs = @ \o Take(x.rIn, n), !.rIn = Drop(@, n)]
           h == x.hs
           in == x.rIn
           todo == x.rTodo
<1>0. /\ x \in Connections /\ h \in Tokens /\ in \in Tokens /\ todo \in Tokens
      /\ EndsAtFin(in \o todo) /\ n \in 0 .. Len(in)
  BY DEF Sound, Connections, Down
<1>1. /\ h \o Take(in, n) \in Tokens /\ Drop(in, n) \in Tokens /\ Take(in, n) \in Tokens
      /\ (h \o Take(in, n)) \o (Drop(in, n) \o todo) = h \o (in \o todo)
      /\ EndsAtFin(Drop(in, n) \o todo)
      /\ n > 0 => Drop(in, n) # in
  <2>1. h \in Tokens /\ in \in Tokens /\ todo \in Tokens /\ n \in 0 .. Len(in) /\ EndsAtFin(in \o todo)
    BY <1>0
  <2> HIDE DEF h, in, todo, y
  <2> QED
    BY <2>1, Refilled
<1>2. y \in Connections /\ y.hs = x.hs \o Take(x.rIn, n) /\ y.rIn = Drop(x.rIn, n)
  BY <1>0, <1>1 DEF Connections
<1>3. /\ SameKeys(x, y) /\ y.phase = x.phase /\ y.closeAfterFlush = x.closeAfterFlush
      /\ y.early = x.early /\ y.toRemote = x.toRemote /\ y.rGot = x.rGot
      /\ y.cIn = x.cIn /\ y.cTodo = x.cTodo /\ y.sent = x.sent
      /\ y.clientEof = x.clientEof /\ y.rShut = x.rShut
      /\ y.toClient = x.toClient /\ y.cGot = x.cGot
      /\ y.rTodo = x.rTodo /\ y.replies = x.replies
      /\ y.remoteEof = x.remoteEof /\ y.cShut = x.cShut
  BY <1>0 DEF Connections, SameKeys
<1> HIDE DEF y
<1>4. ~x.remoteEof /\ ~x.cShut /\ x.phase \notin ClientPhases
  BY DEF Sound, Shape, RemotePhases, ClientPhases
<1>5. UpStream(y) = UpStream(x)
  BY <1>3, <1>4 DEF UpStream
<1>6. DownStream(y) = DownStream(x)
  BY <1>1, <1>2, <1>3 DEF DownStream
<1>7. Up(y)
  BY <1>3, <1>5 DEF Sound, Up
<1>8. Down(y)
  BY <1>1, <1>2, <1>3, <1>4, <1>6 DEF Sound, Down
<1>9. Shape(y)
  BY <1>3 DEF Sound, Shape, SameKeys
<1>10. Sound(y)
  BY <1>2, <1>7, <1>8, <1>9 DEF Sound
<1> QED
  BY <1>3, <1>10 DEF y

\* A frame is sent and the answer before it is consumed, or there was none.
Asking(x, y, frame) ==
    /\ frame \in Control /\ y.toRemote = Append(x.toRemote, frame)
    /\ y.early = x.early /\ y.rGot = x.rGot
    /\ y.cIn = x.cIn /\ y.cTodo = x.cTodo /\ y.sent = x.sent
    /\ y.clientEof = x.clientEof /\ y.rShut = x.rShut
    /\ y.toClient = x.toClient /\ y.cGot = x.cGot
    /\ y.rIn = x.rIn /\ y.rTodo = x.rTodo /\ y.replies = x.replies
    /\ y.remoteEof = x.remoteEof /\ y.cShut = x.cShut
    /\ y.closeAfterFlush = x.closeAfterFlush /\ y.remote = "open"
    /\ y.phase \in RemotePhases /\ (y.phase = "upCommand" => frame = "uc")
    /\ DownHs(y) \in Tokens /\ Data(DownHs(y)) = Data(DownHs(x))

\* A message to the server adds no data to its stream.
LEMMA AskingSound ==
  ASSUME NEW x, Sound(x), x.phase \in RemotePhases \cup {"connecting"},
         NEW y \in Connections, NEW frame, Asking(x, y, frame)
  PROVE  Sound(y)
<1>0. /\ x \in Connections /\ x.toRemote \in Tokens /\ x.rGot \in Tokens
      /\ x.toClient \in Tokens /\ x.cGot \in Tokens
      /\ UpRest(x) \in Tokens /\ DownHs(x) \in Tokens /\ x.rIn \o x.rTodo \in Tokens
      /\ ~x.closeAfterFlush
      /\ ~x.clientEof /\ ~x.rShut /\ ~x.remoteEof /\ ~x.cShut
  BY Streams DEF Sound, Connections, Shape, RemotePhases, ClientPhases
<1>1. /\ x.phase \notin ClientPhases /\ y.phase \notin ClientPhases /\ y.phase # "relay"
      /\ y.phase # "connecting"
  BY DEF Answered, Asking, RemotePhases, ClientPhases
<1>2. /\ y.toRemote \in Tokens /\ Data(y.toRemote) = Data(x.toRemote)
      /\ DataAfter(y.rGot \o y.toRemote, "uc") /\ frame \in Elements(y.rGot \o y.toRemote)
  <2> DEFINE g == x.rGot
             b == x.toRemote
  <2>1. g \in Tokens /\ b \in Tokens /\ DataAfter(g \o b, "uc") /\ frame \in Control
    BY <1>0 DEF Sound, Up, Asking
  <2>2. y.rGot = g /\ y.toRemote = Append(b, frame)
    BY DEF Asking
  <2> HIDE DEF g, b
  <2>3. /\ DataAfter(g \o Append(b, frame), "uc") /\ Data(Append(b, frame)) = Data(b)
        /\ Append(b, frame) \in Tokens /\ frame \in Elements(g \o Append(b, frame))
    BY <2>1, Framed
  <2> QED
    BY <2>2, <2>3 DEF b
<1>3. Data(UpStream(y)) = Data(UpStream(x))
  <2>1. UpHs(x) = << >> /\ UpHs(y) = << >>
    BY <1>1 DEF UpHs
  <2>2. UpRest(y) = UpRest(x)
    BY <2>1 DEF UpRest, Asking
  <2>3. UpStream(x) = x.rGot \o (x.toRemote \o UpRest(x)) /\ UpStream(y) = x.rGot \o (y.toRemote \o UpRest(x))
    BY <1>0, <2>2, Streams DEF Asking
  <2> QED
    BY <1>0, <1>2, <2>3, SwapMiddle
<1>4. Data(DownStream(y)) = Data(DownStream(x))
  <2> DEFINE r == x.rIn \o x.rTodo
             h == DownHs(x)
             k == DownHs(y)
             t == x.toClient
             g == x.cGot
  <2>1. h \in Tokens /\ k \in Tokens /\ t \in Tokens /\ g \in Tokens /\ r \in Tokens /\ Data(h) = Data(k)
    BY <1>0 DEF Asking
  <2>2. DownStream(x) = g \o (t \o (h \o r)) /\ DownStream(y) = g \o (t \o (k \o r))
    BY <1>0, Streams DEF DownRest, Asking
  <2> HIDE DEF r, h, k, t, g
  <2>3. Data(t \o (h \o r)) = Data(t \o (k \o r))
    BY <2>1, SwapMiddle
  <2>4. h \o r \in Tokens /\ k \o r \in Tokens
    BY <2>1, ConcatType
  <2>5. t \o (h \o r) \in Tokens /\ t \o (k \o r) \in Tokens
    BY <2>1, <2>4, ConcatType
  <2>6. Data(g \o (t \o (h \o r))) = Data(g \o (t \o (k \o r)))
    BY <2>1, <2>3, <2>5, SameTail
  <2> QED
    BY <2>2, <2>6
<1>5. Up(y)
  BY <1>0, <1>1, <1>2, <1>3 DEF Sound, Up, Asking
<1>6. Down(y)
  BY <1>0, <1>1, <1>4 DEF Sound, Down, Asking
<1>7. Shape(y)
  BY <1>0, <1>1 DEF Shape, Asking
<1> QED
  BY <1>5, <1>6, <1>7 DEF Sound

\* connectOk hands what both sides have sent ahead to the relay buffers.
LEMMA ConnectOkSound ==
  ASSUME NEW x, Sound(x), x.phase = "upCommand", x.remote = "open", x.hs # << >>, Head(x.hs) = "k"
  PROVE  LET y == ConnectOk(x)
         IN  Sound(y) /\ y.state = x.state /\ y.half = x.half /\ y.phase = "relay"
<1> DEFINE y == ConnectOk(x)
           tail == Tail(x.hs)
           tc == x.toClient
           tr == x.toRemote
           cg == x.cGot
           rg == x.rGot
           early == x.early
           up == x.cIn \o x.cTodo
           down == x.rIn \o x.rTodo
           told == Append(tc, "ok")
<1>0. /\ x \in Connections /\ x.hs \in Tokens
      /\ tc \in Tokens /\ tr \in Tokens /\ cg \in Tokens /\ rg \in Tokens /\ early \in Tokens
      /\ up \in Tokens /\ down \in Tokens
      /\ DataAfter(rg \o tr, "uc") /\ "uc" \in Elements(rg \o tr) /\ DataAfter(cg \o tc, "ok")
      /\ ~x.closeAfterFlush
      /\ ~x.clientEof /\ ~x.rShut /\ ~x.remoteEof /\ ~x.cShut
  BY Streams DEF Sound, Connections, Shape, Up, Down, RemotePhases, ClientPhases
<1>1. tail \in Tokens /\ Data(tail) = Data(x.hs) /\ "ok" \in Control
  BY <1>0, TailType, DataTail DEF Control
<1>2. /\ told \in Tokens /\ Data(told) = Data(tc) /\ told \o tail \in Tokens
      /\ DataAfter(cg \o (told \o tail), "ok") /\ "ok" \in Elements(cg \o (told \o tail))
  <2>1. told \in Tokens /\ Data(told) = Data(tc) /\ DataAfter(cg \o told, "ok") /\ "ok" \in Elements(cg \o told)
    <3> HIDE DEF tc, cg
    <3> QED
      BY <1>0, <1>1, Framed
  <2> HIDE DEF told, cg, tail
  <2>2. told \o tail \in Tokens
    BY <1>1, <2>1, ConcatType
  <2>3. DataAfter(cg \o (told \o tail), "ok") /\ "ok" \in Elements(cg \o (told \o tail))
    BY <1>0, <1>1, <2>1, Relayed
  <2> QED
    BY <2>1, <2>2, <2>3
<1>3. /\ tr \o early \in Tokens
      /\ DataAfter(rg \o (tr \o early), "uc") /\ "uc" \in Elements(rg \o (tr \o early))
  <2> HIDE DEF tr, rg, early
  <2> QED
    BY <1>0, Relayed, ConcatType
<1>4. y = [x EXCEPT !.phase = "relay", !.hs = << >>, !.early = << >>,
                    !.toClient = told \o tail, !.toRemote = tr \o early]
  BY <1>0 DEF ConnectOk, Connections
<1>5. "relay" \in Phases /\ << >> \in Tokens
  BY EmptyTokens DEF Phases
<1> HIDE DEF y, told, tail, early
<1>6. y \in Connections
  BY <1>0, <1>2, <1>3, <1>4, <1>5 DEF Connections
<1>7. /\ y.phase = "relay" /\ y.hs = << >> /\ y.early = << >>
      /\ y.toClient = told \o tail /\ y.toRemote = tr \o early
  BY <1>0, <1>4 DEF Connections
<1>8. /\ y.state = x.state /\ y.half = x.half /\ y.remote = x.remote
      /\ y.closeAfterFlush = x.closeAfterFlush
      /\ y.rGot = x.rGot /\ y.cIn = x.cIn /\ y.cTodo = x.cTodo /\ y.sent = x.sent
      /\ y.clientEof = x.clientEof /\ y.rShut = x.rShut
      /\ y.cGot = x.cGot /\ y.rIn = x.rIn /\ y.rTodo = x.rTodo /\ y.replies = x.replies
      /\ y.remoteEof = x.remoteEof /\ y.cShut = x.cShut
  BY <1>0, <1>4 DEF Connections
<1>9. UpStream(y) = UpStream(x)
  <2>1. /\ UpStream(x) = rg \o (tr \o (early \o (<< >> \o up)))
        /\ UpStream(y) = rg \o ((tr \o early) \o (<< >> \o (<< >> \o up)))
    BY <1>7, <1>8 DEF UpStream, early, ClientPhases
  <2> HIDE DEF up, tr, rg
  <2>2. << >> \o up = up
    BY <1>0, EmptyTokens
  <2>3. (tr \o early) \o up = tr \o (early \o up)
    <3>1. tr \in Tokens /\ early \in Tokens /\ up \in Tokens
      BY <1>0
    <3> QED
      BY <3>1, Assoc
  <2> QED
    BY <2>1, <2>2, <2>3
<1>10. Data(DownStream(y)) = Data(DownStream(x))
  <2>1. /\ DownStream(x) = cg \o (tc \o (x.hs \o down))
        /\ DownStream(y) = cg \o ((told \o tail) \o (<< >> \o down))
    BY <1>7, <1>8 DEF DownStream, RemotePhases
  <2> DEFINE h == x.hs
  <2>2. h \in Tokens /\ Data(tail) = Data(h)
    BY <1>0, <1>1
  <2>3. DownStream(x) = cg \o (tc \o (h \o down))
    BY <2>1
  <2> HIDE DEF down, tc, cg, h
  <2>4. << >> \o down = down
    BY <1>0, EmptyTokens
  <2>5. (told \o tail) \o down = told \o (tail \o down)
    <3>1. told \in Tokens /\ tail \in Tokens /\ down \in Tokens
      BY <1>0, <1>1, <1>2
    <3> QED
      BY <3>1, Assoc
  <2>6. h \o down \in Tokens /\ tail \o down \in Tokens
    BY <1>0, <1>1, <2>2, ConcatType
  <2>7. Data(tc \o (h \o down)) = Data(tc \o (tail \o down))
    BY <1>0, <1>1, <2>2, SwapMiddle
  <2>8. Data(cg \o (tc \o (tail \o down))) = Data(cg \o (told \o (tail \o down)))
    BY <1>0, <1>2, <2>6, SwapMiddle
  <2>9. tc \o (h \o down) \in Tokens /\ tc \o (tail \o down) \in Tokens
    BY <1>0, <2>6, ConcatType
  <2>10. Data(cg \o (tc \o (h \o down))) = Data(cg \o (tc \o (tail \o down)))
    BY <1>0, <2>7, <2>9, SameTail
  <2> QED
    BY <2>1, <2>3, <2>4, <2>5, <2>8, <2>10
<1>11. Up(y)
  BY <1>0, <1>3, <1>7, <1>8, <1>9 DEF Sound, Up, ClientPhases
<1>12. Down(y)
  BY <1>0, <1>2, <1>7, <1>8, <1>10 DEF Sound, Down
<1>13. Shape(y)
  BY <1>0, <1>7, <1>8 DEF Shape, RemotePhases, ClientPhases
<1>14. Sound(y)
  BY <1>6, <1>11, <1>12, <1>13 DEF Sound
<1> QED
  BY <1>7, <1>8, <1>14 DEF y
\* The loop of readUpstreamHandshake is in one of these states after a round.
Talked(x, y) ==
    /\ Sound(y) /\ y.half = x.half /\ y.state = x.state
    /\ y.phase \in RemotePhases \cup {"relay"}

\* One message of the server's handshake.
LEMMA ServerMessageSound ==
  ASSUME NEW x, Sound(x), x.phase \in RemotePhases, x.hs # << >>, x.remote = "open"
  PROVE  Talked(x, ServerMessage(x))
<1> DEFINE y == ServerMessage(x)
           token == Head(x.hs)
<1>0. x \in Connections /\ x.hs \in Tokens /\ x.toRemote \in Tokens /\ Tail(x.hs) \in Tokens
  BY TailType DEF Sound, Connections
<1>1. ASSUME NEW frame \in Control, NEW phase \in RemotePhases, phase = "upCommand" => frame = "uc",
             token \in Control,
             y = [[x EXCEPT !.hs = Tail(@)] EXCEPT !.toRemote = Append(@, frame), !.phase = phase]
      PROVE  Talked(x, y)
  <2>1. Append(x.toRemote, frame) \in Tokens /\ phase \in Phases
    BY <1>0, <1>1, DataAppend DEF Phases
  <2>2. Data(Tail(x.hs)) = Data(x.hs)
    BY <1>0, <1>1, DataTail
  <2> HIDE DEF y
  <2>3. y \in Connections
    BY <1>0, <1>1, <2>1 DEF Connections
  <2>4. /\ y.half = x.half /\ y.state = x.state /\ y.phase = phase /\ y.hs = Tail(x.hs)
        /\ y.remote = x.remote
        /\ y.toRemote = Append(x.toRemote, frame)
        /\ y.early = x.early /\ y.rGot = x.rGot
        /\ y.cIn = x.cIn /\ y.cTodo = x.cTodo /\ y.sent = x.sent
        /\ y.clientEof = x.clientEof /\ y.rShut = x.rShut
        /\ y.toClient = x.toClient /\ y.cGot = x.cGot
        /\ y.rIn = x.rIn /\ y.rTodo = x.rTodo /\ y.replies = x.replies
        /\ y.remoteEof = x.remoteEof /\ y.cShut = x.cShut
        /\ y.closeAfterFlush = x.closeAfterFlush
    BY <1>0, <1>1 DEF Connections
  <2>5. DownHs(y) = Tail(x.hs) /\ DownHs(x) = x.hs
    BY <2>4 DEF DownHs
  <2>6. Asking(x, y, frame)
    BY <1>0, <1>1, <2>2, <2>4, <2>5 DEF Asking
  <2>7. Sound(y)
    BY <2>3, <2>6, AskingSound
  <2> QED
    BY <2>4, <2>7 DEF Talked
<1>2. CASE x.phase = "upGreeting" /\ token = "g2"
  <2>1. y = [[x EXCEPT !.hs = Tail(@)] EXCEPT !.toRemote = Append(@, "ua"), !.phase = "upAuth"]
    BY <1>2 DEF ServerMessage, Consume
  <2>2. "ua" \in Control /\ token \in Control /\ "upAuth" \in RemotePhases /\ "upAuth" # "upCommand"
    BY <1>2 DEF Control, RemotePhases
  <2> HIDE DEF y, token
  <2> QED
    BY <1>1, <2>1, <2>2 DEF y
<1>3. CASE (x.phase = "upGreeting" /\ token = "g0") \/ (x.phase = "upAuth" /\ token = "a")
  <2>1. y = [[x EXCEPT !.hs = Tail(@)] EXCEPT !.toRemote = Append(@, "uc"), !.phase = "upCommand"]
    BY <1>3 DEF ServerMessage, Consume
  <2>2. "uc" \in Control /\ token \in Control /\ "upCommand" \in RemotePhases
    BY <1>3 DEF Control, RemotePhases
  <2> HIDE DEF y, token
  <2> QED
    BY <1>1, <2>1, <2>2 DEF y
<1>4. CASE x.phase = "upCommand" /\ token = "k"
  <2>1. y = ConnectOk(x)
    BY <1>4 DEF ServerMessage
  <2> QED
    BY <1>4, <2>1, ConnectOkSound DEF Talked
<1>5. CASE /\ ~(x.phase = "upGreeting" /\ token = "g2") /\ ~(x.phase = "upGreeting" /\ token = "g0")
           /\ ~(x.phase = "upAuth" /\ token = "a") /\ ~(x.phase = "upCommand" /\ token = "k")
  <2>1. y = [x EXCEPT !.remote = "failed"]
    BY <1>5 DEF ServerMessage
  <2> HIDE DEF y
  <2>2. /\ y \in Connections /\ SameUp(x, y) /\ SameDown(x, y) /\ y.remote = "failed"
        /\ y.half = x.half /\ y.state = x.state
    BY <1>0, <2>1 DEF Connections, SameUp, SameDown
  <2>3. Up(y) /\ Down(y)
    BY <2>2, SameUpKeeps, SameDownKeeps DEF Sound
  <2>4. Shape(y)
    BY <2>2 DEF Sound, Shape, SameUp, SameDown, RemotePhases, ClientPhases
  <2>5. Talked(x, y)
    BY <2>2, <2>3, <2>4 DEF Talked, Sound, SameUp
  <2> QED
    BY <2>5 DEF y
<1>6. \/ x.phase = "upGreeting" /\ token = "g2"
      \/ (x.phase = "upGreeting" /\ token = "g0") \/ (x.phase = "upAuth" /\ token = "a")
      \/ x.phase = "upCommand" /\ token = "k"
      \/ /\ ~(x.phase = "upGreeting" /\ token = "g2") /\ ~(x.phase = "upGreeting" /\ token = "g0")
         /\ ~(x.phase = "upAuth" /\ token = "a") /\ ~(x.phase = "upCommand" /\ token = "k")
  <2> HIDE DEF y, token
  <2> QED
    OBVIOUS
<1> QED
  BY <1>2, <1>3, <1>4, <1>5, <1>6

\* A further message, if there is one.
LEMMA AdvanceSound ==
  ASSUME NEW x, NEW y, Talked(x, y)
  PROVE  Talked(x, Advance(y))
<1>1. CASE y.phase \in RemotePhases /\ y.hs # << >> /\ y.remote = "open"
  <2>1. Talked(y, ServerMessage(y))
    BY <1>1, ServerMessageSound DEF Talked
  <2> QED
    BY <1>1, <2>1 DEF Advance, Talked
<1>2. CASE ~(y.phase \in RemotePhases /\ y.hs # << >> /\ y.remote = "open")
  BY <1>2 DEF Advance
<1> QED
  BY <1>1, <1>2

\* readUpstreamHandshake whole, with its flush and its interest.
LEMMA ReadUpstreamHandshakeSound ==
  ASSUME NEW x, Sound(x), x.state = "open", x.phase \in RemotePhases,
         NEW y \in ReadUpstreamHandshake(x)
  PROVE  Stepped(x, y)
<1>0. x \in Connections /\ x.rIn \in Tokens /\ x.phase # "relay"
  BY DEF Sound, Connections, RemotePhases
<1>1. CASE AtEof(x.rIn)
  <2>1. y \in FailUpstream(x)
    BY <1>1 DEF ReadUpstreamHandshake
  <2> QED
    BY <1>0, <2>1, FailUpstreamSound
<1>2. CASE ~AtEof(x.rIn)
  <2> DEFINE After(a) == IF a.phase = "relay" THEN Relay(a)
                         ELSE IF a.remote = "failed" THEN FailUpstream(a)
                         ELSE {Interest(z) : z \in FlushRemote(a)}
             Filled(n) == [x EXCEPT !.hs = @ \o Take(x.rIn, n), !.rIn = Drop(@, n)]
  <2>1. PICK n \in ReadSizes(x.rIn, HsCap) : y \in After(Advance(Advance(Advance(Filled(n)))))
    BY <1>2 DEF ReadUpstreamHandshake
  <2>2. n \in 0 .. Len(x.rIn)
    BY <1>0, HsCapNat, ReadSize
  <2> DEFINE r == Filled(n)
             a == Advance(Advance(Advance(r)))
  <2>3. Sound(r) /\ SameKeys(x, r) /\ r.phase = x.phase
    BY <2>2, ReadUpstreamSound
  <2>4. y \in After(a)
    BY <2>1
  <2> HIDE DEF r
  <2>5. Talked(x, r)
    BY <2>3 DEF Talked, SameKeys
  <2>6. Talked(x, a)
    BY <2>5, AdvanceSound
  <2> HIDE DEF a
  <2>7. Sound(a) /\ a.half = x.half /\ a.state = "open" /\ a.phase \in RemotePhases \cup {"relay"}
    BY <2>6 DEF Talked
  <2>8. CASE a.phase = "relay"
    <3>1. Stepped(a, y)
      BY <2>4, <2>7, <2>8, RelaySound
    <3> QED
      BY <2>7, <3>1 DEF Stepped
  <2>9. CASE a.phase # "relay" /\ a.remote = "failed"
    <3>1. Stepped(a, y)
      BY <2>4, <2>7, <2>9, FailUpstreamSound
    <3> QED
      BY <2>7, <3>1 DEF Stepped
  <2>10. CASE a.phase # "relay" /\ a.remote # "failed"
    <3>1. PICK z \in FlushRemote(a) : y = Interest(z)
      BY <2>4, <2>10
    <3>2. Sound(z) /\ SameDown(a, z) /\ SameKeys(a, z)
      BY <2>7, FlushRemoteSound
    <3>3. z.state = "open" /\ z.remote # "failed" /\ z.half = x.half /\ z.phase # "relay"
      BY <2>7, <2>10, <3>2 DEF SameDown, SameKeys
    <3> QED
      BY <3>1, <3>2, <3>3, InterestSound DEF Stepped, SameBody
  <2> QED
    BY <2>8, <2>9, <2>10
<1> QED
  BY <1>1, <1>2

\* serviceRemote during the handshake.
LEMMA ServiceRemoteSound ==
  ASSUME NEW x, Sound(x), x.state = "open", x.phase \in RemotePhases, NEW y \in ServiceRemote(x)
  PROVE  Stepped(x, y)
<1>1. PICK a \in FlushRemote(x) : \E z \in FlushClient(a) : y \in ReadUpstreamHandshake(z)
  BY DEF ServiceRemote
<1>2. PICK z \in FlushClient(a) : y \in ReadUpstreamHandshake(z)
  BY <1>1
<1>3. Sound(a) /\ SameDown(x, a) /\ SameKeys(x, a)
  BY FlushRemoteSound
<1>4. Sound(z) /\ SameUp(a, z) /\ SameKeys(a, z)
  BY <1>3, FlushClientSound
<1>5. z.state = "open" /\ z.phase \in RemotePhases /\ z.half = x.half
  BY <1>3, <1>4 DEF SameDown, SameUp, SameKeys
<1>6. Stepped(z, y)
  BY <1>2, <1>4, <1>5, ReadUpstreamHandshakeSound
<1> QED
  BY <1>5, <1>6 DEF Stepped

\* The end of the connect begins the login at the server.
LEMMA ConnectedSound ==
  ASSUME NEW x, Sound(x), x.state = "open", x.phase = "connecting"
  PROVE  Stepped(x, Connected(x))
<1> DEFINE y == [x EXCEPT !.toRemote = Append(@, "ug"), !.phase = "upGreeting", !.hs = << >>,
                          !.remote = "open"]
<1>0. x \in Connections /\ x.toRemote \in Tokens
  BY DEF Sound, Connections
<1>1. /\ "ug" \in Control /\ "upGreeting" \in RemotePhases /\ "upGreeting" \in Phases
      /\ "upGreeting" # "upCommand" /\ "upGreeting" # "relay"
  BY DEF Control, RemotePhases, Phases
<1>2. Append(x.toRemote, "ug") \in Tokens /\ << >> \in Tokens
  BY <1>0, <1>1, DataAppend, EmptyTokens
<1>3. y \in Connections
  BY <1>0, <1>1, <1>2 DEF Connections
<1>4. /\ y.half = x.half /\ y.state = x.state /\ y.phase = "upGreeting" /\ y.hs = << >>
      /\ y.remote = "open"
      /\ y.toRemote = Append(x.toRemote, "ug")
      /\ y.early = x.early /\ y.rGot = x.rGot
      /\ y.cIn = x.cIn /\ y.cTodo = x.cTodo /\ y.sent = x.sent
      /\ y.clientEof = x.clientEof /\ y.rShut = x.rShut
      /\ y.toClient = x.toClient /\ y.cGot = x.cGot
      /\ y.rIn = x.rIn /\ y.rTodo = x.rTodo /\ y.replies = x.replies
      /\ y.remoteEof = x.remoteEof /\ y.cShut = x.cShut
      /\ y.closeAfterFlush = x.closeAfterFlush
  BY <1>0 DEF Connections
<1>5. Connected(x) = Interest(y)
  BY DEF Connected
<1> HIDE DEF y
<1>6. DownHs(y) = << >> /\ DownHs(x) = << >>
  BY <1>4 DEF DownHs, RemotePhases
<1>7. Asking(x, y, "ug")
  BY <1>1, <1>2, <1>4, <1>6 DEF Asking
<1>8. Sound(y)
  BY <1>3, <1>7, AskingSound
<1> QED
  BY <1>1, <1>4, <1>5, <1>8, InterestSound DEF Stepped, SameBody

\* A turn of the loop for a ready connection, in any phase.
LEMMA ServeSound ==
  ASSUME NEW x, Sound(x), Settled(x), x.state = "open", NEW y \in Serve(x)
  PROVE  Stepped(x, y)
<1>0. x.phase \in Phases
  BY DEF Sound, Connections
<1>1. CASE x.phase \in ClientPhases
  <2>1. y \in ServiceClient(x)
    BY <1>1 DEF Serve, ClientPhases, RemotePhases
  <2> QED
    BY <1>1, <2>1, ServiceClientSound
<1>2. CASE x.phase = "connecting"
  <2>1. y = Interest(x)
    BY <1>2 DEF Serve, ClientPhases, RemotePhases
  <2> QED
    BY <1>2, <2>1, InterestSound DEF Stepped, SameBody, Settled
<1>3. CASE x.phase \in RemotePhases
  <2>1. y \in ServiceRemote(x)
    BY <1>3 DEF Serve, ClientPhases, RemotePhases
  <2> QED
    BY <1>3, <2>1, ServiceRemoteSound
<1>4. CASE x.phase = "relay"
  <2>1. y \in Relay(x)
    BY <1>4 DEF Serve, ClientPhases, RemotePhases
  <2> QED
    BY <1>4, <2>1, RelaySound
<1> QED
  BY <1>0, <1>1, <1>2, <1>3, <1>4 DEF Phases
-----------------------------------------------------------------------------
(***************************************************************************)
(* The selector loop.                                                      *)
(***************************************************************************)
Half == {c \in Open : conn[c].half}

\* The limit of connections is a positive number.
LEMMA MaxActiveNat == MaxActive \in Nat \ {0}
BY BridgeAssumption

\* The counters are cardinalities, so numbers.
LEMMA CountsAreNat ==
  ASSUME Counted
  PROVE  /\ active \in Nat /\ halfClosed \in Nat
         /\ IsFiniteSet(Open) /\ IsFiniteSet(Half) /\ halfClosed = Cardinality(Half)
<1>1. IsFiniteSet(Open) /\ Half \subseteq Open
  BY DEF Counted, Half
<1>2. IsFiniteSet(Half)
  BY <1>1, FS_Subset
<1> QED
  BY <1>1, <1>2, FS_CardinalityType DEF Counted, Half

\* One open connection takes a step.
LEMMA SettleKeeps ==
  ASSUME BridgeInv, NEW c \in Ids, conn[c].state = "open", NEW y, Stepped(conn[c], y),
         Settle(c, y), running' = running
  PROVE  BridgeInv'
<1> DEFINE x == conn[c]
<1>0. DOMAIN conn = Ids /\ conn' = [conn EXCEPT ![c] = y]
  BY DEF BridgeInv, Settle
<1>1. conn'[c] = y /\ (\A d \in Ids : d # c => conn'[d] = conn[d]) /\ DOMAIN conn' = Ids
  BY <1>0
<1>2. \A d \in Ids : Sound(conn'[d]) /\ Settled(conn'[d])
  BY <1>1 DEF BridgeInv, Stepped
<1>3. x.half \in BOOLEAN /\ y.half \in BOOLEAN /\ (x.half => y.half) /\ y.state \in {"open", "closed"}
  BY DEF BridgeInv, Stepped, Sound, Connections
<1>4. /\ active \in Nat /\ halfClosed \in Nat /\ IsFiniteSet(Open) /\ IsFiniteSet(Half)
      /\ active = Cardinality(Open) /\ halfClosed = Cardinality(Half) /\ active <= MaxActive
      /\ c \in Open /\ (c \in Half <=> x.half)
  BY CountsAreNat DEF BridgeInv, Counted, Half, Open
<1>5. running
  BY <1>4 DEF BridgeInv, Counted
<1>6. CASE y.state = "open"
  <2>1. Open' = Open
    BY <1>1, <1>6 DEF Open
  <2>2. active' = active
    BY <1>4, <1>6 DEF Settle, Count
  <2>3. CASE y.half /\ ~x.half
    <3>1. Half' = Half \cup {c}
      BY <1>1, <1>6, <2>1, <2>3 DEF Half, Open
    <3>2. halfClosed' = halfClosed + 1
      BY <1>4, <1>6, <2>3 DEF Settle, Count
    <3>3. Cardinality(Half \cup {c}) = Cardinality(Half) + 1
      BY <1>4, <2>3, FS_AddElement
    <3>4. halfClosed' = Cardinality(Half')
      BY <1>4, <3>1, <3>2, <3>3
    <3> QED
      BY <1>1, <1>2, <1>4, <1>5, <2>1, <2>2, <3>4 DEF BridgeInv, Counted, Half
  <2>4. CASE ~(y.half /\ ~x.half)
    <3>1. Half' = Half
      BY <1>1, <1>3, <1>6, <2>1, <2>4 DEF Half, Open
    <3>2. halfClosed' = halfClosed
      BY <1>4, <1>6, <2>4 DEF Settle, Count
    <3>3. halfClosed' = Cardinality(Half')
      BY <1>4, <3>1, <3>2
    <3> QED
      BY <1>1, <1>2, <1>4, <1>5, <2>1, <2>2, <3>3 DEF BridgeInv, Counted, Half
  <2> QED
    BY <2>3, <2>4
<1>7. CASE y.state = "closed"
  <2>1. Open' = Open \ {c} /\ Half' = Half \ {c}
    BY <1>1, <1>7 DEF Open, Half
  <2>2. active' = active - 1
    BY <1>7 DEF Settle, Count
  <2>3. IsFiniteSet(Open \ {c}) /\ Cardinality(Open \ {c}) = Cardinality(Open) - 1
    BY <1>4, FS_RemoveElement
  <2>4. Cardinality(Half \ {c}) = IF x.half THEN Cardinality(Half) - 1 ELSE Cardinality(Half)
    BY <1>4, FS_RemoveElement
  <2>5. halfClosed' = IF x.half THEN halfClosed - 1 ELSE halfClosed
    <3>1. CASE x.half
      BY <1>3, <1>4, <1>7, <3>1 DEF Settle, Count
    <3>2. CASE ~x.half /\ y.half
      BY <1>4, <1>7, <3>2 DEF Settle, Count
    <3>3. CASE ~x.half /\ ~y.half
      BY <1>4, <1>7, <3>3 DEF Settle, Count
    <3> QED
      BY <3>1, <3>2, <3>3
  <2>6. halfClosed' = Cardinality(Half')
    BY <1>4, <2>1, <2>4, <2>5
  <2>7. active' = Cardinality(Open') /\ active' <= MaxActive /\ IsFiniteSet(Open')
    BY <1>4, <2>1, <2>2, <2>3, MaxActiveNat
  <2> QED
    BY <1>1, <1>2, <1>5, <2>6, <2>7 DEF BridgeInv, Counted, Half
<1> QED
  BY <1>3, <1>6, <1>7

\* Serving a connection preserves the invariant.
LEMMA ServiceKeeps ==
  ASSUME BridgeInv, NEW c \in Ids, Service(c)
  PROVE  BridgeInv'
<1>1. conn[c].state = "open" /\ Sound(conn[c]) /\ Settled(conn[c]) /\ running' = running
  BY DEF Service, BridgeInv
<1>2. PICK y \in Serve(conn[c]) : Settle(c, y)
  BY DEF Service
<1> QED
  BY <1>1, <1>2, ServeSound, SettleKeeps

\* The end of a connect preserves the invariant.
LEMMA ConnectableKeeps ==
  ASSUME BridgeInv, NEW c \in Ids, Connectable(c)
  PROVE  BridgeInv'
<1> DEFINE x == conn[c]
<1>0. Sound(x) /\ Settled(x) /\ running' = running /\ "connect" \in x.rk /\ x.state \in {"new", "open", "closed"}
  BY DEF Connectable, BridgeInv, Sound, Connections
<1>1. x.state = "open"
  <2>1. x.state # "closed"
    BY <1>0 DEF Settled
  <2>2. x.state # "new"
    <3>1. New(x.sent, x.replies).rk = {}
      BY DEF New
    <3> QED
      BY <1>0, <3>1 DEF Settled
  <2> QED
    BY <1>0, <2>1, <2>2
<1>2. x.phase = "connecting"
  BY <1>0, <1>1 DEF Settled, RemoteKey
<1>3. CASE Settle(c, Connected(x))
  BY <1>0, <1>1, <1>2, <1>3, ConnectedSound, SettleKeeps
<1>4. CASE \E y \in FailUpstream(x) : Settle(c, y)
  <2>1. PICK y \in FailUpstream(x) : Settle(c, y)
    BY <1>4
  <2>2. Stepped(x, y)
    BY <1>0, <1>1, <1>2, FailUpstreamSound
  <2> QED
    BY <1>0, <1>1, <2>1, <2>2, SettleKeeps
<1> QED
  BY <1>3, <1>4 DEF Connectable

\* A lost connection is closed and counted once.
LEMMA LoseKeeps ==
  ASSUME BridgeInv, NEW c \in Ids, Lose(c)
  PROVE  BridgeInv'
<1>1. conn[c].state = "open" /\ Sound(conn[c]) /\ conn[c].remote # "failed" /\ running' = running
      /\ Settle(c, Closed(conn[c]))
  BY DEF Lose, BridgeInv, Settled
<1>2. Stepped(conn[c], Closed(conn[c]))
  BY <1>1, ClosedSound DEF Stepped, SameBody
<1> QED
  BY <1>1, <1>2, SettleKeeps

\* A message of a peer arrives: neither stream changes.
LEMMA Arrived ==
  ASSUME NEW in \in Tokens, NEW todo \in Tokens, todo # << >>
  PROVE  /\ Append(in, Head(todo)) \in Tokens /\ Tail(todo) \in Tokens
         /\ Append(in, Head(todo)) \o Tail(todo) = in \o todo
<1>1. Tail(todo) \in Tokens /\ todo = <<Head(todo)>> \o Tail(todo) /\ <<Head(todo)>> \in Tokens /\ Head(todo) \in Token
  BY TailType
<1> DEFINE h == Head(todo)
           t == Tail(todo)
<1>2. t \in Tokens /\ todo = <<h>> \o t /\ <<h>> \in Tokens /\ h \in Token
  BY <1>1
<1> HIDE DEF h, t
<1>3. Append(in, h) = in \o <<h>> /\ Append(in, h) \in Tokens
  BY <1>2, AppendIsConcat, AppendProperties DEF Tokens
<1>4. (in \o <<h>>) \o t = in \o (<<h>> \o t)
  BY <1>2, Assoc
<1> QED
  BY <1>2, <1>3, <1>4 DEF h, t

\* Only one connection changes, and neither its state nor its half-close.
LEMMA QuietStep ==
  ASSUME BridgeInv, NEW c \in Ids, NEW y, conn' = [conn EXCEPT ![c] = y],
         Sound(y), Settled(y), y.state = conn[c].state, y.half = conn[c].half,
         running' = running, active' = active, halfClosed' = halfClosed
  PROVE  BridgeInv'
<1>0. DOMAIN conn = Ids
  BY DEF BridgeInv
<1>1. conn'[c] = y /\ (\A d \in Ids : d # c => conn'[d] = conn[d]) /\ DOMAIN conn' = Ids
  BY <1>0
<1>2. \A d \in Ids : Sound(conn'[d]) /\ Settled(conn'[d])
  BY <1>1 DEF BridgeInv
<1>3. Open' = Open /\ {d \in Open : conn[d].half}' = {d \in Open : conn[d].half}
  BY <1>1 DEF Open
<1>4. Counted'
  BY <1>3 DEF BridgeInv, Counted
<1> QED
  BY <1>1, <1>2, <1>4 DEF BridgeInv

\* What the client sends joins its stream.
LEMMA ClientSendsKeeps ==
  ASSUME BridgeInv, NEW c \in Ids, ClientSends(c)
  PROVE  BridgeInv'
<1> DEFINE x == conn[c]
           in == Append(x.cIn, Head(x.cTodo))
           todo == Tail(x.cTodo)
           y == [x EXCEPT !.cIn = in, !.cTodo = todo]
<1>0. /\ DOMAIN conn = Ids /\ Sound(x) /\ Settled(x) /\ x.state = "open" /\ x.cTodo # << >>
      /\ running' = running /\ active' = active /\ halfClosed' = halfClosed
  BY DEF BridgeInv, ClientSends
<1>1. x \in Connections /\ x.cIn \in Tokens /\ x.cTodo \in Tokens
  BY <1>0 DEF Sound, Connections
<1>2. conn' = [conn EXCEPT ![c] = y]
  BY <1>0, <1>1 DEF ClientSends, Connections
<1>3. in \in Tokens /\ todo \in Tokens /\ in \o todo = x.cIn \o x.cTodo
  BY <1>0, <1>1, Arrived
<1> HIDE DEF in, todo
<1>4. y \in Connections /\ y.cIn = in /\ y.cTodo = todo
  BY <1>1, <1>3 DEF Connections
<1>5. /\ y.state = x.state /\ y.half = x.half /\ y.remote = x.remote /\ y.ck = x.ck /\ y.rk = x.rk
      /\ y.phase = x.phase /\ y.hs = x.hs /\ y.early = x.early /\ y.closeAfterFlush = x.closeAfterFlush
      /\ y.toRemote = x.toRemote /\ y.rGot = x.rGot /\ y.sent = x.sent /\ y.replies = x.replies
      /\ y.clientEof = x.clientEof /\ y.rShut = x.rShut
      /\ SameDown(x, y)
  BY <1>1 DEF Connections, SameDown
<1> HIDE DEF y, x
<1>6. y.cIn \o y.cTodo = x.cIn \o x.cTodo
  BY <1>3, <1>4
<1>7. UpStream(y) = UpStream(x)
  BY <1>5, <1>6 DEF UpStream
<1>8. ~x.clientEof
  BY <1>0 DEF Sound, Up
<1>9. Up(y)
  BY <1>0, <1>5, <1>6, <1>7, <1>8 DEF Sound, Up
<1>10. Down(y)
  BY <1>0, <1>5, SameDownKeeps DEF Sound
<1>11. Shape(y)
  BY <1>0, <1>5 DEF Sound, Shape, SameDown
<1>12. ClientKey(y) = ClientKey(x) /\ RemoteKey(y) = RemoteKey(x) /\ RelayDone(y) = RelayDone(x)
  BY <1>5 DEF ClientKey, RemoteKey, RelayDone, SameDown
<1>13. Settled(y)
  BY <1>0, <1>5, <1>12 DEF Settled
<1> QED
  BY <1>0, <1>2, <1>4, <1>5, <1>9, <1>10, <1>11, <1>13, QuietStep DEF Sound, x

\* What the server sends joins its stream.
LEMMA RemoteSendsKeeps ==
  ASSUME BridgeInv, NEW c \in Ids, RemoteSends(c)
  PROVE  BridgeInv'
<1> DEFINE x == conn[c]
           in == Append(x.rIn, Head(x.rTodo))
           todo == Tail(x.rTodo)
           y == [x EXCEPT !.rIn = in, !.rTodo = todo]
<1>0. /\ DOMAIN conn = Ids /\ Sound(x) /\ Settled(x) /\ x.state = "open" /\ x.rTodo # << >>
      /\ running' = running /\ active' = active /\ halfClosed' = halfClosed
  BY DEF BridgeInv, RemoteSends
<1>1. x \in Connections /\ x.rIn \in Tokens /\ x.rTodo \in Tokens
  BY <1>0 DEF Sound, Connections
<1>2. conn' = [conn EXCEPT ![c] = y]
  BY <1>0, <1>1 DEF RemoteSends, Connections
<1>3. in \in Tokens /\ todo \in Tokens /\ in \o todo = x.rIn \o x.rTodo
  BY <1>0, <1>1, Arrived
<1> HIDE DEF in, todo
<1>4. y \in Connections /\ y.rIn = in /\ y.rTodo = todo
  BY <1>1, <1>3 DEF Connections
<1>5. /\ y.state = x.state /\ y.half = x.half /\ y.remote = x.remote /\ y.ck = x.ck /\ y.rk = x.rk
      /\ y.phase = x.phase /\ y.hs = x.hs /\ y.closeAfterFlush = x.closeAfterFlush
      /\ y.toClient = x.toClient /\ y.cGot = x.cGot /\ y.sent = x.sent /\ y.replies = x.replies
      /\ y.remoteEof = x.remoteEof /\ y.cShut = x.cShut
      /\ SameUp(x, y)
  BY <1>1 DEF Connections, SameUp
<1> HIDE DEF y, x
<1>6. y.rIn \o y.rTodo = x.rIn \o x.rTodo
  BY <1>3, <1>4
<1>7. DownStream(y) = DownStream(x)
  BY <1>5, <1>6 DEF DownStream
<1>8. ~x.remoteEof
  BY <1>0 DEF Sound, Down
<1>9. Down(y)
  BY <1>0, <1>5, <1>6, <1>7, <1>8 DEF Sound, Down
<1>10. Up(y)
  BY <1>0, <1>5, SameUpKeeps DEF Sound
<1>11. Shape(y)
  BY <1>0, <1>5 DEF Sound, Shape, SameUp
<1>12. ClientKey(y) = ClientKey(x) /\ RemoteKey(y) = RemoteKey(x) /\ RelayDone(y) = RelayDone(x)
  BY <1>5 DEF ClientKey, RemoteKey, RelayDone, SameUp
<1>13. Settled(y)
  BY <1>0, <1>5, <1>12 DEF Settled
<1> QED
  BY <1>0, <1>2, <1>4, <1>5, <1>9, <1>10, <1>11, <1>13, QuietStep DEF Sound, x

\* onAccept registers the client for reading, which is what updateInterest asks
\* for a greeting.
LEMMA OpenedSound ==
  ASSUME NEW x, Sound(x), Settled(x), x.state = "new"
  PROVE  LET y == Opened(x)
         IN  Sound(y) /\ Settled(y) /\ y.state = "open" /\ ~y.half
<1> DEFINE y == Opened(x)
<1>0. x \in Connections /\ x = New(x.sent, x.replies)
  BY DEF Sound, Settled
<1>1. /\ x.phase = "greeting" /\ ~x.closeAfterFlush /\ x.toClient = << >> /\ x.remote = "none"
      /\ x.rk = {} /\ x.half = FALSE
  BY <1>0 DEF New
<1>2. y \in Connections /\ SameBody(x, y) /\ y.state = "open" /\ y.ck = {"read"} /\ y.rk = x.rk
  BY <1>0 DEF Opened, Connections, SameBody, SameUp, SameDown
<1> HIDE DEF y
<1>3. Sound(y)
  BY <1>2, SameBodySound
<1>4. /\ y.phase = "greeting" /\ ~y.closeAfterFlush /\ y.toClient = << >> /\ y.remote = "none"
      /\ ~y.half
  BY <1>1, <1>2 DEF SameBody, SameUp, SameDown
<1>5. ClientKey(y) = {"read"} /\ RemoteKey(y) = {}
  BY <1>4 DEF ClientKey, RemoteKey, ClientPhases
<1>6. Settled(y)
  BY <1>1, <1>2, <1>4, <1>5 DEF Settled
<1> QED
  BY <1>2, <1>3, <1>4, <1>6 DEF y

\* An accepted connection is counted, an evicted one no longer.
LEMMA AcceptKeeps ==
  ASSUME BridgeInv, NEW c \in Ids, Accept(c)
  PROVE  BridgeInv'
<1> DEFINE y == Opened(conn[c])
<1>0. /\ DOMAIN conn = Ids /\ conn[c].state = "new" /\ Sound(conn[c]) /\ Settled(conn[c])
      /\ running /\ running' = running
  BY DEF BridgeInv, Accept
<1>1. Sound(y) /\ Settled(y) /\ y.state = "open" /\ ~y.half
  BY <1>0, OpenedSound
<1> HIDE DEF y
<1>2. /\ active \in Nat /\ halfClosed \in Nat /\ IsFiniteSet(Open) /\ IsFiniteSet(Half)
      /\ active = Cardinality(Open) /\ halfClosed = Cardinality(Half) /\ active <= MaxActive
      /\ c \notin Open /\ MaxActive \in Nat
  BY <1>0, CountsAreNat, MaxActiveNat DEF BridgeInv, Counted, Open
<1>3. IsFiniteSet(Open \cup {c}) /\ Cardinality(Open \cup {c}) = Cardinality(Open) + 1
  BY <1>2, FS_AddElement
<1>4. CASE active >= MaxActive
  <2>1. PICK v \in Open :
          /\ conn' = [conn EXCEPT ![c] = Opened(@), ![v] = Closed(@)]
          /\ halfClosed' = halfClosed - Count(conn[v].half)
          /\ active' = active
    BY <1>4 DEF Accept
  <2> DEFINE z == Closed(conn[v])
  <2>2. v \in Ids /\ v # c /\ Sound(conn[v]) /\ Settled(conn[v]) /\ conn[v].half \in BOOLEAN
    BY <1>2 DEF Open, BridgeInv, Sound, Connections
  <2>3. Sound(z) /\ Settled(z) /\ z.state = "closed"
    BY <2>2, ClosedSound DEF Settled
  <2>4. conn' = [conn EXCEPT ![c] = y, ![v] = z]
    BY <1>0, <2>1, <2>2 DEF y
  <2> HIDE DEF z
  <2>5. /\ DOMAIN conn' = Ids /\ conn'[c] = y /\ conn'[v] = z
        /\ \A d \in Ids : d # c /\ d # v => conn'[d] = conn[d]
    BY <1>0, <2>2, <2>4
  <2>6. \A d \in Ids : Sound(conn'[d]) /\ Settled(conn'[d])
    BY <1>1, <2>3, <2>5 DEF BridgeInv
  <2>7. Open' = (Open \cup {c}) \ {v} /\ Half' = Half \ {v}
    <3>1. Open' = (Open \cup {c}) \ {v}
      BY <1>1, <2>2, <2>3, <2>5 DEF Open
    <3>2. \A d \in Ids : d \in Half' <=> d \in Half /\ d # v
      <4>1. \A d \in Ids : d # c /\ d # v => (d \in Half' <=> d \in Half)
        BY <2>5, <3>1 DEF Half
      <4>2. c \notin Half' /\ c \notin Half /\ v \notin Half'
        BY <1>1, <1>2, <2>5, <3>1 DEF Half
      <4> QED
        BY <4>1, <4>2
    <3>3. Half \subseteq Ids /\ Half' \subseteq Ids
      BY DEF Half, Open
    <3> QED
      BY <3>1, <3>2, <3>3
  <2>8. IsFiniteSet((Open \cup {c}) \ {v}) /\ Cardinality((Open \cup {c}) \ {v}) = Cardinality(Open \cup {c}) - 1
    BY <1>3, <2>1, FS_RemoveElement
  <2>9. Cardinality(Half \ {v}) = IF v \in Half THEN Cardinality(Half) - 1 ELSE Cardinality(Half)
    BY <1>2, FS_RemoveElement
  <2>10. v \in Half <=> conn[v].half
    BY <2>1 DEF Half
  <2>11. halfClosed' = Cardinality(Half')
    BY <1>2, <2>1, <2>2, <2>7, <2>9, <2>10 DEF Count
  <2>12. active' = Cardinality(Open') /\ active' <= MaxActive /\ IsFiniteSet(Open')
    BY <1>2, <1>3, <2>1, <2>7, <2>8
  <2> QED
    BY <1>0, <2>5, <2>6, <2>11, <2>12 DEF BridgeInv, Counted, Half
<1>5. CASE ~(active >= MaxActive)
  <2>1. conn' = [conn EXCEPT ![c] = y] /\ active' = active + 1 /\ halfClosed' = halfClosed
    BY <1>0, <1>5 DEF Accept, y
  <2>2. DOMAIN conn' = Ids /\ conn'[c] = y /\ \A d \in Ids : d # c => conn'[d] = conn[d]
    BY <1>0, <2>1
  <2>3. \A d \in Ids : Sound(conn'[d]) /\ Settled(conn'[d])
    BY <1>1, <2>2 DEF BridgeInv
  <2>4. Open' = Open \cup {c} /\ Half' = Half
    BY <1>1, <1>2, <2>2 DEF Open, Half
  <2>5. active' = Cardinality(Open') /\ active' <= MaxActive /\ IsFiniteSet(Open')
    BY <1>2, <1>3, <1>5, <2>1, <2>4
  <2>6. halfClosed' = Cardinality(Half')
    BY <1>2, <2>1, <2>4
  <2> QED
    BY <1>0, <2>2, <2>3, <2>5, <2>6 DEF BridgeInv, Counted, Half
<1> QED
  BY <1>4, <1>5

\* Stopping the bridge closes every connection and clears the counter.
LEMMA StopKeeps ==
  ASSUME BridgeInv, Stop
  PROVE  BridgeInv'
<1>0. /\ DOMAIN conn = Ids /\ running' = FALSE
      /\ conn' = [c \in Ids |-> IF c \in Open THEN Closed(conn[c]) ELSE conn[c]]
  BY DEF BridgeInv, Stop
<1>1. \A c \in Ids : Sound(conn'[c]) /\ Settled(conn'[c]) /\ conn'[c].state # "open"
  <2> SUFFICES ASSUME NEW c \in Ids
               PROVE  Sound(conn'[c]) /\ Settled(conn'[c]) /\ conn'[c].state # "open"
    OBVIOUS
  <2>1. Sound(conn[c]) /\ Settled(conn[c]) /\ conn[c].remote # "failed"
    BY DEF BridgeInv, Settled
  <2>2. CASE c \in Open
    <3>1. conn'[c] = Closed(conn[c])
      BY <1>0, <2>2
    <3> QED
      BY <2>1, <3>1, ClosedSound
  <2>3. CASE c \notin Open
    BY <1>0, <2>1, <2>3 DEF Open
  <2> QED
    BY <2>2, <2>3
<1>2. Open' = {} /\ {c \in Open : conn[c].half}' = {}
  BY <1>1 DEF Open
<1>3. /\ active \in Nat /\ halfClosed \in Nat /\ active = Cardinality(Open)
      /\ halfClosed = Cardinality({c \in Open : conn[c].half})
  BY CountsAreNat DEF BridgeInv, Counted
<1>4. active' = 0 /\ halfClosed' = 0
  BY <1>3 DEF Stop
<1>5. IsFiniteSet(Open') /\ Cardinality(Open') = 0 /\ Cardinality({c \in Open : conn[c].half}') = 0
  BY <1>2, FS_EmptySet
<1>6. Counted'
  <2>0. running' \in BOOLEAN
    BY <1>0, Zenon
  <2>1. active' <= MaxActive
    BY <1>4, MaxActiveNat
  <2>2. active' = Cardinality(Open')
    BY <1>4, <1>5
  <2>3. halfClosed' = Cardinality({c \in Open : conn[c].half}')
    BY <1>4, <1>5
  <2> QED
    BY <1>2, <1>5, <2>0, <2>1, <2>2, <2>3 DEF Counted
<1> QED
  BY <1>0, <1>1, <1>6 DEF BridgeInv

\* Starting the bridge preserves the invariant.
LEMMA StartKeeps ==
  ASSUME BridgeInv, Start
  PROVE  BridgeInv'
<1>1. Open = {} /\ conn' = conn /\ active' = 0 /\ halfClosed' = 0 /\ running' = TRUE
  BY DEF BridgeInv, Counted, Start
<1>2. Open' = {} /\ {c \in Open : conn[c].half}' = {}
  BY <1>1 DEF Open
<1>3. IsFiniteSet(Open') /\ Cardinality(Open') = 0 /\ Cardinality({c \in Open : conn[c].half}') = 0
  BY <1>2, FS_EmptySet
<1>4. Counted'
  BY <1>1, <1>3, MaxActiveNat DEF Counted
<1> QED
  BY <1>1, <1>4 DEF BridgeInv

\* A connection that has not begun.
LEMMA NewSound ==
  ASSUME NEW cs \in Seq(STRING), NEW rs \in Seq(STRING), EndsAtFin(cs), EndsAtFin(rs)
  PROVE  Sound(New(cs, rs)) /\ Settled(New(cs, rs)) /\ New(cs, rs).state = "new"
<1> DEFINE x == New(cs, rs)
<1>1. cs \in Tokens /\ rs \in Tokens /\ << >> \in Tokens
  BY SeqMonotonic, EmptyTokens DEF Tokens, Token
<1>2. x \in Connections
  BY <1>1 DEF New, Connections, Phases, ClientPhases
<1>3. /\ x.state = "new" /\ x.phase = "greeting" /\ x.hs = << >> /\ x.early = << >>
      /\ x.toRemote = << >> /\ x.toClient = << >> /\ ~x.clientEof /\ ~x.remoteEof
      /\ ~x.closeAfterFlush /\ x.remote = "none" /\ x.ck = {} /\ x.rk = {}
      /\ x.sent = cs /\ x.replies = rs /\ x.cIn = << >> /\ x.cTodo = cs /\ x.cGot = << >>
      /\ ~x.cShut /\ x.rIn = << >> /\ x.rTodo = rs /\ x.rGot = << >> /\ ~x.rShut
  BY DEF New
<1>4. x = New(x.sent, x.replies)
  BY <1>3
<1> HIDE DEF x
<1>5. << >> \o cs = cs /\ << >> \o rs = rs /\ << >> \o << >> = << >>
  BY <1>1, EmptyTokens
<1>6. UpStream(x) = cs /\ DownStream(x) = rs
  BY <1>3, <1>5 DEF UpStream, DownStream
<1>7. x.phase \in ClientPhases /\ x.phase \notin RemotePhases \cup {"connecting", "relay"}
  BY <1>3 DEF ClientPhases, RemotePhases
<1>8. \A t : DataAfter(<< >>, t)
  BY DEF DataAfter
<1>9. Up(x)
  <2>1. EndsAtFin(x.cIn \o x.cTodo) /\ DataAfter(x.rGot \o x.toRemote, "uc") /\ Data(UpStream(x)) = Data(x.sent)
    BY <1>3, <1>5, <1>6, <1>8
  <2> QED
    BY <1>3, <2>1 DEF Up
<1>10. Down(x)
  <2>1. EndsAtFin(x.rIn \o x.rTodo) /\ DataAfter(x.cGot \o x.toClient, "ok") /\ Data(DownStream(x)) = Data(x.replies)
    BY <1>3, <1>5, <1>6, <1>8
  <2> QED
    BY <1>3, <2>1 DEF Down
<1>11. Shape(x)
  BY <1>3, <1>7 DEF Shape
<1>12. Settled(x)
  BY <1>3, <1>4 DEF Settled
<1> QED
  BY <1>2, <1>3, <1>9, <1>10, <1>11, <1>12 DEF Sound, x

\* A bridge that has just started satisfies the invariant.
LEMMA InitInv == Init => BridgeInv
<1> SUFFICES ASSUME Init PROVE BridgeInv
  OBVIOUS
<1>1. /\ mode \in Cases /\ running = TRUE /\ active = 0 /\ halfClosed = 0
      /\ conn = [c \in Ids |-> New(mode.client[c], mode.remote[c])]
  BY DEF Init
<1>2. \A c \in Ids : Sound(conn[c]) /\ Settled(conn[c]) /\ conn[c].state = "new"
  <2> SUFFICES ASSUME NEW c \in Ids
               PROVE  Sound(conn[c]) /\ Settled(conn[c]) /\ conn[c].state = "new"
    OBVIOUS
  <2> DEFINE cs == mode.client[c]
             rs == mode.remote[c]
  <2>1. cs \in Seq(STRING) /\ rs \in Seq(STRING) /\ EndsAtFin(cs) /\ EndsAtFin(rs)
    BY <1>1, BridgeAssumption
  <2>2. conn[c] = New(cs, rs)
    BY <1>1
  <2> HIDE DEF cs, rs
  <2> QED
    BY <2>1, <2>2, NewSound
<1>3. Open = {} /\ {c \in Open : conn[c].half} = {}
  BY <1>2 DEF Open
<1>4. Counted
  BY <1>1, <1>3, FS_EmptySet, MaxActiveNat DEF Counted
<1> QED
  BY <1>1, <1>2, <1>4 DEF BridgeInv

\* The inductive invariant is one.
LEMMA BridgeInductive == Spec => []BridgeInv
<1>1. BridgeInv /\ [Next]_vars => BridgeInv'
  <2> SUFFICES ASSUME BridgeInv, [Next]_vars
               PROVE  BridgeInv'
    OBVIOUS
  <2>1. CASE Stop
    BY <2>1, StopKeeps
  <2>2. CASE Start
    BY <2>2, StartKeeps
  <2>3. ASSUME NEW c \in Ids, Accept(c)
        PROVE  BridgeInv'
    BY <2>3, AcceptKeeps
  <2>4. ASSUME NEW c \in Ids, Connectable(c)
        PROVE  BridgeInv'
    BY <2>4, ConnectableKeeps
  <2>5. ASSUME NEW c \in Ids, Service(c)
        PROVE  BridgeInv'
    BY <2>5, ServiceKeeps
  <2>6. ASSUME NEW c \in Ids, Lose(c)
        PROVE  BridgeInv'
    BY <2>6, LoseKeeps
  <2>7. ASSUME NEW c \in Ids, ClientSends(c)
        PROVE  BridgeInv'
    BY <2>7, ClientSendsKeeps
  <2>8. ASSUME NEW c \in Ids, RemoteSends(c)
        PROVE  BridgeInv'
    BY <2>8, RemoteSendsKeeps
  <2>9. CASE UNCHANGED vars
    BY <2>9 DEF vars, BridgeInv, Counted, Open
  <2> QED
    BY <2>1, <2>2, <2>3, <2>4, <2>5, <2>6, <2>7, <2>8, <2>9 DEF Next
<1> QED
  BY InitInv, <1>1, PTL DEF Spec

-----------------------------------------------------------------------------
(***************************************************************************)
(* The theorems.                                                           *)
(***************************************************************************)
\* No byte of either direction of an open connection is lost, repeated or
\* reordered, and the handshake comes first, for every script of the peers,
\* every buffer size and every way reads and writes may be cut.
THEOREM NoByteIsLost == Spec => []StreamsConserved
<1>1. BridgeInv => StreamsConserved
  <2> SUFFICES ASSUME BridgeInv PROVE StreamsConserved
    OBVIOUS
  <2>1. \A c \in Ids : Up(conn[c]) /\ Down(conn[c])
    BY DEF BridgeInv, Sound
  <2>2. HandshakeFirst
    BY <2>1 DEF HandshakeFirst, Up, Down
  <2>3. \A c \in Open : ~conn[c].closeAfterFlush =>
          /\ Data(UpStream(conn[c])) = Data(conn[c].sent)
          /\ Data(DownStream(conn[c])) = Data(conn[c].replies)
    BY <2>1 DEF Open, Up, Down
  <2> QED
    BY <2>2, <2>3 DEF StreamsConserved
<1> QED
  BY <1>1, BridgeInductive, PTL

\* A server that has seen the end has got all of the client's data.
LEMMA EndedUp ==
  ASSUME NEW x, Sound(x), x.rShut
  PROVE  Data(x.rGot) = Data(x.sent)
<1>1. x \in Connections /\ x.rGot \in Tokens
  BY DEF Sound, Connections
<1>2. x.phase = "relay" /\ ~x.closeAfterFlush
  BY DEF Sound, Shape, ClientPhases
<1>3. x.clientEof /\ x.toRemote = << >> /\ x.early = << >> /\ x.cIn = <<"FIN">> /\ x.cTodo = << >>
  BY <1>2 DEF Sound, Up
<1>4. UpHs(x) = << >>
  BY <1>2 DEF UpHs, ClientPhases
<1>5. << >> \in Tokens /\ <<"FIN">> \in Tokens /\ << >> \o <<"FIN">> = <<"FIN">> /\ <<"FIN">> \o << >> = <<"FIN">>
  BY EmptyTokens, DataFin
<1>6. UpStream(x) = x.rGot \o <<"FIN">>
  BY <1>1, <1>3, <1>4, <1>5, Streams DEF UpRest
<1>7. Data(x.rGot \o <<"FIN">>) = Data(x.rGot) \o Data(<<"FIN">>)
  BY <1>1, <1>5, DataConcat
<1>8. Data(x.rGot) \o << >> = Data(x.rGot)
  BY <1>1, DataType, EmptyTokens
<1>9. Data(UpStream(x)) = Data(x.sent)
  BY <1>2 DEF Sound, Up
<1> QED
  BY <1>6, <1>7, <1>8, <1>9, DataFin

\* A client that has seen the end has got all of the server's data.
LEMMA EndedDown ==
  ASSUME NEW x, Sound(x), x.cShut
  PROVE  Data(x.cGot) = Data(x.replies)
<1>1. x \in Connections /\ x.cGot \in Tokens
  BY DEF Sound, Connections
<1>2. x.phase = "relay" /\ ~x.closeAfterFlush
  BY DEF Sound, Shape, ClientPhases
<1>3. x.remoteEof /\ x.toClient = << >> /\ x.rIn = <<"FIN">> /\ x.rTodo = << >>
  BY <1>2 DEF Sound, Down
<1>4. DownHs(x) = << >>
  BY <1>2 DEF DownHs, RemotePhases
<1>5. << >> \in Tokens /\ <<"FIN">> \in Tokens /\ << >> \o <<"FIN">> = <<"FIN">> /\ <<"FIN">> \o << >> = <<"FIN">>
  BY EmptyTokens, DataFin
<1>6. DownStream(x) = x.cGot \o <<"FIN">>
  BY <1>1, <1>3, <1>4, <1>5, Streams DEF DownRest
<1>7. Data(x.cGot \o <<"FIN">>) = Data(x.cGot) \o Data(<<"FIN">>)
  BY <1>1, <1>5, DataConcat
<1>8. Data(x.cGot) \o << >> = Data(x.cGot)
  BY <1>1, DataType, EmptyTokens
<1>9. Data(DownStream(x)) = Data(x.replies)
  BY <1>2 DEF Sound, Down
<1> QED
  BY <1>6, <1>7, <1>8, <1>9, DataFin

\* A peer that is told of the end of a stream has got all of it (half-close
\* propagation in relay).
THEOREM FinIsLast == Spec => []FinAfterData
<1>1. BridgeInv => FinAfterData
  BY EndedUp, EndedDown DEF BridgeInv, FinAfterData
<1> QED
  BY <1>1, BridgeInductive, PTL

\* What updateInterest leaves behind wakes every connection that has something
\* to do, and wakes none in vain.
THEOREM InterestIsExact == Spec => []InterestExact
<1>1. BridgeInv => NeverDeaf
  <2> SUFFICES ASSUME BridgeInv, NEW c \in Open, ~conn[c].closeAfterFlush
               PROVE  LET x == conn[c]
                      IN  /\ x.toClient # << >> => "write" \in x.ck
                          /\ x.toRemote # << >> => "write" \in x.rk
                          /\ x.phase \in ClientPhases => "read" \in x.ck
                          /\ x.phase \in RemotePhases => "read" \in x.rk
                          /\ x.ck \cup x.rk # {}
    BY DEF NeverDeaf
  <2> DEFINE x == conn[c]
  <2>1. c \in Ids /\ x.state = "open" /\ Sound(x) /\ Settled(x)
    BY DEF Open, BridgeInv
  <2>2. ~x.closeAfterFlush /\ x.ck = ClientKey(x) /\ x.rk = RemoteKey(x)
    BY <2>1 DEF Settled
  <2> HIDE DEF x
  <2>3. x.phase \in ClientPhases \cup RemotePhases \cup {"connecting", "relay"}
        /\ x.toRemote \in Tokens /\ x.toClient \in Tokens /\ x.clientEof \in BOOLEAN /\ x.remoteEof \in BOOLEAN
    BY <2>1 DEF Sound, Connections, Phases
  <2>4. x.toClient # << >> => "write" \in x.ck
    BY <2>2 DEF ClientKey
  <2>5. x.phase \notin ClientPhases => x.remote # "none"
    BY <2>1, <2>3 DEF Sound, Shape
  <2>6. x.toRemote # << >> => "write" \in x.rk
    <3>1. x.toRemote # << >> => x.phase \notin ClientPhases
      BY <2>1, <2>2 DEF Sound, Up
    <3> QED
      BY <2>2, <2>5, <3>1 DEF RemoteKey
  <2>7. x.phase \in ClientPhases => "read" \in x.ck
    BY <2>2 DEF ClientKey
  <2>8. x.phase \in RemotePhases => "read" \in x.rk
    BY <2>2, <2>5 DEF RemoteKey, RemotePhases, ClientPhases
  <2>9. x.phase = "connecting" => "connect" \in x.rk
    BY <2>2, <2>5 DEF RemoteKey, ClientPhases
  <2>10. x.phase = "relay" => x.ck \cup x.rk # {}
    <3> SUFFICES ASSUME x.phase = "relay" PROVE x.ck \cup x.rk # {}
      OBVIOUS
    <3>1. ~RelayDone(x)
      BY <2>1 DEF Settled
    <3>2. CASE x.toClient # << >>
      BY <2>4, <3>2
    <3>3. CASE x.toRemote # << >>
      BY <2>6, <3>3
    <3>4. CASE x.toClient = << >> /\ x.toRemote = << >>
      <4>1. Room(x.toClient) > 0 /\ Room(x.toRemote) > 0
        <5>1. Len(<< >>) = 0
          OBVIOUS
        <5> QED
          BY <3>4, <5>1, CapNat DEF Room
      <4>2. CASE ~x.clientEof
        BY <2>2, <4>1, <4>2 DEF ClientKey
      <4>3. CASE ~x.remoteEof
        <5>1. "read" \in RemoteKey(x)
          BY <2>5, <4>1, <4>3 DEF RemoteKey, ClientPhases
        <5> QED
          BY <2>2, <5>1
      <4> QED
        BY <3>1, <3>4, <4>2, <4>3 DEF RelayDone
    <3> QED
      BY <3>2, <3>3, <3>4
  <2>11. x.ck \cup x.rk # {}
    BY <2>3, <2>7, <2>8, <2>9, <2>10
  <2> QED
    BY <2>4, <2>6, <2>7, <2>8, <2>11 DEF x
<1>2. BridgeInv => NoSpin
  <2> SUFFICES ASSUME BridgeInv, NEW c \in Open, conn[c].phase = "relay", Readable(conn[c])
               PROVE  conn[c] \notin Serve(conn[c])
    BY DEF NoSpin
  <2> DEFINE x == conn[c]
  <2>1. c \in Ids /\ x.state = "open" /\ Sound(x) /\ Settled(x) /\ x.phase = "relay" /\ Readable(x)
    BY DEF Open, BridgeInv
  <2> HIDE DEF x
  <2>2. ~x.closeAfterFlush /\ x.ck = ClientKey(x) /\ x.rk = RemoteKey(x)
    BY <2>1 DEF Sound, Shape, Settled, ClientPhases
  <2>3. "read" \in ClientKey(x) => ~x.clientEof /\ Room(x.toRemote) > 0
    BY <2>1 DEF ClientKey, ClientPhases
  <2>4. "read" \in RemoteKey(x) => ~x.remoteEof /\ Room(x.toClient) > 0
    BY <2>1 DEF RemoteKey, RemotePhases
  <2>5. CanRead(x)
    BY <2>1, <2>2, <2>3, <2>4 DEF Readable, CanRead
  <2>6. Serve(x) = Relay(x)
    BY <2>1 DEF Serve, ClientPhases, RemotePhases
  <2>7. \A y \in Relay(x) : y # x
    BY <2>1, <2>5, RelaySound
  <2> QED
    BY <2>6, <2>7 DEF x
<1>3. BridgeInv => InterestExact
  BY <1>1, <1>2 DEF InterestExact
<1> QED
  BY <1>3, BridgeInductive, PTL

\* activeClients and halfClosedClients are the numbers of open and of
\* half-closed connections, and the first stays within maxActiveClients.
THEOREM CountersAreExact == Spec => []CountersExact
<1>1. BridgeInv => CountersExact
  <2> SUFFICES ASSUME BridgeInv PROVE CountersExact
    OBVIOUS
  <2>1. /\ active \in Nat /\ halfClosed \in Nat /\ running \in BOOLEAN
        /\ active = Cardinality(Open) /\ active <= MaxActive
        /\ halfClosed = Cardinality({c \in Open : conn[c].half})
    BY CountsAreNat DEF BridgeInv, Counted
  <2>2. ASSUME NEW c \in Ids
        PROVE  /\ conn[c].state \in {"new", "open", "closed"}
               /\ conn[c].phase \in ClientPhases \cup RemotePhases \cup {"connecting", "relay"}
               /\ conn[c].remote \in {"none", "connecting", "open"}
               /\ conn[c].ck \subseteq {"read", "write"}
               /\ conn[c].rk \subseteq {"read", "write", "connect"}
    BY DEF BridgeInv, Sound, Settled, Connections, Phases
  <2> QED
    BY <2>1, <2>2 DEF CountersExact, TypeOK
<1> QED
  BY <1>1, BridgeInductive, PTL

-----------------------------------------------------------------------------
(***************************************************************************)
(* The reaper's limits hold for all values of the timeouts, provided the   *)
(* loop ends each of its turns with reapIdle.                              *)
(***************************************************************************)
\* What the code's timestamps mean for a connection that is still alive, and
\* that it has just passed the test of shouldReap.
Timestamps ==
    /\ createdAt <= now
    /\ lastActivity = moved /\ halfClosedAt = ended
    /\ moved <= now /\ ended <= now
    /\ status = "handshake" => ~buffered
    /\ ~buffered => bufferStuckSince = 0
    /\ buffered => bufferStuckSince > 0 /\ bufferStuckSince <= moved
    /\ ~shouldReap(now, lastActivity, halfClosedAt, bufferStuckSince)

ReaperInv == ReaperTypeOK /\ (Alive => Timestamps)

\* The invariant implies both limits.
LEMMA LimitsFollow == ReaperInv => QuietIsReclaimed /\ TrickleIsBounded
  BY ReaperAssumption
  DEF ReaperInv, ReaperTypeOK, Timestamps, Alive, QuietIsReclaimed, TrickleIsBounded, shouldReap, createdAt

\* A new connection satisfies it.
LEMMA InitReaper == ReaperInit => ReaperInv
<1> SUFFICES ASSUME ReaperInit PROVE ReaperInv
  OBVIOUS
<1>1. ReaperTypeOK
  <2>1. buffered \in BOOLEAN
    BY Zenon DEF ReaperInit
  <2> QED
    BY <2>1 DEF ReaperInit, ReaperTypeOK, createdAt
<1>2. ~shouldReap(now, lastActivity, halfClosedAt, bufferStuckSince)
  BY ReaperAssumption DEF ReaperInit, shouldReap, createdAt
<1>3. Timestamps
  BY <1>2 DEF ReaperInit, Timestamps, createdAt
<1> QED
  BY <1>1, <1>3 DEF ReaperInv

\* A turn of the loop preserves the types.
LEMMA TurnTypes == ReaperTypeOK /\ [ReaperNext]_reaperVars => ReaperTypeOK'
<1> SUFFICES ASSUME ReaperTypeOK, [ReaperNext]_reaperVars PROVE ReaperTypeOK'
  OBVIOUS
<1>1. CASE UNCHANGED reaperVars
  BY <1>1 DEF ReaperTypeOK, reaperVars
<1>2. CASE Turn
  <2>1. PICK t \in now..(now + Period) :
          /\ Alive /\ now' = t
          /\ \/ QuietTurn(t)
             \/ \E progress \in BOOLEAN : HandshakeTurn(t, progress)
             \/ \E progress, ends, buf \in BOOLEAN : RelayTurn(t, progress, ends, buf)
    BY <1>2 DEF Turn
  <2>2. t \in Nat
    BY <2>1, ReaperAssumption DEF ReaperTypeOK
  <2>3. CASE QuietTurn(t)
    BY <2>1, <2>2, <2>3 DEF ReaperTypeOK, QuietTurn, reapIdle, Alive
  <2>4. ASSUME NEW progress \in BOOLEAN, HandshakeTurn(t, progress)
        PROVE  ReaperTypeOK'
    BY <2>1, <2>2, <2>4 DEF ReaperTypeOK, HandshakeTurn, reapIdle, touch
  <2>5. ASSUME NEW progress \in BOOLEAN, NEW ends \in BOOLEAN, NEW buf \in BOOLEAN,
               RelayTurn(t, progress, ends, buf)
        PROVE  ReaperTypeOK'
    BY <2>1, <2>2, <2>5
    DEF ReaperTypeOK, RelayTurn, reapIdle, touch, markHalfClosed, stuckSince, MayEnd
  <2> QED
    BY <2>1, <2>3, <2>4, <2>5
<1> QED
  BY <1>1, <1>2 DEF ReaperNext

\* A turn of the loop keeps the timestamps of a survivor right: whatever it
\* does to them, reapIdle tests the result.
LEMMA TurnTimestamps == ReaperInv /\ Turn => (Alive' => Timestamps')
<1> SUFFICES ASSUME ReaperInv, Turn, Alive' PROVE Timestamps'
  OBVIOUS
<1>1. PICK t \in now..(now + Period) :
        /\ Alive /\ now' = t
        /\ \/ QuietTurn(t)
           \/ \E progress \in BOOLEAN : HandshakeTurn(t, progress)
           \/ \E progress, ends, buf \in BOOLEAN : RelayTurn(t, progress, ends, buf)
  BY DEF Turn
<1>2. /\ ReaperTypeOK /\ Timestamps
      /\ t \in Nat /\ now <= t
  BY <1>1, ReaperAssumption DEF ReaperInv, ReaperTypeOK
<1>3. CASE QuietTurn(t)
  BY <1>1, <1>2, <1>3 DEF ReaperTypeOK, Timestamps, QuietTurn, reapIdle, Alive, createdAt
<1>4. ASSUME NEW progress \in BOOLEAN, HandshakeTurn(t, progress)
      PROVE  Timestamps'
  BY <1>1, <1>2, <1>4
  DEF ReaperTypeOK, Timestamps, HandshakeTurn, reapIdle, Alive, touch, createdAt
<1>5. ASSUME NEW progress \in BOOLEAN, NEW ends \in BOOLEAN, NEW buf \in BOOLEAN,
             RelayTurn(t, progress, ends, buf)
      PROVE  Timestamps'
  <2>1. /\ ~shouldReap(t, lastActivity', halfClosedAt', bufferStuckSince')
        /\ status' = "relay"
    BY <1>5 DEF RelayTurn, reapIdle, Alive
  <2>2. /\ lastActivity' = moved' /\ halfClosedAt' = ended'
        /\ moved' <= t /\ ended' <= t
    BY <1>2, <1>5 DEF ReaperTypeOK, Timestamps, RelayTurn, touch, markHalfClosed
  <2>3. /\ ~buffered' => bufferStuckSince' = 0
        /\ buffered' => bufferStuckSince' > 0 /\ bufferStuckSince' <= moved'
    <3>1. t > 0
      BY <1>2 DEF Timestamps, ReaperTypeOK, createdAt
    <3>2. CASE progress
      BY <1>2, <1>5, <3>1, <3>2 DEF ReaperTypeOK, Timestamps, RelayTurn, stuckSince
    <3>3. CASE ~progress
      BY <1>2, <1>5, <3>1, <3>3 DEF ReaperTypeOK, Timestamps, RelayTurn, stuckSince
    <3> QED BY <3>2, <3>3
  <2> QED
    BY <1>1, <1>2, <2>1, <2>2, <2>3 DEF Timestamps, ReaperTypeOK, createdAt
<1> QED
  BY <1>1, <1>3, <1>4, <1>5

\* The timestamps follow the connection from its first turn on.
LEMMA ReaperInductive == ReaperSpec => []ReaperInv
<1>1. ReaperInit => ReaperInv
  BY InitReaper
<1>2. ReaperInv /\ [ReaperNext]_reaperVars => ReaperInv'
  <2> SUFFICES ASSUME ReaperInv, [ReaperNext]_reaperVars PROVE ReaperInv'
    OBVIOUS
  <2>1. ReaperTypeOK'
    BY TurnTypes DEF ReaperInv
  <2>2. CASE Turn
    BY <2>1, <2>2, TurnTimestamps DEF ReaperInv
  <2>3. CASE UNCHANGED reaperVars
    BY <2>1, <2>3 DEF ReaperInv, Alive, Timestamps, shouldReap, reaperVars
  <2> QED
    BY <2>2, <2>3 DEF ReaperNext
<1> QED
  BY <1>1, <1>2, PTL DEF ReaperSpec

\* A connection on which nothing moves any more is closed within its limit,
\* whatever the timeouts are (reapIdle, ConnReaper.shouldReap).
THEOREM QuietIsNotKept == ReaperSpec => []QuietIsReclaimed
<1>1. ReaperInv => QuietIsReclaimed
  BY LimitsFollow
<1> QED
  BY <1>1, ReaperInductive, PTL

\* A half-closed connection whose peer keeps trickling is closed within the
\* hard limit all the same (ConnReaper.shouldReap).
THEOREM TrickleIsNotKept == ReaperSpec => []TrickleIsBounded
<1>1. ReaperInv => TrickleIsBounded
  BY LimitsFollow
<1> QED
  BY <1>1, ReaperInductive, PTL
==============================================================================
