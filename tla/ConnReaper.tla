------------------------------ MODULE ConnReaper ------------------------------
(***************************************************************************)
(* The timeout policy of the SOCKS bridge (shared/tunnel/ConnReaper.kt)    *)
(* with the timestamps MiniSlipstreamSocksBridge feeds it, for one         *)
(* connection.  A step is one turn of the selector loop: at most Period    *)
(* after the last one, perhaps with a call to service for this connection, *)
(* and always ending with reapIdle.  Times are in units of                 *)
(* SELECT_TIMEOUT_MS; 0 stands for "not set", as in the code.              *)
(***************************************************************************)
EXTENDS Integers

CONSTANTS
    FullIdle, HalfIdle, HalfMax, StuckLimit, MaxAge,    \* the *_MS constants
    Period,                                             \* SELECT_TIMEOUT_MS
    MaxTime                                             \* bound: end of the observation

ASSUME ReaperAssumption ==
    /\ FullIdle \in Nat \ {0} /\ HalfIdle \in Nat \ {0} /\ HalfMax \in Nat \ {0}
    /\ StuckLimit \in Nat \ {0} /\ MaxAge \in Nat \ {0} /\ Period \in Nat /\ MaxTime \in Nat

VARIABLES
    now,
    status,         \* "handshake", "relay", "reaped" or "done"
    lastActivity, halfClosedAt, bufferStuckSince,       \* the fields of Conn
    buffered,       \* is a relay buffer non-empty?
    eofs,           \* how many sides have ended
    moved,          \* history: when a byte last moved
    ended           \* history: when the first side ended, or 0

reaperVars == <<now, status, lastActivity, halfClosedAt, bufferStuckSince, buffered, eofs, moved, ended>>

createdAt == 1
Alive == status \in {"handshake", "relay"}

ReaperInit ==
    /\ now = createdAt /\ status = "handshake"
    /\ lastActivity = createdAt /\ halfClosedAt = 0 /\ bufferStuckSince = 0
    /\ buffered = FALSE /\ eofs = 0
    /\ moved = createdAt /\ ended = 0

-----------------------------------------------------------------------------
\* Mutant of shouldReap: a half-closed connection only has the idle deadline.
shouldReapIdleOnly(t, last, half, stuck) ==
    \/ t - createdAt >= MaxAge
    \/ stuck > 0 /\ t - stuck >= StuckLimit
    \/ half > 0 /\ t - last >= HalfIdle
    \/ half = 0 /\ t - last >= FullIdle

\* ConnReaper.shouldReap
shouldReap(t, last, half, stuck) ==
    \/ t - createdAt >= MaxAge
    \/ stuck > 0 /\ t - stuck >= StuckLimit
    \/ half > 0 /\ (t - last >= HalfIdle \/ t - half >= HalfMax)
    \/ half = 0 /\ t - last >= FullIdle

\* Mutant of touch: every turn counts as activity.
touchAlways(t, progress) == t

\* touch, and what is left of lastActivity without progress.
touch(t, progress) == IF progress THEN t ELSE lastActivity

\* markHalfClosed arms the clock once.
markHalfClosed(t, ends) == IF ends /\ halfClosedAt = 0 THEN t ELSE halfClosedAt

\* A side is read only while it has not ended (!clientEof, !remoteEof).
MayEnd == eofs < 2

\* How long a buffer has been non-empty at the end of relay.
stuckSince(t, buf) == IF ~buf THEN 0 ELSE IF bufferStuckSince = 0 THEN t ELSE bufferStuckSince

\* reapIdle, with the timestamps this turn leaves behind.
reapIdle(t, next) ==
    status' = IF shouldReap(t, lastActivity', halfClosedAt', bufferStuckSince')
                THEN "reaped" ELSE next

-----------------------------------------------------------------------------
\* select times out or serves other connections.
QuietTurn(t) ==
    /\ UNCHANGED <<lastActivity, halfClosedAt, bufferStuckSince, buffered, eofs, moved, ended>>
    /\ reapIdle(t, status)

\* service during the handshakes; connectOk moves on to relaying.
HandshakeTurn(t, progress) ==
    /\ status = "handshake"
    /\ lastActivity' = touch(t, progress)
    /\ moved' = IF progress THEN t ELSE moved
    /\ UNCHANGED <<halfClosedAt, bufferStuckSince, buffered, eofs, ended>>
    /\ \E next \in {"handshake"} \cup (IF progress THEN {"relay"} ELSE {}) : reapIdle(t, next)

\* service while relaying: bytes move or not, a side ends or not, the buffers
\* are empty afterwards or not.  Only a read can fill a buffer and only a write
\* can empty it, so without progress they stay as they are.
RelayTurn(t, progress, ends, buf) ==
    /\ status = "relay"
    /\ ends => MayEnd
    /\ ~progress => buf = buffered
    /\ lastActivity' = touch(t, progress)
    /\ halfClosedAt' = markHalfClosed(t, ends)
    /\ bufferStuckSince' = stuckSince(t, buf)
    /\ buffered' = buf
    /\ eofs' = IF ends THEN eofs + 1 ELSE eofs
    /\ moved' = IF progress THEN t ELSE moved
    /\ ended' = IF ends /\ ended = 0 THEN t ELSE ended
    /\ IF eofs' = 2 /\ ~buf THEN status' = "done" ELSE reapIdle(t, "relay")

Turn ==
    \E t \in now..(now + Period) :
      /\ Alive /\ t <= MaxTime
      /\ now' = t
      /\ \/ QuietTurn(t)
         \/ \E progress \in BOOLEAN : HandshakeTurn(t, progress)
         \/ \E progress, ends, buf \in BOOLEAN : RelayTurn(t, progress, ends, buf)

ReaperNext == Turn

ReaperSpec == ReaperInit /\ [][ReaperNext]_reaperVars

-----------------------------------------------------------------------------
(***************************************************************************)
(* Properties.                                                             *)
(***************************************************************************)
ReaperTypeOK ==
    /\ now \in Nat /\ lastActivity \in Nat /\ halfClosedAt \in Nat /\ bufferStuckSince \in Nat
    /\ status \in {"handshake", "relay", "reaped", "done"}
    /\ buffered \in BOOLEAN /\ eofs \in 0..2 /\ moved \in Nat /\ ended \in Nat

\* Orphans cannot accumulate: after any turn of the loop a surviving connection
\* moved a byte within the idle limit that fits its state: the long one when it
\* is fully open, the short one once half closed, and the stuck limit when a
\* relay buffer holds bytes nobody accepts (reapIdle; class comment of the bridge).
QuietIsReclaimed ==
    Alive =>
      /\ now - moved < FullIdle \/ ended > 0
      /\ ended > 0 => now - moved < HalfIdle
      /\ status = "relay" /\ buffered => now - moved < StuckLimit

\* The incident ConnReaper was written for: a trickle cannot keep a half-closed
\* connection alive for longer than HalfMax after its first end of stream, nor
\* any connection longer than MaxAge.
TrickleIsBounded ==
    Alive => (ended > 0 => now - ended < HalfMax) /\ now - createdAt < MaxAge
=============================================================================
