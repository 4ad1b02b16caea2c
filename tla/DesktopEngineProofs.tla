------------------------- MODULE DesktopEngineProofs -------------------------
(***************************************************************************)
(* The override of the proxy settings (SystemProxy) can always be undone,  *)
(* for any user settings, any number of crashes and any failing commands,  *)
(* provided that start and stop do not overlap and the backup is written   *)
(* in one piece.  The desktop tunnel implements the specification of the   *)
(* override, and so inherits this, with the engine, its failures and its   *)
(* deaths in between; and its engines are accounted for.                   *)
(***************************************************************************)
EXTENDS DesktopEngine, TLAPS

\* start, stop and recoverFromCrash never run at the same time.
OneCaller == \A s, t \in Threads : s = t

\* How much of the snapshot `saved' restore has written back before step `at'.
Restored(at, r, saved) ==
    /\ at > 1 /\ saved.enable => r.server = saved.server
    /\ at > 2 => r.enable = saved.enable
    /\ at > 4 /\ ~saved.enable => r.pac = saved.pac

\* What thread t knows: apply holds a snapshot of the user's routing until a
\* backup exists, and mutates only after that; restore works with the backup.
ApplyKnows(v, b) ==
    v.op = "apply" =>
      /\ v.at \in 1..8
      /\ v.at = 1 /\ b = "none" => Route(v.snap) = Route(user)
      /\ v.at > 1 => b = "saved"
RestoreKnows(v, b, c, r) ==
    v.op = "restore" =>
      /\ v.at \in 1..7
      /\ b = "saved" /\ v.snap = c
      /\ Restored(v.at, r, v.snap)
Knows(t) == ApplyKnows(task[t], backup) /\ RestoreKnows(task[t], backup, content, reg)

UndoInv ==
    /\ TypeOK /\ backup # "torn"
    /\ UndoAvailable
    /\ \A t \in Threads : Knows(t)

-----------------------------------------------------------------------------
\* Every step of apply leaves settings.
LEMMA ApplyWriteType ==
    ASSUME NEW at \in 2..8, NEW r \in Settings, NEW p \in Settings, NEW s \in ApplyWrite(at, r, p)
    PROVE  s \in Settings
<1> DEFINE b == mergeBypass(p.bypass)
<1>1. b \in SUBSET {"steam", "v6", "local"}
  BY DEF Settings, mergeBypass, Safe, Unsafe, Local
<1> HIDE DEF b
<1>2. CASE at = 7
  <2>1. PICK q \in SysProxySet(r, "ours", b) : s = [q EXCEPT !.blob = "ours"]
    BY <1>2 DEF ApplyWrite, b
  <2>2. q \in Settings
    <3>1. q = r \/ q = [r EXCEPT !.enable = TRUE, !.server = "ours", !.bypass = b, !.pac = FALSE,
                                !.detect = FALSE]
      BY <2>1 DEF SysProxySet
    <3>2. CASE q = r
      BY <3>2
    <3>3. CASE q # r
      <4>1. q = [r EXCEPT !.enable = TRUE, !.server = "ours", !.bypass = b, !.pac = FALSE,
                          !.detect = FALSE]
        BY <3>1, <3>3
      <4> QED
        BY <1>1, <4>1 DEF Settings
    <3> QED
      BY <3>2, <3>3
  <2> QED
    BY <2>1, <2>2 DEF Settings
<1>3. CASE at = 3
  <2>1. s = [r EXCEPT !.bypass = b]
    BY <1>3 DEF ApplyWrite, b
  <2> QED
    BY <1>1, <2>1 DEF Settings
<1>4. CASE at = 2
  BY <1>4 DEF ApplyWrite, Settings
<1>5. CASE at \in {4, 5, 6}
  <2>1. \/ s = [r EXCEPT !.enable = TRUE]
        \/ s = [r EXCEPT !.detect = FALSE]
        \/ s = [r EXCEPT !.pac = FALSE]
    BY <1>5 DEF ApplyWrite
  <2> QED
    BY <2>1 DEF Settings
<1>6. CASE at = 8
  BY <1>6 DEF ApplyWrite, Settings
<1> QED
  BY <1>2, <1>3, <1>4, <1>5, <1>6

\* Every step of restore leaves settings and brings them closer to the snapshot.
LEMMA RestoreWriteProgress ==
    ASSUME NEW at \in 1..6, NEW r \in Settings, NEW p \in Settings, NEW s \in RestoreWrite(at, r, p),
           Restored(at, r, p)
    PROVE  s \in Settings /\ Restored(at + 1, s, p)
<1>1. CASE at = 5
  <2> DEFINE q == [r EXCEPT !.blob = p.blob]
             b == Safe(p.bypass)
  <2>1. q \in Settings /\ q.enable = r.enable /\ q.server = r.server /\ q.pac = r.pac
    BY DEF Settings
  <2>2. b \in SUBSET {"steam", "v6", "local"}
    BY DEF Settings, Safe
  <2>3. IF p.enable THEN s \in SysProxySet(q, p.server, b) ELSE s = q
    BY <1>1 DEF RestoreWrite
  <2> HIDE DEF q, b
  <2>4. CASE ~p.enable
    BY <1>1, <2>1, <2>3, <2>4 DEF Restored
  <2>5. CASE p.enable /\ s = q
    <3>1. r.server = p.server /\ r.enable = p.enable
      <4>1. at > 1 /\ at > 2
        BY <1>1
      <4> QED
        BY <2>5, <4>1, Zenon DEF Restored
    <3>2. s.server = p.server /\ s.enable = p.enable /\ s \in Settings
      BY <2>1, <2>5, <3>1
    <3> QED
      BY <1>1, <2>5, <3>2 DEF Restored
  <2>6. CASE p.enable /\ s # q
    <3>1. s = [q EXCEPT !.enable = TRUE, !.server = p.server, !.bypass = b, !.pac = FALSE,
                        !.detect = FALSE]
      BY <2>3, <2>6 DEF SysProxySet
    <3>2. p.server \in {"theirs", "ours"} /\ p.enable = TRUE
      BY <2>6 DEF Settings
    <3>3. s \in Settings /\ s.enable = TRUE /\ s.server = p.server
      BY <2>1, <2>2, <3>1, <3>2 DEF Settings
    <3> QED
      BY <1>1, <2>6, <3>2, <3>3 DEF Restored
  <2> QED
    BY <2>4, <2>5, <2>6
<1>2. CASE at = 1
  BY <1>2 DEF RestoreWrite, Restored, Settings
<1>3. CASE at = 2
  BY <1>3 DEF RestoreWrite, Restored, Settings
<1>4. CASE at = 3
  BY <1>4 DEF RestoreWrite, Restored, Settings
<1>5. CASE at = 4
  BY <1>5 DEF RestoreWrite, Restored, Settings
<1>6. CASE at = 6
  BY <1>6 DEF RestoreWrite, Restored, Settings
<1> QED
  BY <1>1, <1>2, <1>3, <1>4, <1>5, <1>6

-----------------------------------------------------------------------------
Ops == {"idle", "engine", "failed", "apply", "restore"}
Nexts == {"idle", "engine", "failed"}

\* The records the actions store are tasks.
LEMMA TaskRecords ==
    ASSUME NEW op \in Ops, NEW at \in 0..8, NEW s \in Settings, NEW n \in Nexts
    PROVE  /\ At(op, at, s, n) \in Task
           /\ At(op, at, s, n).op = op /\ At(op, at, s, n).at = at
           /\ At(op, at, s, n).snap = s /\ At(op, at, s, n).next = n
           /\ Idle(s) \in Task /\ Idle(s).op = "idle"
  BY DEF At, Idle, Task, Ops, Nexts

\* With a single caller the invariant is re-established from the caller's own
\* task and the state it leaves.
LEMMA CallerStep ==
    ASSUME UndoInv, OneCaller, NEW t \in Threads, NEW v \in Task,
           task' = [task EXCEPT ![t] = v],
           reg' \in Settings, content' \in Settings, user' = user,
           backup' \in {"none", "saved"},
           systemProxyApplied' \in BOOLEAN, connecting' \in BOOLEAN,
           process' \in {"off", "booting", "up"}, crashes' = crashes,
           UndoAvailable',
           ApplyKnows(v, backup'), RestoreKnows(v, backup', content', reg')
    PROVE  UndoInv'
<1>1. task' \in [Threads -> Task] /\ task'[t] = v
  BY DEF UndoInv, TypeOK
<1>2. TypeOK'
  BY <1>1 DEF UndoInv, TypeOK
<1>4. Knows(t)'
  BY <1>1 DEF Knows, ApplyKnows, RestoreKnows, Route, Restored
<1>5. \A s \in Threads : Knows(s)'
  BY <1>4 DEF OneCaller
<1> QED
  BY <1>2, <1>5 DEF UndoInv

\* A step that changes neither the settings nor the backup keeps them undoable.
LEMMA SameSettings ==
    ASSUME UndoAvailable, UNCHANGED <<reg, backup, content, user>>
    PROVE  UndoAvailable'
  BY DEF UndoAvailable, Route

\* stop begins, whatever follows it: restore works from the backup.
LEMMA StopBegins ==
    ASSUME UndoInv, OneCaller, NEW t \in Threads, NEW n \in Nexts, BeginStop(t, n),
           UNCHANGED <<reg, backup, content, process, crashes, user>>, connecting' \in BOOLEAN
    PROVE  UndoInv'
<1>1. /\ reg \in Settings /\ content \in Settings /\ backup \in {"none", "saved"}
      /\ systemProxyApplied \in BOOLEAN /\ process \in {"off", "booting", "up"}
      /\ UndoAvailable
  BY DEF UndoInv, TypeOK
<1>2. UndoAvailable'
  BY <1>1, SameSettings
<1>3. CASE backup = "saved"
  <2> DEFINE v == At("restore", 1, content, n)
  <2>1. task' = [task EXCEPT ![t] = v] /\ systemProxyApplied' = systemProxyApplied
    BY <1>3 DEF BeginStop
  <2>2. v \in Task /\ v.op = "restore" /\ v.at = 1 /\ v.snap = content
    BY <1>1, TaskRecords DEF Ops
  <2>3. ApplyKnows(v, backup') /\ RestoreKnows(v, backup', content', reg')
    BY <1>3, <2>2 DEF ApplyKnows, RestoreKnows, Restored
  <2> HIDE DEF v
  <2> QED
    BY <1>1, <1>2, <1>3, <2>1, <2>2, <2>3, CallerStep
<1>4. CASE backup # "saved"
  <2> DEFINE v == At(n, 0, reg, "idle")
  <2>1. task' = [task EXCEPT ![t] = v] /\ systemProxyApplied' = FALSE
    BY <1>4 DEF BeginStop
  <2>2. v \in Task /\ v.op = n
    BY <1>1, TaskRecords DEF Ops, Nexts
  <2>3. ApplyKnows(v, backup') /\ RestoreKnows(v, backup', content', reg')
    BY <2>2 DEF Nexts, ApplyKnows, RestoreKnows
  <2>4. systemProxyApplied' \in BOOLEAN
    BY <2>1, Zenon
  <2> HIDE DEF v
  <2> QED
    BY <1>1, <1>2, <2>1, <2>2, <2>3, <2>4, CallerStep
<1> QED
  BY <1>3, <1>4

\* The application starts, and undoes what a dead predecessor left.
LEMMA LaunchUndoes ==
    ASSUME UndoInv, OneCaller, NEW t \in Threads, Launch(t)
    PROVE  UndoInv'
<1>1. /\ reg \in Settings /\ content \in Settings /\ backup \in {"none", "saved"}
      /\ systemProxyApplied \in BOOLEAN /\ connecting \in BOOLEAN
      /\ UndoAvailable
  BY DEF UndoInv, TypeOK
<1>2. UNCHANGED <<reg, backup, content, systemProxyApplied, connecting, crashes, user>>
  BY DEF Launch
<1>3. UndoAvailable'
  BY <1>1, <1>2, SameSettings
<1>4. CASE backup = "saved"
  <2> DEFINE v == At("restore", 1, content, "idle")
  <2>1. task' = [task EXCEPT ![t] = v] /\ process' = "booting"
    BY <1>4 DEF Launch
  <2>2. v \in Task /\ v.op = "restore" /\ v.at = 1 /\ v.snap = content
    BY <1>1, TaskRecords DEF Ops, Nexts
  <2>3. ApplyKnows(v, backup') /\ RestoreKnows(v, backup', content', reg')
    BY <1>2, <1>4, <2>2 DEF ApplyKnows, RestoreKnows, Restored
  <2> HIDE DEF v
  <2> QED
    BY <1>1, <1>2, <1>3, <1>4, <2>1, <2>2, <2>3, CallerStep
<1>5. CASE backup # "saved"
  <2>1. task' = task /\ process' = "up"
    BY <1>5 DEF Launch
  <2>2. TypeOK'
    BY <1>2, <2>1 DEF UndoInv, TypeOK
  <2>3. \A s \in Threads : Knows(s)'
    BY <1>2, <2>1 DEF UndoInv, Knows, ApplyKnows, RestoreKnows, Route, Restored
  <2> QED
    BY <1>1, <1>2, <1>3, <2>2, <2>3 DEF UndoInv
<1> QED
  BY <1>4, <1>5

\* Starting apply: its snapshot is of settings nobody has overridden yet, or
\* there is a backup already.
LEMMA EngineStarts ==
    ASSUME UndoInv, OneCaller, NEW t \in Threads, EngineReady(t)
    PROVE  UndoInv'
<1>1. /\ reg \in Settings /\ content \in Settings /\ backup \in {"none", "saved"}
      /\ systemProxyApplied \in BOOLEAN /\ connecting \in BOOLEAN
      /\ process \in {"off", "booting", "up"} /\ UndoAvailable
  BY DEF UndoInv, TypeOK
<1> DEFINE v == At("apply", 1, reg, "idle")
<1>2. /\ UNCHANGED <<reg, backup, content, systemProxyApplied, connecting, process, crashes, user>>
      /\ task' = [task EXCEPT ![t] = v]
  BY DEF EngineReady
<1>3. UndoAvailable'
  BY <1>1, <1>2, SameSettings
<1>4. v \in Task /\ v.op = "apply" /\ v.at = 1 /\ v.snap = reg
  BY <1>1, TaskRecords DEF Ops, Nexts
<1>5. ApplyKnows(v, backup') /\ RestoreKnows(v, backup', content', reg')
  BY <1>1, <1>2, <1>4 DEF UndoAvailable, ApplyKnows, RestoreKnows
<1> HIDE DEF v
<1> QED
  BY <1>1, <1>2, <1>3, <1>4, <1>5, CallerStep

\* A thread that gives up, or has reported its failure, is idle.
LEMMA GivesUp ==
    ASSUME UndoInv, OneCaller, NEW t \in Threads, task' = [task EXCEPT ![t] = Idle(reg)],
           connecting' = FALSE,
           UNCHANGED <<reg, backup, content, systemProxyApplied, process, crashes, user>>
    PROVE  UndoInv'
<1>1. /\ reg \in Settings /\ content \in Settings /\ backup \in {"none", "saved"}
      /\ systemProxyApplied \in BOOLEAN
      /\ process \in {"off", "booting", "up"} /\ UndoAvailable
  BY DEF UndoInv, TypeOK
<1>2. UndoAvailable'
  BY <1>1, SameSettings
<1>3. Idle(reg) \in Task /\ Idle(reg).op = "idle"
  BY <1>1, TaskRecords DEF Ops, Nexts
<1>4. connecting' \in BOOLEAN
  BY Zenon
<1>5. ApplyKnows(Idle(reg), backup') /\ RestoreKnows(Idle(reg), backup', content', reg')
  BY <1>3 DEF ApplyKnows, RestoreKnows
<1> QED
  BY <1>1, <1>2, <1>3, <1>4, <1>5, CallerStep

\* The backup is written from a snapshot of the user's routing, or kept.
LEMMA BackupSaved ==
    ASSUME UndoInv, OneCaller, NEW t \in Threads, SaveBackup(t)
    PROVE  UndoInv'
<1> DEFINE v == [task[t] EXCEPT !.at = 2]
<1>1. /\ reg \in Settings /\ content \in Settings /\ backup \in {"none", "saved"}
      /\ systemProxyApplied \in BOOLEAN /\ connecting \in BOOLEAN
      /\ process \in {"off", "booting", "up"} /\ UndoAvailable
      /\ task[t] \in Task /\ Knows(t)
  BY DEF UndoInv, TypeOK
<1>2. /\ UNCHANGED <<reg, systemProxyApplied, connecting, process, crashes, user>>
      /\ task' = [task EXCEPT ![t] = v]
      /\ task[t].op = "apply" /\ task[t].at = 1
  BY DEF SaveBackup
<1>3. v \in Task /\ v.op = "apply" /\ v.at = 2 /\ v.snap = task[t].snap
  BY <1>1, <1>2 DEF Task
<1>4. backup' = "saved" /\ content' \in Settings /\ UndoAvailable'
  <2>1. CASE backup = "none"
    <3>1. backup' = "saved" /\ content' = task[t].snap
      BY <2>1 DEF SaveBackup
    <3>2. Route(task[t].snap) = Route(user) /\ task[t].snap \in Settings
      BY <1>1, <1>2, <2>1 DEF Knows, ApplyKnows, Task
    <3> QED
      BY <1>2, <3>1, <3>2 DEF UndoAvailable, Route
  <2>2. CASE backup = "saved"
    BY <1>1, <1>2, <2>2 DEF SaveBackup, UndoAvailable, Route
  <2> QED
    BY <1>1, <2>1, <2>2
<1>5. ApplyKnows(v, backup') /\ RestoreKnows(v, backup', content', reg')
  BY <1>3, <1>4 DEF ApplyKnows, RestoreKnows
<1> HIDE DEF v
<1> QED
  BY <1>1, <1>2, <1>3, <1>4, <1>5, CallerStep

\* apply mutates only under a backup, and leaves it alone.
LEMMA ApplySteps ==
    ASSUME UndoInv, OneCaller, NEW t \in Threads, ApplyStep(t)
    PROVE  UndoInv'
<1>1. /\ reg \in Settings /\ content \in Settings
      /\ systemProxyApplied \in BOOLEAN /\ connecting \in BOOLEAN
      /\ process \in {"off", "booting", "up"} /\ UndoAvailable
      /\ task[t] \in Task /\ Knows(t)
  BY DEF UndoInv, TypeOK
<1>2. /\ UNCHANGED <<backup, content, process, crashes, user>>
      /\ task[t].op = "apply" /\ task[t].at \in 2..8
      /\ reg' \in ApplyWrite(task[t].at, reg, task[t].snap)
  BY <1>1 DEF ApplyStep, Knows, ApplyKnows
<1>3. backup = "saved" /\ task[t].snap \in Settings
  BY <1>1, <1>2 DEF Knows, ApplyKnows, Task
<1>4. reg' \in Settings
  BY <1>1, <1>2, <1>3, ApplyWriteType
<1>5. UndoAvailable'
  BY <1>1, <1>2, <1>3 DEF UndoAvailable, Route
<1>6. CASE task[t].at = LastApply
  <2>1. task' = [task EXCEPT ![t] = Idle(reg)] /\ systemProxyApplied' = TRUE /\ connecting' = FALSE
    BY <1>6 DEF ApplyStep
  <2>2. systemProxyApplied' \in BOOLEAN /\ connecting' \in BOOLEAN
    BY <2>1, Zenon
  <2>3. Idle(reg) \in Task /\ Idle(reg).op = "idle"
    BY <1>1, TaskRecords DEF Ops, Nexts
  <2>4. ApplyKnows(Idle(reg), backup') /\ RestoreKnows(Idle(reg), backup', content', reg')
    BY <2>3 DEF ApplyKnows, RestoreKnows
  <2> QED
    BY <1>1, <1>2, <1>3, <1>4, <1>5, <2>1, <2>2, <2>3, <2>4, CallerStep
<1>7. CASE task[t].at # LastApply
  <2> DEFINE v == [task[t] EXCEPT !.at = @ + 1]
  <2>1. task' = [task EXCEPT ![t] = v] /\ UNCHANGED <<systemProxyApplied, connecting>>
    BY <1>7 DEF ApplyStep
  <2>2. v \in Task /\ v.op = "apply" /\ v.at \in 3..8
    BY <1>1, <1>2, <1>7 DEF Task, LastApply
  <2>3. ApplyKnows(v, backup') /\ RestoreKnows(v, backup', content', reg')
    BY <1>2, <1>3, <2>2 DEF ApplyKnows, RestoreKnows
  <2> HIDE DEF v
  <2> QED
    BY <1>1, <1>2, <1>3, <1>4, <1>5, <2>1, <2>2, <2>3, CallerStep
<1> QED
  BY <1>6, <1>7

\* restore writes under the backup it works from.
LEMMA RestoreSteps ==
    ASSUME UndoInv, OneCaller, NEW t \in Threads, RestoreStep(t)
    PROVE  UndoInv'
<1> DEFINE v == [task[t] EXCEPT !.at = @ + 1]
<1>1. /\ reg \in Settings /\ content \in Settings
      /\ systemProxyApplied \in BOOLEAN /\ connecting \in BOOLEAN
      /\ process \in {"off", "booting", "up"} /\ UndoAvailable
      /\ task[t] \in Task /\ Knows(t)
  BY DEF UndoInv, TypeOK
<1>2. /\ UNCHANGED <<backup, content, systemProxyApplied, connecting, process, crashes, user>>
      /\ task[t].op = "restore" /\ task[t].at \in 1..6
      /\ reg' \in RestoreWrite(task[t].at, reg, task[t].snap)
      /\ task' = [task EXCEPT ![t] = v]
  BY <1>1 DEF RestoreStep, Knows, RestoreKnows, LastRestore
<1>3. /\ backup = "saved" /\ task[t].snap = content
      /\ Restored(task[t].at, reg, task[t].snap)
  BY <1>1, <1>2 DEF Knows, RestoreKnows
<1>4. reg' \in Settings /\ Restored(task[t].at + 1, reg', task[t].snap)
  BY <1>1, <1>2, <1>3, RestoreWriteProgress
<1>5. UndoAvailable'
  BY <1>1, <1>2, <1>3 DEF UndoAvailable, Route
<1>6. v \in Task /\ v.op = "restore" /\ v.at = task[t].at + 1 /\ v.at \in 1..7 /\ v.snap = task[t].snap
  BY <1>1, <1>2 DEF Task
<1>7. ApplyKnows(v, backup') /\ RestoreKnows(v, backup', content', reg')
  BY <1>2, <1>3, <1>4, <1>6 DEF ApplyKnows, RestoreKnows
<1> HIDE DEF v
<1> QED
  BY <1>1, <1>2, <1>3, <1>4, <1>5, <1>6, <1>7, CallerStep

\* restore returns, having deleted the backup only after the last write.
LEMMA RestoreEnds ==
    ASSUME UndoInv, OneCaller, NEW t \in Threads, DeleteBackup(t) \/ RestoreFails(t)
    PROVE  UndoInv'
<1> DEFINE v == At(task[t].next, 0, reg, "idle")
<1>1. /\ reg \in Settings /\ content \in Settings /\ connecting \in BOOLEAN
      /\ UndoAvailable /\ task[t] \in Task /\ Knows(t)
  BY DEF UndoInv, TypeOK
<1>2. /\ UNCHANGED <<reg, content, connecting, crashes, user>>
      /\ task' = [task EXCEPT ![t] = v] /\ systemProxyApplied' = FALSE /\ process' = "up"
      /\ task[t].op = "restore"
  BY DEF DeleteBackup, RestoreFails, AfterRestore
<1>3. systemProxyApplied' \in BOOLEAN
  BY <1>2, Zenon
<1>4. v \in Task /\ v.op # "apply" /\ v.op # "restore"
  <2>1. task[t].next \in Nexts
    BY <1>1 DEF Task, Nexts
  <2>2. v \in Task /\ v.op = task[t].next
    BY <1>1, <2>1, TaskRecords DEF Ops, Nexts
  <2> QED
    BY <2>1, <2>2 DEF Nexts
<1>5. backup = "saved" /\ task[t].snap = content /\ Restored(task[t].at, reg, task[t].snap)
  BY <1>1, <1>2 DEF Knows, RestoreKnows
<1>6. backup' \in {"none", "saved"} /\ UndoAvailable'
  <2>1. CASE backup' = "saved"
    BY <1>1, <1>2, <1>5, <2>1 DEF UndoAvailable, Route
  <2>2. CASE backup' # "saved"
    <3>1. backup' = "none" /\ task[t].at > 6
      BY <1>5, <2>2 DEF DeleteBackup, RestoreFails, LastRestore
    <3>2. /\ content.enable => reg.server = content.server
          /\ reg.enable = content.enable
          /\ ~content.enable => reg.pac = content.pac
      <4>1. task[t].at > 1 /\ task[t].at > 2 /\ task[t].at > 4
        BY <1>1, <3>1 DEF Task
      <4> QED
        BY <1>5, <4>1, Zenon DEF Restored
    <3>3. Route(reg) = Route(content)
      BY <3>2, Zenon DEF Route
    <3> QED
      BY <1>1, <1>2, <1>5, <3>1, <3>3 DEF UndoAvailable, Route
  <2> QED
    BY <2>1, <2>2
<1>7. ApplyKnows(v, backup') /\ RestoreKnows(v, backup', content', reg')
  BY <1>4 DEF ApplyKnows, RestoreKnows
<1> HIDE DEF v
<1> QED
  BY <1>1, <1>2, <1>3, <1>4, <1>6, <1>7, CallerStep

\* A death leaves settings and backup as they were.
LEMMA CrashKeepsUndo ==
    ASSUME UndoInv, ~Tears, Crash
    PROVE  UndoInv'
<1>1. /\ UNCHANGED <<reg, backup, content, user>>
      /\ crashes \in 0..MaxCrashes /\ crashes < MaxCrashes /\ crashes' = crashes + 1
      /\ process' = "off" /\ systemProxyApplied' = FALSE /\ connecting' = FALSE
      /\ task' = [t \in Threads |-> Idle(reg)] /\ reg \in Settings
  BY DEF Crash, UndoInv, TypeOK
<1>2. UndoAvailable'
  BY <1>1, SameSettings DEF UndoInv
<1>3. Idle(reg) \in Task /\ Idle(reg).op = "idle"
  BY <1>1, TaskRecords DEF Ops, Nexts
<1>4. \A s \in Threads : Knows(s)'
  BY <1>1, <1>3 DEF Knows, ApplyKnows, RestoreKnows
<1>5. systemProxyApplied' \in BOOLEAN /\ connecting' \in BOOLEAN
  BY <1>1, Zenon
<1>6. crashes' \in 0..MaxCrashes
  BY <1>1, ProxyAssumption
<1> QED
  BY <1>1, <1>2, <1>3, <1>4, <1>5, <1>6 DEF UndoInv, TypeOK

\* The override can be undone at every moment, whatever fails and whenever the
\* process dies, if start and stop do not overlap and the backup is not torn.
THEOREM OverrideIsUndoable ==
    OneCaller /\ ~Tears => (Spec => []UndoAvailable)
<1> SUFFICES ASSUME OneCaller, ~Tears PROVE Spec => []UndoAvailable
  OBVIOUS
<1>1. Init => UndoInv
  <2> SUFFICES ASSUME Init PROVE UndoInv
    OBVIOUS
  <2>1. user \in Settings /\ user \in UserSettings
    BY ProxyAssumption DEF Init
  <2>2. Idle(user) \in Task /\ Idle(user).op = "idle"
    BY <2>1, TaskRecords DEF Ops, Nexts
  <2>3. task \in [Threads -> Task] /\ \A t \in Threads : task[t] = Idle(user)
    BY <2>2 DEF Init
  <2>4. systemProxyApplied \in BOOLEAN /\ connecting \in BOOLEAN
    BY Zenon DEF Init
  <2>5. TypeOK
    BY <2>1, <2>3, <2>4, ProxyAssumption DEF Init, TypeOK
  <2>6. UndoAvailable
    BY DEF Init, UndoAvailable
  <2>7. \A t \in Threads : Knows(t)
    BY <2>2, <2>3 DEF Knows, ApplyKnows, RestoreKnows
  <2> QED
    BY <2>5, <2>6, <2>7 DEF UndoInv, Init
<1>2. UndoInv /\ [Next]_vars => UndoInv'
  <2> SUFFICES ASSUME UndoInv, [Next]_vars PROVE UndoInv'
    OBVIOUS
  <2>1. CASE UNCHANGED vars
    BY <2>1 DEF vars, UndoInv, TypeOK, UndoAvailable, Knows, ApplyKnows, RestoreKnows, Route, Restored
  <2>2. CASE Crash
    BY <2>2, CrashKeepsUndo
  <2>3. ASSUME NEW t \in Threads, Launch(t) PROVE UndoInv'
    BY <2>3, LaunchUndoes
  <2>4. ASSUME NEW t \in Threads, Connect(t) PROVE UndoInv'
    <3>1. connecting' \in BOOLEAN
      BY <2>4, Zenon DEF Connect
    <3> QED
      BY <2>4, <3>1, StopBegins DEF Connect, Nexts
  <2>5. ASSUME NEW t \in Threads, Disconnect(t) PROVE UndoInv'
    <3>1. connecting' \in BOOLEAN
      BY <2>5, Zenon DEF Disconnect
    <3> QED
      BY <2>5, <3>1, StopBegins DEF Disconnect, Nexts
  <2>6. ASSUME NEW t \in Threads, EngineFails(t) PROVE UndoInv'
    <3>1. connecting' \in BOOLEAN
      BY <2>6 DEF EngineFails, UndoInv, TypeOK
    <3> QED
      BY <2>6, <3>1, StopBegins DEF EngineFails, Nexts
  <2>7. ASSUME NEW t \in Threads, StartFailed(t) \/ ApplyFails(t) PROVE UndoInv'
    BY <2>7, GivesUp DEF StartFailed, ApplyFails
  <2>8. ASSUME NEW t \in Threads, EngineReady(t) PROVE UndoInv'
    BY <2>8, EngineStarts
  <2>9. ASSUME NEW t \in Threads, SaveBackup(t) PROVE UndoInv'
    BY <2>9, BackupSaved
  <2>10. ASSUME NEW t \in Threads, ApplyStep(t) PROVE UndoInv'
    BY <2>10, ApplySteps
  <2>11. ASSUME NEW t \in Threads, RestoreStep(t) PROVE UndoInv'
    BY <2>11, RestoreSteps
  <2>12. ASSUME NEW t \in Threads, DeleteBackup(t) \/ RestoreFails(t) PROVE UndoInv'
    BY <2>12, RestoreEnds
  <2> QED
    BY <2>1, <2>2, <2>3, <2>4, <2>5, <2>6, <2>7, <2>8, <2>9, <2>10, <2>11, <2>12 DEF Next, Step
<1>3. UndoInv => UndoAvailable
  BY DEF UndoInv
<1> QED
  BY <1>1, <1>2, <1>3, PTL DEF Spec

-----------------------------------------------------------------------------
(* The refinement. *)

\* What the engine's half does alone leaves the settings, the backup and the
\* threads of SystemProxy as they are.
LEMMA EngineStepsStutter ==
  ASSUME NEW t \in Threads,
         StopProxy(t) \/ StopEngine(t) \/ Kill(t) \/ Forget(t) \/ Reap(t) \/ Ports(t) \/ Spawn(t)
           \/ Record(t) \/ Assign(t) \/ Ready(t) \/ Timeout(t) \/ Serve(t) \/ Broken(t)
  PROVE  UNCHANGED vars
BY DEF StopProxy, StopEngine, Kill, Forget, Reap, Ports, Spawn, Record, Assign, Ready, Timeout, Serve, Broken

\* Every step of a thread is a step of SystemProxy or changes nothing of it.
LEMMA ThreadRefines ==
  ASSUME NEW t \in Threads, ThreadStep(t)
  PROVE  [Next]_vars
<1>1. CASE Publish(t)
  BY <1>1 DEF Publish, Next, Step
<1>2. CASE Fail(t)
  BY <1>2 DEF Fail, Next, Step
<1>3. CASE ProxyStep(t)
  BY <1>3 DEF ProxyStep, Next, Step
<1>4. CASE ~(Publish(t) \/ Fail(t) \/ ProxyStep(t))
  <2>1. UNCHANGED vars
    BY <1>4, EngineStepsStutter DEF ThreadStep
  <2> QED BY <2>1
<1> QED BY <1>1, <1>2, <1>3, <1>4

\* Every step of the tunnel with its engine is a step of SystemProxy or leaves
\* its variables alone.
LEMMA StepRefines == [TunnelNext]_tunnelVars => [Next]_vars
<1> SUFFICES ASSUME [TunnelNext]_tunnelVars PROVE [Next]_vars
  OBVIOUS
<1>1. CASE UNCHANGED tunnelVars
  BY <1>1 DEF tunnelVars
<1>2. CASE Die
  BY <1>2 DEF Die, Next
<1>3. CASE Release \/ \E p \in alive : Bind(p) \/ Exit(p)
  BY <1>3 DEF Release, Bind, Exit
<1>4. ASSUME NEW t \in Threads, Open(t) \/ Stop(t) \/ \E n \in Names : Start(t, n)
      PROVE  [Next]_vars
  BY <1>4 DEF Open, Stop, Start, Next
<1>5. ASSUME NEW t \in Threads, ThreadStep(t)
      PROVE  [Next]_vars
  BY <1>5, ThreadRefines
<1> QED BY <1>1, <1>2, <1>3, <1>4, <1>5 DEF TunnelNext

\* DesktopTunnel.start and stop, with the engine's process, its pid file and the
\* listener, implement SystemProxy: for any number of threads, engines, starts
\* and deaths.
THEOREM TunnelImplementsProxy == TunnelSpec => ImplementsSystemProxy
<1>1. TunnelInit => Init
  BY DEF TunnelInit
<1> QED BY <1>1, StepRefines, PTL DEF TunnelSpec, Spec, ImplementsSystemProxy

\* So the user's route is in effect or the backup says what it was, also with the
\* engine's process and its failures between the steps.
THEOREM DesktopIsUndoable ==
    OneCaller /\ ~Tears => (TunnelSpec => []UndoAvailable)
BY TunnelImplementsProxy, OverrideIsUndoable, PTL DEF ImplementsSystemProxy

-----------------------------------------------------------------------------
\* The file of the process a thread is stopping or reaping.
File(c) == IF c.proc = 0 THEN c.name ELSE spawned[c.proc]

Starting == {"reap", "ports", "spawn", "record", "assign", "await", "serve", "publish"}

\* What a thread's place in start and stop tells of the engine and its file.
CallKnows(c) ==
    /\ c.at \in Starting \/ c.then \in {"reap", "ports"} => c.name \in Names
    /\ c.then \in {"none", "reap", "ports", "fail"}
    /\ c.at = "none" => c.then = "none" /\ c.proc = 0
    /\ c.at \in {"stopProxy", "stopEngine"} => c.then \in {"none", "reap"} /\ c.proc = 0
    /\ c.at \in {"reap", "ports", "spawn", "record", "assign"} => engine = 0
    /\ c.at \in {"ports", "spawn", "record"} => pidFile[c.name] = 0
    /\ c.at = "record" => c.proc # 0 /\ spawned[c.proc] = c.name
    /\ c.at \in {"assign", "await"} => c.proc # 0 /\ pidFile[spawned[c.proc]] \notin alive \ {c.proc}
    /\ c.at \in {"kill", "forget"} =>
         /\ c.then = "ports" => engine = 0
         /\ c.proc = 0 => c.then = "ports"
         /\ c.then = "ports" => File(c) = c.name
         /\ pidFile[File(c)] \notin alive \ {c.proc}
    /\ c.at = "forget" => c.proc \notin alive

\* A process is in its file, is lost, or is about to be recorded; it need not be
\* the tunnel's: that is what a death leaves.
Known(p) ==
    \/ pidFile[spawned[p]] = p \/ p \in lost
    \/ \E t \in Threads : Here(t, "record") /\ call[t].proc = p

EngineInv ==
    /\ EngineTypeOK
    /\ \A n \in Names : pidFile[n] # 0 => spawned[pidFile[n]] = n
    /\ \A p \in alive : Known(p)
    /\ engine # 0 => pidFile[spawned[engine]] \notin alive \ {engine}
    /\ listening => proxy \/ \E t \in Threads : Here(t, "publish")
    /\ \A t \in Threads : CallKnows(call[t])

\* A call's record.
Call == [at : Points, name : Names \cup {""}, proc : Pids \cup {0}, then : Points]

\* A thread's record has its type, and says what the thread may rely on at its
\* point.
LEMMA CallOf ==
  ASSUME EngineInv, NEW t \in Threads
  PROVE  call[t] \in Call /\ call \in [Threads -> Call] /\ CallKnows(call[t])
BY DEF EngineInv, EngineTypeOK, Call

\* The pids are numbers from one.
LEMMA PidsAre ==
  ASSUME EngineInv
  PROVE  /\ Pids = 1 .. Len(spawned) /\ 0 \notin Pids /\ Len(spawned) \in Nat
         /\ \A p \in Pids : spawned[p] \in Names
<1>1. spawned \in Seq(Names)
  BY DEF EngineInv, EngineTypeOK
<1>2. Len(spawned) \in Nat /\ DOMAIN spawned = 1 .. Len(spawned)
  BY <1>1
<1>3. \A p \in DOMAIN spawned : spawned[p] \in Names
  BY <1>1, <1>2
<1> QED BY <1>2, <1>3 DEF Pids

\* The inductive step, action by action.
LEMMA StopProxyKeeps ==
  ASSUME OneCaller, EngineInv, NEW t \in Threads, StopProxy(t)
  PROVE  EngineInv'
<1>0. \A u \in Threads : u = t
  BY DEF OneCaller
<1>1. /\ call[t] \in Call /\ call \in [Threads -> Call] /\ CallKnows(call[t])
      /\ Pids = 1 .. Len(spawned) /\ 0 \notin Pids /\ Len(spawned) \in Nat
      /\ \A p \in Pids : spawned[p] \in Names
  BY CallOf, PidsAre
<1>2. /\ call'[t].at = "stopEngine" /\ call'[t].name = call[t].name
      /\ call'[t].proc = call[t].proc /\ call'[t].then = call[t].then
  BY <1>1 DEF StopProxy, Goto, Call
<1>3. Pids' = Pids
  BY DEF StopProxy, engineVars, Pids
<1>4. [call[t] EXCEPT !.at = "stopEngine"] \in Call
  BY <1>1 DEF StopProxy, Here, Call, Points, EngineInv, EngineTypeOK, Survivor
<1>5. (call \in [Threads -> Call])'
  BY <1>1, <1>3, <1>4 DEF StopProxy, Goto, Call
<1>6. EngineTypeOK'
  BY <1>1, <1>3, <1>5 DEF EngineInv, EngineTypeOK, StopProxy, engineVars, Call, CallKnows, Here, File, Pids, Starting
<1>7. \A m \in Names : pidFile'[m] # 0 => spawned'[pidFile'[m]] = m
  BY <1>1, <1>3 DEF EngineInv, EngineTypeOK, StopProxy, engineVars, CallKnows, Here, Pids, Call, Starting
<1>8. \A p \in alive' : Known(p)'
  BY <1>0, <1>1, <1>2, <1>3, ZenonT(60)
     DEF EngineInv, EngineTypeOK, StopProxy, engineVars, CallKnows, Here, Pids, Known, Call
<1>9. (engine # 0 => pidFile[spawned[engine]] \notin alive \ {engine})'
  BY <1>1, <1>3 DEF EngineInv, EngineTypeOK, StopProxy, engineVars, CallKnows, Here, Pids, File, Call, Starting
<1>10. (listening => proxy \/ \E u \in Threads : Here(u, "publish"))'
  BY <1>0, <1>1, <1>2 DEF EngineInv, EngineTypeOK, StopProxy, engineVars, Here, Goto, Call
<1>11. CallKnows(call[t])'
  BY <1>1, <1>2, <1>3 DEF EngineInv, EngineTypeOK, StopProxy, engineVars, CallKnows, Here, Pids, File, Starting, Survivor, Call
<1> QED BY <1>0, <1>6, <1>7, <1>8, <1>9, <1>10, <1>11 DEF EngineInv

\* Asking the engine to stop (EngineProcess.stop) keeps every process accounted
\* for.
LEMMA StopEngineKeeps ==
  ASSUME OneCaller, EngineInv, NEW t \in Threads, StopEngine(t)
  PROVE  EngineInv'
<1>0. \A u \in Threads : u = t
  BY DEF OneCaller
<1>1. /\ call[t] \in Call /\ call \in [Threads -> Call] /\ CallKnows(call[t])
      /\ Pids = 1 .. Len(spawned) /\ 0 \notin Pids /\ Len(spawned) \in Nat
      /\ \A p \in Pids : spawned[p] \in Names
  BY CallOf, PidsAre
<1>2. /\ call'[t].at = (IF engine = 0 THEN call[t].then ELSE "kill") /\ call'[t].name = call[t].name
      /\ call'[t].proc = engine /\ call'[t].then = call[t].then
  BY <1>1 DEF StopEngine, Goto, Call
<1>3. Pids' = Pids
  BY DEF StopEngine, engineVars, Pids
<1>4. [call[t] EXCEPT !.proc = engine, !.at = IF engine = 0 THEN call[t].then ELSE "kill"] \in Call
  BY <1>1 DEF StopEngine, Here, Call, Points, EngineInv, EngineTypeOK, Survivor
<1>5. (call \in [Threads -> Call])'
  BY <1>1, <1>3, <1>4 DEF StopEngine, Goto, Call
<1>6. EngineTypeOK'
  BY <1>1, <1>3, <1>5 DEF EngineInv, EngineTypeOK, StopEngine, engineVars, Call, CallKnows, Here, File, Pids, Starting
<1>7. \A m \in Names : pidFile'[m] # 0 => spawned'[pidFile'[m]] = m
  BY <1>1, <1>3 DEF EngineInv, EngineTypeOK, StopEngine, engineVars, CallKnows, Here, Pids, Call, Starting
<1>8. \A p \in alive' : Known(p)'
  BY <1>0, <1>1, <1>2, <1>3 DEF EngineInv, EngineTypeOK, StopEngine, engineVars, CallKnows, Here, Pids, Known, Call
<1>9. (engine # 0 => pidFile[spawned[engine]] \notin alive \ {engine})'
  BY <1>1, <1>3 DEF EngineInv, EngineTypeOK, StopEngine, engineVars, CallKnows, Here, Pids, File, Call, Starting
<1>10. (listening => proxy \/ \E u \in Threads : Here(u, "publish"))'
  BY <1>0, <1>1, <1>2 DEF EngineInv, EngineTypeOK, StopEngine, engineVars, Here, Goto, Call
<1>11. CallKnows(call[t])'
  BY <1>1, <1>2, <1>3 DEF EngineInv, EngineTypeOK, StopEngine, engineVars, CallKnows, Here, Pids, File, Starting, Survivor, Call
<1> QED BY <1>0, <1>6, <1>7, <1>8, <1>9, <1>10, <1>11 DEF EngineInv

\* Killing the process of a call keeps every process accounted for.
LEMMA KillKeeps ==
  ASSUME OneCaller, EngineInv, NEW t \in Threads, Kill(t)
  PROVE  EngineInv'
<1>0. \A u \in Threads : u = t
  BY DEF OneCaller
<1>1. /\ call[t] \in Call /\ call \in [Threads -> Call] /\ CallKnows(call[t])
      /\ Pids = 1 .. Len(spawned) /\ 0 \notin Pids /\ Len(spawned) \in Nat
      /\ \A p \in Pids : spawned[p] \in Names
  BY CallOf, PidsAre
<1>2. /\ call'[t].at = "forget" /\ call'[t].name = call[t].name
      /\ call'[t].proc = call[t].proc /\ call'[t].then = call[t].then
  BY <1>1 DEF Kill, Goto, Call
<1>3. Pids' = Pids
  BY DEF Kill, engineVars, Pids
<1>4. [call[t] EXCEPT !.at = "forget"] \in Call
  BY <1>1 DEF Kill, Here, Call, Points, EngineInv, EngineTypeOK, Survivor
<1>5. (call \in [Threads -> Call])'
  BY <1>1, <1>3, <1>4 DEF Kill, Goto, Call
<1>6. EngineTypeOK'
  BY <1>1, <1>3, <1>5 DEF EngineInv, EngineTypeOK, Kill, engineVars, Call, CallKnows, Here, File, Pids, Starting
<1>7. \A m \in Names : pidFile'[m] # 0 => spawned'[pidFile'[m]] = m
  BY <1>1, <1>3 DEF EngineInv, EngineTypeOK, Kill, engineVars, CallKnows, Here, Pids, Call, Starting
<1>8. \A p \in alive' : Known(p)'
  BY <1>0, <1>1, <1>2, <1>3, ZenonT(60)
     DEF EngineInv, EngineTypeOK, Kill, engineVars, CallKnows, Here, Pids, Known, Call
<1>9. (engine # 0 => pidFile[spawned[engine]] \notin alive \ {engine})'
  BY <1>1, <1>3 DEF EngineInv, EngineTypeOK, Kill, engineVars, CallKnows, Here, Pids, File, Call, Starting
<1>10. (listening => proxy \/ \E u \in Threads : Here(u, "publish"))'
  BY <1>0, <1>1, <1>2 DEF EngineInv, EngineTypeOK, Kill, engineVars, Here, Goto, Call
<1>11. CallKnows(call[t])'
  BY <1>1, <1>2, <1>3 DEF EngineInv, EngineTypeOK, Kill, engineVars, CallKnows, Here, Pids, File, Starting, Survivor, Call
<1> QED BY <1>0, <1>6, <1>7, <1>8, <1>9, <1>10, <1>11 DEF EngineInv

\* Deleting a pid file, after the process it names is gone, keeps every process
\* accounted for.
LEMMA ForgetKeeps ==
  ASSUME OneCaller, EngineInv, NEW t \in Threads, Forget(t)
  PROVE  EngineInv'
<1>0. \A u \in Threads : u = t
  BY DEF OneCaller
<1>1. /\ call[t] \in Call /\ call \in [Threads -> Call] /\ CallKnows(call[t])
      /\ Pids = 1 .. Len(spawned) /\ 0 \notin Pids /\ Len(spawned) \in Nat
      /\ \A p \in Pids : spawned[p] \in Names
  BY CallOf, PidsAre
<1>2. /\ call'[t].at = call[t].then /\ call'[t].name = call[t].name
      /\ call'[t].proc = 0 /\ call'[t].then = call[t].then
  BY <1>1 DEF Forget, Goto, Call
<1>3. Pids' = Pids
  BY DEF Forget, engineVars, Pids
<1>4. [call[t] EXCEPT !.at = call[t].then, !.proc = 0] \in Call
  BY <1>1 DEF Forget, Here, Call, Points, EngineInv, EngineTypeOK, Survivor
<1>5. (call \in [Threads -> Call])'
  BY <1>1, <1>3, <1>4 DEF Forget, Goto, Call
<1>a. File(call[t]) \in Names /\ pidFile' = [pidFile EXCEPT ![File(call[t])] = 0]
  <2>1. call[t].proc # 0 => call[t].proc \in Pids
    BY <1>1 DEF Call
  <2>2. call[t].proc = 0 => call[t].name \in Names
    BY <1>1 DEF Forget, Here, CallKnows
  <2>3. File(call[t]) \in Names
    BY <2>1, <2>2, <1>1 DEF File
  <2> QED BY <2>3 DEF Forget, File
<1>b. ASSUME NEW p \in alive PROVE p = pidFile[spawned[p]] \/ p \in lost
  BY <1>0, <1>1 DEF EngineInv, Known, Forget, Here
<1>c. ASSUME NEW p \in alive, p = pidFile[spawned[p]] PROVE spawned[p] # File(call[t])
  BY <1>1, <1>c DEF Forget, Here, CallKnows
<1>6. EngineTypeOK'
  BY <1>1, <1>3, <1>5 DEF EngineInv, EngineTypeOK, Forget, engineVars, Call, CallKnows, Here, File, Pids, Starting
<1>7. \A m \in Names : pidFile'[m] # 0 => spawned'[pidFile'[m]] = m
  BY <1>1, <1>3 DEF EngineInv, EngineTypeOK, Forget, engineVars, CallKnows, Here, Pids, Call, Starting
<1>8. \A p \in alive' : Known(p)'
  <2>1. alive' = alive /\ spawned' = spawned /\ lost' = lost
    BY DEF Forget
  <2>2. ASSUME NEW p \in alive PROVE pidFile'[spawned[p]] = p \/ p \in lost
    BY <1>1, <1>a, <1>b, <1>c DEF EngineInv, EngineTypeOK
  <2> QED BY <2>1, <2>2 DEF Known
<1>9. (engine # 0 => pidFile[spawned[engine]] \notin alive \ {engine})'
  BY <1>1, <1>3 DEF EngineInv, EngineTypeOK, Forget, engineVars, CallKnows, Here, Pids, File, Call, Starting
<1>10. (listening => proxy \/ \E u \in Threads : Here(u, "publish"))'
  BY <1>0, <1>1, <1>2 DEF EngineInv, EngineTypeOK, Forget, engineVars, Here, Goto, Call
<1>11. CallKnows(call[t])'
  BY <1>1, <1>2, <1>3 DEF EngineInv, EngineTypeOK, Forget, engineVars, CallKnows, Here, Pids, File, Starting, Survivor, Call
<1> QED BY <1>0, <1>6, <1>7, <1>8, <1>9, <1>10, <1>11 DEF EngineInv

\* reapStale, which kills the process a pid file names, keeps every process
\* accounted for.
LEMMA ReapKeeps ==
  ASSUME OneCaller, EngineInv, NEW t \in Threads, Reap(t)
  PROVE  EngineInv'
<1>0. \A u \in Threads : u = t
  BY DEF OneCaller
<1>1. /\ call[t] \in Call /\ call \in [Threads -> Call] /\ CallKnows(call[t])
      /\ Pids = 1 .. Len(spawned) /\ 0 \notin Pids /\ Len(spawned) \in Nat
      /\ \A p \in Pids : spawned[p] \in Names
  BY CallOf, PidsAre
<1>2. /\ call'[t].at = "kill" /\ call'[t].name = call[t].name
      /\ call'[t].proc = Survivor(call[t].name) /\ call'[t].then = "ports"
  BY <1>1 DEF Reap, Goto, Call
<1>3. Pids' = Pids
  BY DEF Reap, engineVars, Pids
<1>4. [call[t] EXCEPT !.proc = Survivor(call[t].name), !.at = "kill", !.then = "ports"] \in Call
  BY <1>1 DEF Reap, Here, Call, Points, EngineInv, EngineTypeOK, Survivor
<1>5. (call \in [Threads -> Call])'
  BY <1>1, <1>3, <1>4 DEF Reap, Goto, Call
<1>6. EngineTypeOK'
  BY <1>1, <1>3, <1>5 DEF EngineInv, EngineTypeOK, Reap, engineVars, Call, CallKnows, Here, File, Pids, Starting
<1>7. \A m \in Names : pidFile'[m] # 0 => spawned'[pidFile'[m]] = m
  BY <1>1, <1>3 DEF EngineInv, EngineTypeOK, Reap, engineVars, CallKnows, Here, Pids, Call, Starting
<1>8. \A p \in alive' : Known(p)'
  BY <1>0, <1>1, <1>2, <1>3 DEF EngineInv, EngineTypeOK, Reap, engineVars, CallKnows, Here, Pids, Known, Call
<1>9. (engine # 0 => pidFile[spawned[engine]] \notin alive \ {engine})'
  BY <1>1, <1>3 DEF EngineInv, EngineTypeOK, Reap, engineVars, CallKnows, Here, Pids, File, Call, Starting
<1>10. (listening => proxy \/ \E u \in Threads : Here(u, "publish"))'
  BY <1>0, <1>1, <1>2 DEF EngineInv, EngineTypeOK, Reap, engineVars, Here, Goto, Call
<1>11. CallKnows(call[t])'
  BY <1>1, <1>2, <1>3, ZenonT(60)
     DEF EngineInv, EngineTypeOK, Reap, engineVars, CallKnows, Here, Pids, File, Starting, Survivor, Call
<1> QED BY <1>0, <1>6, <1>7, <1>8, <1>9, <1>10, <1>11 DEF EngineInv

\* The look at the local port keeps every process accounted for.
LEMMA PortsKeeps ==
  ASSUME OneCaller, EngineInv, NEW t \in Threads, Ports(t)
  PROVE  EngineInv'
<1>0. \A u \in Threads : u = t
  BY DEF OneCaller
<1>1. /\ call[t] \in Call /\ call \in [Threads -> Call] /\ CallKnows(call[t])
      /\ Pids = 1 .. Len(spawned) /\ 0 \notin Pids /\ Len(spawned) \in Nat
      /\ \A p \in Pids : spawned[p] \in Names
  BY CallOf, PidsAre
<1>a. PICK a \in {"spawn", "fail"} : call' = [call EXCEPT ![t].at = a]
  BY DEF Ports, Goto
<1>2. /\ call'[t].at = a /\ call'[t].name = call[t].name
      /\ call'[t].proc = call[t].proc /\ call'[t].then = call[t].then
  BY <1>1, <1>a DEF Ports, Goto, Call
<1>3. Pids' = Pids
  BY DEF Ports, engineVars, Pids
<1>4. [call[t] EXCEPT !.at = a] \in Call
  BY <1>1, <1>a DEF Ports, Here, Call, Points, EngineInv, EngineTypeOK, Survivor
<1>5. (call \in [Threads -> Call])'
  BY <1>1, <1>3, <1>4, <1>a DEF Ports, Goto, Call
<1>6. EngineTypeOK'
  BY <1>1, <1>3, <1>5 DEF EngineInv, EngineTypeOK, Ports, engineVars, Call, CallKnows, Here, File, Pids, Starting
<1>7. \A m \in Names : pidFile'[m] # 0 => spawned'[pidFile'[m]] = m
  BY <1>1, <1>3 DEF EngineInv, EngineTypeOK, Ports, engineVars, CallKnows, Here, Pids, Call, Starting
<1>8. \A p \in alive' : Known(p)'
  BY <1>0, <1>1, <1>2, <1>3, <1>a, ZenonT(60)
     DEF EngineInv, EngineTypeOK, Ports, engineVars, CallKnows, Here, Pids, Known, Call
<1>9. (engine # 0 => pidFile[spawned[engine]] \notin alive \ {engine})'
  BY <1>1, <1>3 DEF EngineInv, EngineTypeOK, Ports, engineVars, CallKnows, Here, Pids, File, Call, Starting
<1>10. (listening => proxy \/ \E u \in Threads : Here(u, "publish"))'
  BY <1>0, <1>1, <1>2, <1>a DEF EngineInv, EngineTypeOK, Ports, engineVars, Here, Goto, Call
<1>11. CallKnows(call[t])'
  BY <1>1, <1>2, <1>3, <1>a DEF EngineInv, EngineTypeOK, Ports, engineVars, CallKnows, Here, Pids, File, Starting, Survivor, Call
<1> QED BY <1>0, <1>6, <1>7, <1>8, <1>9, <1>10, <1>11 DEF EngineInv

\* Writing the pid file makes the new process known by it.
LEMMA RecordKeeps ==
  ASSUME OneCaller, EngineInv, NEW t \in Threads, Record(t)
  PROVE  EngineInv'
<1>0. \A u \in Threads : u = t
  BY DEF OneCaller
<1>1. /\ call[t] \in Call /\ call \in [Threads -> Call] /\ CallKnows(call[t])
      /\ Pids = 1 .. Len(spawned) /\ 0 \notin Pids /\ Len(spawned) \in Nat
      /\ \A p \in Pids : spawned[p] \in Names
  BY CallOf, PidsAre
<1>2. /\ call'[t].at = "assign" /\ call'[t].name = call[t].name
      /\ call'[t].proc = call[t].proc /\ call'[t].then = call[t].then
  BY <1>1 DEF Record, Goto, Call
<1>3. Pids' = Pids
  BY DEF Record, engineVars, Pids
<1>4. [call[t] EXCEPT !.at = "assign"] \in Call
  BY <1>1 DEF Record, Here, Call, Points, EngineInv, EngineTypeOK, Survivor
<1>5. (call \in [Threads -> Call])'
  BY <1>1, <1>3, <1>4 DEF Record, Goto, Call
<1>a. /\ call[t].name \in Names /\ pidFile[call[t].name] = 0
      /\ call[t].proc \in Pids /\ spawned[call[t].proc] = call[t].name
  BY <1>1 DEF Record, Here, CallKnows, Starting, Call
<1>b. 0 \notin alive /\ alive' = alive /\ spawned' = spawned
  BY <1>1 DEF Record, EngineInv, EngineTypeOK
<1>c. \/ pidFile' = [pidFile EXCEPT ![call[t].name] = call[t].proc] /\ lost' = lost
      \/ lost' = lost \cup {call[t].proc} /\ pidFile' = pidFile
  BY DEF Record
<1>d. ASSUME NEW p \in alive, p # call[t].proc
      PROVE  (pidFile[spawned[p]] = p /\ spawned[p] # call[t].name) \/ p \in lost
  BY <1>0, <1>a, <1>b, <1>d DEF EngineInv, Known
<1>6. EngineTypeOK'
  BY <1>1, <1>3, <1>5 DEF EngineInv, EngineTypeOK, Record, engineVars, Call, CallKnows, Here, File, Pids, Starting
<1>7. \A m \in Names : pidFile'[m] # 0 => spawned'[pidFile'[m]] = m
  BY <1>1, <1>3, ZenonT(60)
     DEF EngineInv, EngineTypeOK, Record, engineVars, CallKnows, Here, Pids, Call, Starting
<1>8. \A p \in alive' : Known(p)'
  <2>1. ASSUME NEW p \in alive PROVE pidFile'[spawned[p]] = p \/ p \in lost'
    BY <1>1, <1>a, <1>c, <1>d, ZenonT(60) DEF EngineInv, EngineTypeOK
  <2> QED BY <2>1, <1>b DEF Known
<1>9. (engine # 0 => pidFile[spawned[engine]] \notin alive \ {engine})'
  BY <1>1, <1>3 DEF EngineInv, EngineTypeOK, Record, engineVars, CallKnows, Here, Pids, File, Call, Starting
<1>10. (listening => proxy \/ \E u \in Threads : Here(u, "publish"))'
  BY <1>0, <1>1, <1>2 DEF EngineInv, EngineTypeOK, Record, engineVars, Here, Goto, Call
<1>11. CallKnows(call[t])'
  <2>1. pidFile'[spawned'[call'[t].proc]] \notin alive' \ {call'[t].proc}
    BY <1>2, <1>a, <1>b, <1>c DEF EngineInv, EngineTypeOK
  <2> QED BY <2>1, <1>1, <1>2, <1>a DEF Record, Here, CallKnows, Starting
<1> QED BY <1>0, <1>6, <1>7, <1>8, <1>9, <1>10, <1>11 DEF EngineInv

\* Handing the started engine to the tunnel keeps every process accounted for.
LEMMA AssignKeeps ==
  ASSUME OneCaller, EngineInv, NEW t \in Threads, Assign(t)
  PROVE  EngineInv'
<1>0. \A u \in Threads : u = t
  BY DEF OneCaller
<1>1. /\ call[t] \in Call /\ call \in [Threads -> Call] /\ CallKnows(call[t])
      /\ Pids = 1 .. Len(spawned) /\ 0 \notin Pids /\ Len(spawned) \in Nat
      /\ \A p \in Pids : spawned[p] \in Names
  BY CallOf, PidsAre
<1>2. /\ call'[t].at = "await" /\ call'[t].name = call[t].name
      /\ call'[t].proc = call[t].proc /\ call'[t].then = call[t].then
  BY <1>1 DEF Assign, Goto, Call
<1>3. Pids' = Pids
  BY DEF Assign, engineVars, Pids
<1>4. [call[t] EXCEPT !.at = "await"] \in Call
  BY <1>1 DEF Assign, Here, Call, Points, EngineInv, EngineTypeOK, Survivor
<1>5. (call \in [Threads -> Call])'
  BY <1>1, <1>3, <1>4 DEF Assign, Goto, Call
<1>6. EngineTypeOK'
  BY <1>1, <1>3, <1>5 DEF EngineInv, EngineTypeOK, Assign, engineVars, Call, CallKnows, Here, File, Pids, Starting
<1>7. \A m \in Names : pidFile'[m] # 0 => spawned'[pidFile'[m]] = m
  BY <1>1, <1>3 DEF EngineInv, EngineTypeOK, Assign, engineVars, CallKnows, Here, Pids, Call, Starting
<1>8. \A p \in alive' : Known(p)'
  BY <1>0, <1>1, <1>2, <1>3 DEF EngineInv, EngineTypeOK, Assign, engineVars, CallKnows, Here, Pids, Known, Call
<1>9. (engine # 0 => pidFile[spawned[engine]] \notin alive \ {engine})'
  BY <1>1, <1>3 DEF EngineInv, EngineTypeOK, Assign, engineVars, CallKnows, Here, Pids, File, Call, Starting
<1>10. (listening => proxy \/ \E u \in Threads : Here(u, "publish"))'
  BY <1>0, <1>1, <1>2 DEF EngineInv, EngineTypeOK, Assign, engineVars, Here, Goto, Call
<1>11. CallKnows(call[t])'
  BY <1>1, <1>2, <1>3 DEF EngineInv, EngineTypeOK, Assign, engineVars, CallKnows, Here, Pids, File, Starting, Survivor, Call
<1> QED BY <1>0, <1>6, <1>7, <1>8, <1>9, <1>10, <1>11 DEF EngineInv

\* An engine that becomes ready keeps every process accounted for.
LEMMA ReadyKeeps ==
  ASSUME OneCaller, EngineInv, NEW t \in Threads, Ready(t)
  PROVE  EngineInv'
<1>0. \A u \in Threads : u = t
  BY DEF OneCaller
<1>1. /\ call[t] \in Call /\ call \in [Threads -> Call] /\ CallKnows(call[t])
      /\ Pids = 1 .. Len(spawned) /\ 0 \notin Pids /\ Len(spawned) \in Nat
      /\ \A p \in Pids : spawned[p] \in Names
  BY CallOf, PidsAre
<1>2. /\ call'[t].at = "serve" /\ call'[t].name = call[t].name
      /\ call'[t].proc = call[t].proc /\ call'[t].then = call[t].then
  BY <1>1 DEF Ready, Goto, Call
<1>3. Pids' = Pids
  BY DEF Ready, engineVars, Pids
<1>4. [call[t] EXCEPT !.at = "serve"] \in Call
  BY <1>1 DEF Ready, Here, Call, Points, EngineInv, EngineTypeOK, Survivor
<1>5. (call \in [Threads -> Call])'
  BY <1>1, <1>3, <1>4 DEF Ready, Goto, Call
<1>6. EngineTypeOK'
  BY <1>1, <1>3, <1>5 DEF EngineInv, EngineTypeOK, Ready, engineVars, Call, CallKnows, Here, File, Pids, Starting
<1>7. \A m \in Names : pidFile'[m] # 0 => spawned'[pidFile'[m]] = m
  BY <1>1, <1>3 DEF EngineInv, EngineTypeOK, Ready, engineVars, CallKnows, Here, Pids, Call, Starting
<1>8. \A p \in alive' : Known(p)'
  BY <1>0, <1>1, <1>2, <1>3 DEF EngineInv, EngineTypeOK, Ready, engineVars, CallKnows, Here, Pids, Known, Call
<1>9. (engine # 0 => pidFile[spawned[engine]] \notin alive \ {engine})'
  BY <1>1, <1>3 DEF EngineInv, EngineTypeOK, Ready, engineVars, CallKnows, Here, Pids, File, Call, Starting
<1>10. (listening => proxy \/ \E u \in Threads : Here(u, "publish"))'
  BY <1>0, <1>1, <1>2 DEF EngineInv, EngineTypeOK, Ready, engineVars, Here, Goto, Call
<1>11. CallKnows(call[t])'
  BY <1>1, <1>2, <1>3 DEF EngineInv, EngineTypeOK, Ready, engineVars, CallKnows, Here, Pids, File, Starting, Survivor, Call
<1> QED BY <1>0, <1>6, <1>7, <1>8, <1>9, <1>10, <1>11 DEF EngineInv

\* An engine that does not become ready in time is stopped by the call that
\* waits for it.
LEMMA TimeoutKeeps ==
  ASSUME OneCaller, EngineInv, NEW t \in Threads, Timeout(t)
  PROVE  EngineInv'
<1>0. \A u \in Threads : u = t
  BY DEF OneCaller
<1>1. /\ call[t] \in Call /\ call \in [Threads -> Call] /\ CallKnows(call[t])
      /\ Pids = 1 .. Len(spawned) /\ 0 \notin Pids /\ Len(spawned) \in Nat
      /\ \A p \in Pids : spawned[p] \in Names
  BY CallOf, PidsAre
<1>2. /\ call'[t].at = (IF call[t].proc \in hooked THEN "kill" ELSE "fail") /\ call'[t].name = call[t].name
      /\ call'[t].proc = call[t].proc /\ call'[t].then = "fail"
  BY <1>1 DEF Timeout, Goto, Call
<1>3. Pids' = Pids
  BY DEF Timeout, engineVars, Pids
<1>4. [call[t] EXCEPT !.at = IF call[t].proc \in hooked THEN "kill" ELSE "fail", !.then = "fail"] \in Call
  BY <1>1 DEF Timeout, Here, Call, Points, EngineInv, EngineTypeOK, Survivor
<1>5. (call \in [Threads -> Call])'
  BY <1>1, <1>3, <1>4 DEF Timeout, Goto, Call
<1>6. EngineTypeOK'
  BY <1>1, <1>3, <1>5 DEF EngineInv, EngineTypeOK, Timeout, engineVars, Call, CallKnows, Here, File, Pids, Starting
<1>7. \A m \in Names : pidFile'[m] # 0 => spawned'[pidFile'[m]] = m
  BY <1>1, <1>3 DEF EngineInv, EngineTypeOK, Timeout, engineVars, CallKnows, Here, Pids, Call, Starting
<1>8. \A p \in alive' : Known(p)'
  BY <1>0, <1>1, <1>2, <1>3 DEF EngineInv, EngineTypeOK, Timeout, engineVars, CallKnows, Here, Pids, Known, Call
<1>9. (engine # 0 => pidFile[spawned[engine]] \notin alive \ {engine})'
  BY <1>1, <1>3 DEF EngineInv, EngineTypeOK, Timeout, engineVars, CallKnows, Here, Pids, File, Call, Starting
<1>10. (listening => proxy \/ \E u \in Threads : Here(u, "publish"))'
  BY <1>0, <1>1, <1>2 DEF EngineInv, EngineTypeOK, Timeout, engineVars, Here, Goto, Call
<1>11. CallKnows(call[t])'
  BY <1>1, <1>2, <1>3 DEF EngineInv, EngineTypeOK, Timeout, engineVars, CallKnows, Here, Pids, File, Starting, Survivor, Call
<1> QED BY <1>0, <1>6, <1>7, <1>8, <1>9, <1>10, <1>11 DEF EngineInv

\* Opening the listener keeps every process accounted for.
LEMMA ServeKeeps ==
  ASSUME OneCaller, EngineInv, NEW t \in Threads, Serve(t)
  PROVE  EngineInv'
<1>0. \A u \in Threads : u = t
  BY DEF OneCaller
<1>1. /\ call[t] \in Call /\ call \in [Threads -> Call] /\ CallKnows(call[t])
      /\ Pids = 1 .. Len(spawned) /\ 0 \notin Pids /\ Len(spawned) \in Nat
      /\ \A p \in Pids : spawned[p] \in Names
  BY CallOf, PidsAre
<1>a. PICK a \in {"publish", "fail"} : call' = [call EXCEPT ![t].at = a]
  BY DEF Serve, Goto
<1>2. /\ call'[t].at = a /\ call'[t].name = call[t].name
      /\ call'[t].proc = call[t].proc /\ call'[t].then = call[t].then
  BY <1>1, <1>a DEF Serve, Goto, Call
<1>3. Pids' = Pids
  BY DEF Serve, engineVars, Pids
<1>4. [call[t] EXCEPT !.at = a] \in Call
  BY <1>1, <1>a DEF Serve, Here, Call, Points, EngineInv, EngineTypeOK, Survivor
<1>5. (call \in [Threads -> Call])'
  BY <1>1, <1>3, <1>4, <1>a DEF Serve, Goto, Call
<1>6. EngineTypeOK'
  BY <1>1, <1>3, <1>5 DEF EngineInv, EngineTypeOK, Serve, engineVars, Call, CallKnows, Here, File, Pids, Starting
<1>7. \A m \in Names : pidFile'[m] # 0 => spawned'[pidFile'[m]] = m
  BY <1>1, <1>3 DEF EngineInv, EngineTypeOK, Serve, engineVars, CallKnows, Here, Pids, Call, Starting
<1>8. \A p \in alive' : Known(p)'
  BY <1>0, <1>1, <1>2, <1>3, <1>a, ZenonT(60)
     DEF EngineInv, EngineTypeOK, Serve, engineVars, CallKnows, Here, Pids, Known, Call
<1>9. (engine # 0 => pidFile[spawned[engine]] \notin alive \ {engine})'
  BY <1>1, <1>3 DEF EngineInv, EngineTypeOK, Serve, engineVars, CallKnows, Here, Pids, File, Call, Starting
<1>10. (listening => proxy \/ \E u \in Threads : Here(u, "publish"))'
  <2>1. (~listening /\ call'[t].at = "publish") \/ UNCHANGED listening
    <3>1. CASE Goto(t, "publish")
      BY <3>1, <1>1 DEF Goto, Call, Serve
    <3> QED BY <3>1 DEF Serve
  <2>2. listening => proxy
    BY <1>0 DEF EngineInv, Serve, Here
  <2> QED BY <2>1, <2>2 DEF Serve, Here
<1>11. CallKnows(call[t])'
  BY <1>1, <1>2, <1>3, <1>a DEF EngineInv, EngineTypeOK, Serve, engineVars, CallKnows, Here, Pids, File, Starting, Survivor, Call
<1> QED BY <1>0, <1>6, <1>7, <1>8, <1>9, <1>10, <1>11 DEF EngineInv

\* A listener that cannot be opened leaves no listener and an engine that is
\* stopped.
LEMMA BrokenKeeps ==
  ASSUME OneCaller, EngineInv, NEW t \in Threads, Broken(t)
  PROVE  EngineInv'
<1>0. \A u \in Threads : u = t
  BY DEF OneCaller
<1>1. /\ call[t] \in Call /\ call \in [Threads -> Call] /\ CallKnows(call[t])
      /\ Pids = 1 .. Len(spawned) /\ 0 \notin Pids /\ Len(spawned) \in Nat
      /\ \A p \in Pids : spawned[p] \in Names
  BY CallOf, PidsAre
<1>2. /\ call'[t].at = "fail" /\ call'[t].name = call[t].name
      /\ call'[t].proc = call[t].proc /\ call'[t].then = call[t].then
  BY <1>1 DEF Broken, Goto, Call
<1>3. Pids' = Pids
  BY DEF Broken, engineVars, Pids
<1>4. [call[t] EXCEPT !.at = "fail"] \in Call
  BY <1>1 DEF Broken, Here, Call, Points, EngineInv, EngineTypeOK, Survivor
<1>5. (call \in [Threads -> Call])'
  BY <1>1, <1>3, <1>4 DEF Broken, Goto, Call
<1>6. EngineTypeOK'
  BY <1>1, <1>3, <1>5 DEF EngineInv, EngineTypeOK, Broken, engineVars, Call, CallKnows, Here, File, Pids, Starting
<1>7. \A m \in Names : pidFile'[m] # 0 => spawned'[pidFile'[m]] = m
  BY <1>1, <1>3 DEF EngineInv, EngineTypeOK, Broken, engineVars, CallKnows, Here, Pids, Call, Starting
<1>8. \A p \in alive' : Known(p)'
  BY <1>0, <1>1, <1>2, <1>3, ZenonT(60)
     DEF EngineInv, EngineTypeOK, Broken, engineVars, CallKnows, Here, Pids, Known, Call
<1>9. (engine # 0 => pidFile[spawned[engine]] \notin alive \ {engine})'
  BY <1>1, <1>3 DEF EngineInv, EngineTypeOK, Broken, engineVars, CallKnows, Here, Pids, File, Call, Starting
<1>10. (listening => proxy \/ \E u \in Threads : Here(u, "publish"))'
  BY <1>0, <1>1, <1>2 DEF EngineInv, EngineTypeOK, Broken, engineVars, Here, Goto, Call
<1>11. CallKnows(call[t])'
  BY <1>1, <1>2, <1>3 DEF EngineInv, EngineTypeOK, Broken, engineVars, CallKnows, Here, Pids, File, Starting, Survivor, Call
<1> QED BY <1>0, <1>6, <1>7, <1>8, <1>9, <1>10, <1>11 DEF EngineInv

\* The end of a successful start keeps every process accounted for.
LEMMA PublishKeeps ==
  ASSUME OneCaller, EngineInv, NEW t \in Threads, Publish(t)
  PROVE  EngineInv'
<1>0. \A u \in Threads : u = t
  BY DEF OneCaller
<1>1. /\ call[t] \in Call /\ call \in [Threads -> Call] /\ CallKnows(call[t])
      /\ Pids = 1 .. Len(spawned) /\ 0 \notin Pids /\ Len(spawned) \in Nat
      /\ \A p \in Pids : spawned[p] \in Names
  BY CallOf, PidsAre
<1>2. /\ call'[t].at = "none" /\ call'[t].name = ""
      /\ call'[t].proc = 0 /\ call'[t].then = "none"
  BY <1>1 DEF Publish, Goto, Call, NoCall
<1>3. Pids' = Pids
  BY DEF Publish, engineVars, Pids
<1>4. NoCall \in Call
  BY <1>1 DEF Publish, Here, Call, Points, EngineInv, EngineTypeOK, Survivor, NoCall
<1>5. (call \in [Threads -> Call])'
  BY <1>1, <1>3, <1>4 DEF Publish, Goto, Call
<1>6. EngineTypeOK'
  BY <1>1, <1>3, <1>5 DEF EngineInv, EngineTypeOK, Publish, engineVars, Call, CallKnows, Here, File, Pids, Starting
<1>7. \A m \in Names : pidFile'[m] # 0 => spawned'[pidFile'[m]] = m
  BY <1>1, <1>3 DEF EngineInv, EngineTypeOK, Publish, engineVars, CallKnows, Here, Pids, Call, Starting
<1>8. \A p \in alive' : Known(p)'
  BY <1>0, <1>1, <1>2, <1>3 DEF EngineInv, EngineTypeOK, Publish, engineVars, CallKnows, Here, Pids, Known, Call
<1>9. (engine # 0 => pidFile[spawned[engine]] \notin alive \ {engine})'
  BY <1>1, <1>3 DEF EngineInv, EngineTypeOK, Publish, engineVars, CallKnows, Here, Pids, File, Call, Starting
<1>10. (listening => proxy \/ \E u \in Threads : Here(u, "publish"))'
  BY <1>0, <1>1, <1>2 DEF EngineInv, EngineTypeOK, Publish, engineVars, Here, Goto, Call
<1>11. CallKnows(call[t])'
  BY <1>1, <1>2, <1>3 DEF EngineInv, EngineTypeOK, Publish, engineVars, CallKnows, Here, Pids, File, Starting, Survivor, Call
<1> QED BY <1>0, <1>6, <1>7, <1>8, <1>9, <1>10, <1>11 DEF EngineInv

\* The end of a failed start keeps every process accounted for.
LEMMA FailKeeps ==
  ASSUME OneCaller, EngineInv, NEW t \in Threads, Fail(t)
  PROVE  EngineInv'
<1>0. \A u \in Threads : u = t
  BY DEF OneCaller
<1>1. /\ call[t] \in Call /\ call \in [Threads -> Call] /\ CallKnows(call[t])
      /\ Pids = 1 .. Len(spawned) /\ 0 \notin Pids /\ Len(spawned) \in Nat
      /\ \A p \in Pids : spawned[p] \in Names
  BY CallOf, PidsAre
<1>2. /\ call'[t].at = "stopProxy" /\ call'[t].name = ""
      /\ call'[t].proc = 0 /\ call'[t].then = "none"
  BY <1>1 DEF Fail, Goto, Call, NoCall
<1>3. Pids' = Pids
  BY DEF Fail, engineVars, Pids
<1>4. [NoCall EXCEPT !.at = "stopProxy"] \in Call
  BY <1>1 DEF Fail, Here, Call, Points, EngineInv, EngineTypeOK, Survivor, NoCall
<1>5. (call \in [Threads -> Call])'
  BY <1>1, <1>3, <1>4 DEF Fail, Goto, Call
<1>6. EngineTypeOK'
  BY <1>1, <1>3, <1>5 DEF EngineInv, EngineTypeOK, Fail, engineVars, Call, CallKnows, Here, File, Pids, Starting
<1>7. \A m \in Names : pidFile'[m] # 0 => spawned'[pidFile'[m]] = m
  BY <1>1, <1>3 DEF EngineInv, EngineTypeOK, Fail, engineVars, CallKnows, Here, Pids, Call, Starting
<1>8. \A p \in alive' : Known(p)'
  BY <1>0, <1>1, <1>2, <1>3 DEF EngineInv, EngineTypeOK, Fail, engineVars, CallKnows, Here, Pids, Known, Call
<1>9. (engine # 0 => pidFile[spawned[engine]] \notin alive \ {engine})'
  BY <1>1, <1>3 DEF EngineInv, EngineTypeOK, Fail, engineVars, CallKnows, Here, Pids, File, Call, Starting
<1>10. (listening => proxy \/ \E u \in Threads : Here(u, "publish"))'
  BY <1>0, <1>1, <1>2 DEF EngineInv, EngineTypeOK, Fail, engineVars, Here, Goto, Call
<1>11. CallKnows(call[t])'
  BY <1>1, <1>2, <1>3 DEF EngineInv, EngineTypeOK, Fail, engineVars, CallKnows, Here, Pids, File, Starting, Survivor, Call
<1> QED BY <1>0, <1>6, <1>7, <1>8, <1>9, <1>10, <1>11 DEF EngineInv

\* The first step of DesktopTunnel.stop keeps every process accounted for.
LEMMA StopKeeps ==
  ASSUME OneCaller, EngineInv, NEW t \in Threads, Stop(t)
  PROVE  EngineInv'
<1>0. \A u \in Threads : u = t
  BY DEF OneCaller
<1>1. /\ call[t] \in Call /\ call \in [Threads -> Call] /\ CallKnows(call[t])
      /\ Pids = 1 .. Len(spawned) /\ 0 \notin Pids /\ Len(spawned) \in Nat
      /\ \A p \in Pids : spawned[p] \in Names
  BY CallOf, PidsAre
<1>2. /\ call'[t].at = "stopProxy" /\ call'[t].name = call[t].name
      /\ call'[t].proc = call[t].proc /\ call'[t].then = call[t].then
  BY <1>1 DEF Stop, Goto, Call
<1>3. Pids' = Pids
  BY DEF Stop, engineVars, Pids
<1>4. [call[t] EXCEPT !.at = "stopProxy"] \in Call
  BY <1>1 DEF Stop, Here, Call, Points, EngineInv, EngineTypeOK, Survivor
<1>5. (call \in [Threads -> Call])'
  BY <1>1, <1>3, <1>4 DEF Stop, Goto, Call
<1>6. EngineTypeOK'
  BY <1>1, <1>3, <1>5 DEF EngineInv, EngineTypeOK, Stop, engineVars, Call, CallKnows, Here, File, Pids, Starting
<1>7. \A m \in Names : pidFile'[m] # 0 => spawned'[pidFile'[m]] = m
  BY <1>1, <1>3 DEF EngineInv, EngineTypeOK, Stop, engineVars, CallKnows, Here, Pids, Call, Starting
<1>8. \A p \in alive' : Known(p)'
  BY <1>0, <1>1, <1>2, <1>3, ZenonT(60)
     DEF EngineInv, EngineTypeOK, Stop, engineVars, CallKnows, Here, Pids, Known, Call
<1>9. (engine # 0 => pidFile[spawned[engine]] \notin alive \ {engine})'
  BY <1>1, <1>3 DEF EngineInv, EngineTypeOK, Stop, engineVars, CallKnows, Here, Pids, File, Call, Starting
<1>10. (listening => proxy \/ \E u \in Threads : Here(u, "publish"))'
  BY <1>0, <1>1, <1>2 DEF EngineInv, EngineTypeOK, Stop, engineVars, Here, Goto, Call
<1>11. CallKnows(call[t])'
  BY <1>1, <1>2, <1>3 DEF EngineInv, EngineTypeOK, Stop, engineVars, CallKnows, Here, Pids, File, Starting, Survivor, Call
<1> QED BY <1>0, <1>6, <1>7, <1>8, <1>9, <1>10, <1>11 DEF EngineInv

\* The first step of DesktopTunnel.start keeps every process accounted for.
LEMMA StartKeeps ==
  ASSUME OneCaller, EngineInv, NEW t \in Threads, NEW n \in Names, Start(t, n)
  PROVE  EngineInv'
<1>0. \A u \in Threads : u = t
  BY DEF OneCaller
<1>1. /\ call[t] \in Call /\ call \in [Threads -> Call] /\ CallKnows(call[t])
      /\ Pids = 1 .. Len(spawned) /\ 0 \notin Pids /\ Len(spawned) \in Nat
      /\ \A p \in Pids : spawned[p] \in Names
  BY CallOf, PidsAre
<1>2. /\ call'[t].at = "stopProxy" /\ call'[t].name = n
      /\ call'[t].proc = 0 /\ call'[t].then = "reap"
  BY <1>1 DEF Start, Goto, Call, NoCall
<1>3. Pids' = Pids
  BY DEF Start, engineVars, Pids
<1>4. [NoCall EXCEPT !.at = "stopProxy", !.name = n, !.then = "reap"] \in Call
  BY <1>1 DEF Start, Here, Call, Points, EngineInv, EngineTypeOK, Survivor, NoCall
<1>5. (call \in [Threads -> Call])'
  BY <1>1, <1>3, <1>4 DEF Start, Goto, Call
<1>a. starts' \in 0 .. MaxStarts
  <2>1. MaxStarts \in Nat
    BY EngineAssumption
  <2>2. starts' = starts + 1 /\ starts < MaxStarts
    BY DEF Start
  <2>3. starts \in 0 .. MaxStarts
    BY DEF EngineInv, EngineTypeOK
  <2> QED BY <2>1, <2>2, <2>3
<1>6. EngineTypeOK'
  BY <1>1, <1>3, <1>5, <1>a DEF EngineInv, EngineTypeOK, Start, engineVars, Call, CallKnows, Here, File, Pids, Starting
<1>7. \A m \in Names : pidFile'[m] # 0 => spawned'[pidFile'[m]] = m
  BY <1>1, <1>3 DEF EngineInv, EngineTypeOK, Start, engineVars, CallKnows, Here, Pids, Call, Starting
<1>8. \A p \in alive' : Known(p)'
  BY <1>0, <1>1, <1>2, <1>3 DEF EngineInv, EngineTypeOK, Start, engineVars, CallKnows, Here, Pids, Known, Call
<1>9. (engine # 0 => pidFile[spawned[engine]] \notin alive \ {engine})'
  BY <1>1, <1>3 DEF EngineInv, EngineTypeOK, Start, engineVars, CallKnows, Here, Pids, File, Call, Starting
<1>10. (listening => proxy \/ \E u \in Threads : Here(u, "publish"))'
  BY <1>0, <1>1, <1>2 DEF EngineInv, EngineTypeOK, Start, engineVars, Here, Goto, Call
<1>11. CallKnows(call[t])'
  BY <1>1, <1>2, <1>3 DEF EngineInv, EngineTypeOK, Start, engineVars, CallKnows, Here, Pids, File, Starting, Survivor, Call
<1> QED BY <1>0, <1>6, <1>7, <1>8, <1>9, <1>10, <1>11 DEF EngineInv

\* The new process is the last; the others keep their pids.
LEMMA Spawned ==
  ASSUME EngineInv, NEW n \in Names, spawned' = Append(spawned, n)
  PROVE  /\ spawned' \in Seq(Names)
         /\ Pids' = Pids \cup {Len(spawned) + 1} /\ Len(spawned) + 1 \notin Pids
         /\ \A p \in Pids : spawned'[p] = spawned[p]
         /\ spawned'[Len(spawned) + 1] = n
<1>1. spawned \in Seq(Names)
  BY DEF EngineInv, EngineTypeOK
<1>2. Len(spawned) \in Nat /\ DOMAIN spawned = 1 .. Len(spawned)
  BY <1>1
<1>3. Append(spawned, n) \in Seq(Names) /\ Len(Append(spawned, n)) = Len(spawned) + 1
  BY <1>1
<1>4. DOMAIN Append(spawned, n) = 1 .. (Len(spawned) + 1)
  BY <1>3
<1>5. \A p \in 1 .. Len(spawned) : Append(spawned, n)[p] = spawned[p]
  BY <1>1
<1>6. Append(spawned, n)[Len(spawned) + 1] = n
  BY <1>1
<1> QED BY <1>2, <1>3, <1>4, <1>5, <1>6 DEF Pids

\* A new process is one its thread is about to record, or is lost with the
\* application.
LEMMA SpawnKeeps ==
  ASSUME OneCaller, EngineInv, NEW t \in Threads, Spawn(t)
  PROVE  EngineInv'
<1> DEFINE n == call[t].name
           pid == Len(spawned) + 1
<1>0. \A u \in Threads : u = t
  BY DEF OneCaller
<1>1. /\ call[t] \in Call /\ call \in [Threads -> Call] /\ CallKnows(call[t])
      /\ 0 \notin Pids /\ Len(spawned) \in Nat /\ \A p \in Pids : spawned[p] \in Names
  BY CallOf, PidsAre
<1>2. n \in Names /\ engine = 0 /\ pidFile[n] = 0
  BY <1>1 DEF Spawn, Here, CallKnows, Starting
<1>3. /\ spawned' = Append(spawned, n)
      /\ alive' = (alive \ {Survivor(n)}) \cup {pid}
      /\ pidFile' = [pidFile EXCEPT ![n] = 0]
      /\ call' = [call EXCEPT ![t].proc = pid, ![t].at = "record"]
  BY DEF Spawn
<1>4. /\ spawned' \in Seq(Names) /\ Pids' = Pids \cup {pid} /\ pid \notin Pids
      /\ spawned'[pid] = n /\ \A p \in Pids : spawned'[p] = spawned[p]
  BY <1>2, <1>3, Spawned
<1>5. /\ call'[t].at = "record" /\ call'[t].name = n
      /\ call'[t].proc = pid /\ call'[t].then = call[t].then
  BY <1>1, <1>3 DEF Call
<1>6. [call[t] EXCEPT !.proc = pid, !.at = "record"] \in Call'
  BY <1>1, <1>4 DEF Call, Points
<1>7. (call \in [Threads -> Call])'
  <2>1. call'[t] \in Call'
    BY <1>1, <1>3, <1>6
  <2> QED BY <2>1, <1>0, <1>1, <1>3
<1>8. EngineTypeOK'
  <2>1. (alive \subseteq Pids /\ hooked \subseteq Pids /\ lost \subseteq Pids)'
    BY <1>3, <1>4 DEF EngineInv, EngineTypeOK, Spawn
  <2>2. ({holder, engine} \subseteq Pids \cup {0})' /\ (pidFile \in [Names -> Pids \cup {0}])'
    BY <1>3, <1>4 DEF EngineInv, EngineTypeOK, Spawn
  <2>3. (proxy \in BOOLEAN /\ listening \in BOOLEAN /\ starts \in 0..MaxStarts)'
    BY DEF EngineInv, EngineTypeOK, Spawn
  <2> QED BY <2>1, <2>2, <2>3, <1>4, <1>7 DEF EngineTypeOK, Call
<1>9. \A m \in Names : pidFile'[m] # 0 => spawned'[pidFile'[m]] = m
  BY <1>3, <1>4 DEF EngineInv, EngineTypeOK
<1>10. \A p \in alive' : Known(p)'
  <2>1. ASSUME NEW p, p = pid PROVE Known(p)'
    BY <2>1, <1>5 DEF Known, Here
  <2>2. ASSUME NEW p \in alive PROVE Known(p)'
    <3>1. p \in Pids /\ (pidFile[spawned[p]] = p \/ p \in lost)
      BY <1>0 DEF EngineInv, EngineTypeOK, Known, Spawn, Here
    <3>2. pidFile[spawned[p]] = p => spawned[p] # n
      BY <3>1, <1>1, <1>2
    <3>3. pidFile'[spawned'[p]] = p \/ p \in lost'
      BY <3>1, <3>2, <1>1, <1>3, <1>4, ZenonT(60) DEF EngineInv, EngineTypeOK, Spawn
    <3> QED BY <3>3 DEF Known
  <2> QED BY <2>1, <2>2, <1>3
<1>11. engine' = 0
  BY <1>2 DEF Spawn
<1>12. (listening => proxy \/ \E u \in Threads : Here(u, "publish"))'
  BY <1>0 DEF EngineInv, Spawn, Here
<1>13. CallKnows(call[t])'
  <2>1. pidFile'[n] = 0
    BY <1>2, <1>3 DEF EngineInv, EngineTypeOK
  <2> QED BY <2>1, <1>1, <1>2, <1>4, <1>5, <1>11 DEF CallKnows, Starting
<1> QED BY <1>0, <1>8, <1>9, <1>10, <1>11, <1>12, <1>13 DEF EngineInv

\* The steps of the proxy's half, and the application's start.
LEMMA QuietKeeps ==
  ASSUME EngineInv, UNCHANGED <<engineVars, call>>
  PROVE  EngineInv'
BY ZenonT(60) DEF EngineInv, EngineTypeOK, engineVars, Pids, Known, Here, CallKnows, File, Starting

\* Of a death, a thread that had not written its pid leaves it in lost.
LEMMA DieKeeps ==
  ASSUME OneCaller, EngineInv, Die
  PROVE  EngineInv'
<1>1. /\ alive' \subseteq alive /\ spawned' = spawned /\ pidFile' = pidFile /\ holder' = holder /\ starts' = starts
      /\ lost' = lost \cup {call[t].proc : t \in {u \in Threads : Here(u, "record")}}
      /\ hooked' = {} /\ engine' = 0 /\ proxy' = FALSE /\ listening' = FALSE
      /\ call' = [t \in Threads |-> NoCall]
  BY DEF Die
<1>2. Pids' = Pids
  BY <1>1 DEF Pids
<1>3. \A t \in Threads : Here(t, "record") => call[t].proc \in Pids
  BY CallOf DEF Call, CallKnows, Here
<1>4. EngineTypeOK'
  <2>1. (call \in [Threads -> [at : Points, name : Names \cup {""}, proc : Pids \cup {0}, then : Points]])'
    BY <1>1 DEF NoCall, Points
  <2> QED BY <2>1, <1>1, <1>2, <1>3, ZenonT(60) DEF EngineInv, EngineTypeOK
<1>5. \A p \in alive' : Known(p)'
  BY <1>1 DEF EngineInv, Known
<1>6. \A t \in Threads : CallKnows(call[t])'
  BY <1>1 DEF CallKnows, NoCall, Starting
<1> QED BY <1>1, <1>4, <1>5, <1>6 DEF EngineInv

\* What the engines and the system do.
LEMMA OutsideKeeps ==
  ASSUME EngineInv, Release \/ \E p \in alive : Bind(p) \/ Exit(p)
  PROVE  EngineInv'
<1>1. /\ alive' \subseteq alive /\ holder' \in Pids \cup {0}
      /\ UNCHANGED <<spawned, hooked, pidFile, engine, proxy, listening, call, starts, lost>>
  BY DEF EngineInv, EngineTypeOK, Release, Bind, Exit
<1>2. EngineTypeOK'
  BY <1>1 DEF EngineInv, EngineTypeOK, Pids
<1>3. \A p \in alive' : Known(p)'
  BY <1>1 DEF EngineInv, Known, Here
<1>4. \A t \in Threads : CallKnows(call[t])'
  BY <1>1 DEF EngineInv, CallKnows, File
<1> QED BY <1>1, <1>2, <1>3, <1>4 DEF EngineInv, Here

\* With one calling thread every process is accounted for in every state.
LEMMA EngineInductive == OneCaller => (TunnelSpec => []EngineInv)
<1> SUFFICES ASSUME OneCaller PROVE TunnelSpec => []EngineInv
  OBVIOUS
<1>1. TunnelInit => EngineInv
  <2> SUFFICES ASSUME TunnelInit PROVE EngineInv
    OBVIOUS
  <2>1. spawned \in Seq(Names) /\ Pids = {}
    BY DEF TunnelInit, Pids
  <2>2. EngineTypeOK
    <3>1. call \in [Threads -> [at : Points, name : Names \cup {""}, proc : Pids \cup {0}, then : Points]]
      BY DEF TunnelInit, NoCall, Points
    <3>2. starts \in 0 .. MaxStarts
      <4>1. MaxStarts \in Nat
        BY EngineAssumption
      <4> QED BY <4>1 DEF TunnelInit
    <3> QED BY <2>1, <3>1, <3>2 DEF TunnelInit, EngineTypeOK
  <2>3. \A t \in Threads : CallKnows(call[t])
    BY DEF TunnelInit, CallKnows, NoCall, Starting
  <2> QED BY <2>2, <2>3 DEF TunnelInit, EngineInv
<1>2. EngineInv /\ [TunnelNext]_tunnelVars => EngineInv'
  <2> SUFFICES ASSUME EngineInv, [TunnelNext]_tunnelVars PROVE EngineInv'
    OBVIOUS
  <2>1. CASE UNCHANGED tunnelVars
    BY <2>1, QuietKeeps DEF tunnelVars
  <2>2. CASE Die
    BY <2>2, DieKeeps
  <2>3. CASE Release \/ \E p \in alive : Bind(p) \/ Exit(p)
    BY <2>3, OutsideKeeps
  <2>4. ASSUME NEW t \in Threads, Open(t) \/ ProxyStep(t)
        PROVE  EngineInv'
    BY <2>4, QuietKeeps DEF Open, ProxyStep
  <2>5. ASSUME NEW t \in Threads, Stop(t) \/ \E n \in Names : Start(t, n)
        PROVE  EngineInv'
    BY <2>5, StopKeeps, StartKeeps
  <2>6. ASSUME NEW t \in Threads, ThreadStep(t), ~ProxyStep(t)
        PROVE  EngineInv'
    BY <2>6, StopProxyKeeps, StopEngineKeeps, KillKeeps, ForgetKeeps, ReapKeeps, PortsKeeps, SpawnKeeps,
       RecordKeeps, AssignKeeps, ReadyKeeps, TimeoutKeeps, ServeKeeps, PublishKeeps, BrokenKeeps, FailKeeps
       DEF ThreadStep
  <2> QED BY <2>1, <2>2, <2>3, <2>4, <2>5, <2>6 DEF TunnelNext
<1> QED BY <1>1, <1>2, PTL DEF TunnelSpec

\* With one caller no engine and no listener is ever left to itself, and a start
\* has its own engine's survivor gone before it looks at the port: for any number
\* of engines, starts and deaths.
THEOREM EnginesAreAccounted == OneCaller => (TunnelSpec => []EnginesAccounted)
<1> SUFFICES ASSUME OneCaller PROVE TunnelSpec => []EnginesAccounted
  OBVIOUS
<1>1. EngineInv => EnginesAccounted
  <2> SUFFICES ASSUME EngineInv PROVE EnginesAccounted
    OBVIOUS
  <2>1. NoStray
    BY DEF EngineInv, Known, NoStray
  <2>2. OwnSurvivorGone
    <3> SUFFICES ASSUME NEW t \in Threads, Here(t, "ports"), holder \in alive
                 PROVE  spawned[holder] # call[t].name \/ holder \in lost
      BY DEF OwnSurvivorGone
    <3>1. 0 \notin alive /\ pidFile[call[t].name] = 0
      BY PidsAre, CallOf DEF EngineInv, EngineTypeOK, CallKnows, Here
    <3>2. pidFile[spawned[holder]] = holder \/ holder \in lost
      <4>1. ~ \E u \in Threads : Here(u, "record")
        BY DEF OneCaller, Here
      <4> QED BY <4>1 DEF EngineInv, Known
    <3> QED BY <3>1, <3>2
  <2> QED BY <2>1, <2>2 DEF EngineInv, EnginesAccounted
<1> QED BY <1>1, EngineInductive, PTL
=============================================================================
