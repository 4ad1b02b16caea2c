----------------------------- MODULE SystemProxy -----------------------------
(***************************************************************************)
(* The override of the Windows proxy settings, and how it is undone        *)
(* (shared/desktop/WindowsSystemProxy.kt, with the calls DesktopTunnel     *)
(* makes to it and the helper tools/sysproxy/SysProxy.cs).                 *)
(*                                                                         *)
(* The settings are several registry values, written one command at a      *)
(* time; a command may fail and the process may die between any two.  The  *)
(* backup file is what survives.  DesktopTunnel.start and stop run on      *)
(* threads of their own and nothing keeps them apart.                      *)
(***************************************************************************)
EXTENDS Naturals

CONSTANTS
    Threads,        \* the threads that may call start or stop
    UserSettings,   \* the settings a user may have
    Fails,          \* subset of BOOLEAN: may commands fail in this run of the system?
    Tears,          \* may the process die inside the write of the backup?
    MaxCrashes      \* bound on the deaths of the process

\* A bypass entry WinINET rejects (isUnsafeBypassToken), and the ones added.
Unsafe == {"v6"}
Local == {"local"}

Settings == [enable : BOOLEAN, server : {"theirs", "ours"}, bypass : SUBSET {"steam", "v6", "local"},
             pac : BOOLEAN, detect : BOOLEAN, blob : {"theirs", "ours"}, winhttp : {"theirs", "ours", "direct"}]

ASSUME ProxyAssumption ==
    /\ UserSettings \subseteq {s \in Settings : s.server = "theirs"}
    /\ Fails \subseteq BOOLEAN /\ Tears \in BOOLEAN /\ MaxCrashes \in Nat

VARIABLES
    reg,                \* the settings in effect
    backup,             \* system-proxy-backup.json: "none", "torn" or "saved"
    content,            \* the snapshot in it
    systemProxyApplied,
    connecting,         \* DesktopPlatform's guard against a second start
    process,            \* "off", "booting" (DesktopPlatform's init) or "up"
    task,               \* what each thread is doing
    crashes,
    user,               \* history: the user's own settings
    faulty              \* environment: may commands fail?

vars == <<reg, backup, content, systemProxyApplied, connecting, process, task, crashes, user, faulty>>

\* A thread is idle, starting the engine, reporting that it could not, or at
\* one of the numbered steps of apply or restore; `snap' is the snapshot it
\* works with, `next' what follows a restore.
Idle(s) == [op |-> "idle", at |-> 0, snap |-> s, next |-> "idle"]
At(op, at, s, next) == [op |-> op, at |-> at, snap |-> s, next |-> next]

Task == [op : {"idle", "engine", "failed", "apply", "restore"}, at : 0..8,
         snap : Settings, next : {"idle", "engine", "failed"}]

Init ==
    /\ user \in UserSettings /\ faulty \in Fails
    /\ reg = user /\ content = user
    /\ backup = "none"
    /\ systemProxyApplied = FALSE /\ connecting = FALSE /\ process = "off"
    /\ task = [t \in Threads |-> Idle(user)]
    /\ crashes = 0

-----------------------------------------------------------------------------
(***************************************************************************)
(* The steps of apply and restore.                                         *)
(***************************************************************************)
Safe(bypass) == bypass \ Unsafe                             \* sanitizeBypassForWinInet

mergeBypass(bypass) == Safe(bypass \cup Local)

\* SysProxy.exe set: WriteSimpleKeys and the per-connection options.  It may be
\* missing or fail, which is only logged.
SysProxySet(r, server, bypass) ==
    {r, [r EXCEPT !.enable = TRUE, !.server = server, !.bypass = bypass, !.pac = FALSE,
                  !.detect = FALSE]}

\* apply after the backup: the settings step `at' may leave.
ApplyWrite(at, r, previous) ==
    CASE at = 2 -> {[r EXCEPT !.server = "ours"]}
      [] at = 3 -> {[r EXCEPT !.bypass = mergeBypass(previous.bypass)]}
      [] at = 4 -> {[r EXCEPT !.enable = TRUE]}
      [] at = 5 -> {[r EXCEPT !.detect = FALSE]}
      [] at = 6 -> {[r EXCEPT !.pac = FALSE]}
      [] at = 7 -> {[s EXCEPT !.blob = "ours"] :
                      s \in SysProxySet(r, "ours", mergeBypass(previous.bypass))}
      [] at = 8 -> {r, [r EXCEPT !.winhttp = "ours"]}
LastApply == 8
ApplyMayFail == {1, 2, 3, 4, 5, 7}

\* restore before the backup is deleted.  SysProxy.exe off leaves the simple
\* values alone.
RestoreWrite(at, r, saved) ==
    CASE at = 1 -> {IF saved.enable THEN [r EXCEPT !.server = saved.server] ELSE r}
      [] at = 2 -> {[r EXCEPT !.enable = saved.enable]}
      [] at = 3 -> {[r EXCEPT !.bypass = saved.bypass]}
      [] at = 4 -> {[r EXCEPT !.pac = saved.pac]}
      [] at = 5 -> LET b == [r EXCEPT !.blob = saved.blob]
                   IN  IF saved.enable THEN SysProxySet(b, saved.server, Safe(saved.bypass)) ELSE {b}
      [] at = 6 -> {r, [r EXCEPT !.winhttp = "direct"]}
LastRestore == 6
RestoreMayFail == {1, 2, 3, 4, 5}

-----------------------------------------------------------------------------
(***************************************************************************)
(* DesktopTunnel.                                                          *)
(***************************************************************************)
\* stop on thread t, followed by `next': restore if there is anything to undo.
\* A backup that cannot be read makes restore return at once.
BeginStop(t, next) ==
    IF backup = "saved"
      THEN /\ task' = [task EXCEPT ![t] = At("restore", 1, content, next)]
           /\ UNCHANGED systemProxyApplied
      ELSE /\ task' = [task EXCEPT ![t] = At(next, 0, reg, "idle")]
           /\ systemProxyApplied' = FALSE

\* Mutant of Launch: nobody looks for the backup.
LaunchForgets(t) ==
    /\ process = "off"
    /\ process' = "up"
    /\ UNCHANGED <<reg, backup, content, systemProxyApplied, connecting, task, crashes, user, faulty>>

\* The application starts: recoverFromCrash on one thread, before the window.
Launch(t) ==
    /\ process = "off"
    /\ IF backup = "saved"
         THEN /\ process' = "booting"
              /\ task' = [task EXCEPT ![t] = At("restore", 1, content, "idle")]
         ELSE /\ process' = "up"
              /\ UNCHANGED task
    /\ UNCHANGED <<reg, backup, content, systemProxyApplied, connecting, crashes, user, faulty>>

\* The user connects: start stops what runs and launches the engine.
Connect(t) ==
    /\ process = "up" /\ task[t].op = "idle" /\ ~connecting
    /\ connecting' = TRUE
    /\ BeginStop(t, "engine")
    /\ UNCHANGED <<reg, backup, content, process, crashes, user, faulty>>

\* The user disconnects, perhaps while a start is still under way, or the
\* shutdown hook runs.
Disconnect(t) ==
    /\ process = "up" /\ task[t].op = "idle"
    /\ connecting' = FALSE
    /\ BeginStop(t, "idle")
    /\ UNCHANGED <<reg, backup, content, process, crashes, user, faulty>>

\* Engine and local proxy are up: apply takes its snapshot.
EngineReady(t) ==
    /\ task[t].op = "engine"
    /\ task' = [task EXCEPT ![t] = At("apply", 1, reg, "idle")]
    /\ UNCHANGED <<reg, backup, content, systemProxyApplied, connecting, process, crashes, user, faulty>>

\* They did not start: onFailure calls stop, then start returns.
EngineFails(t) ==
    /\ task[t].op = "engine"
    /\ BeginStop(t, "failed")
    /\ UNCHANGED <<reg, backup, content, connecting, process, crashes, user, faulty>>
StartFailed(t) ==
    /\ task[t].op = "failed"
    /\ task' = [task EXCEPT ![t] = Idle(reg)]
    /\ connecting' = FALSE
    /\ UNCHANGED <<reg, backup, content, systemProxyApplied, process, crashes, user, faulty>>

\* apply writes the backup unless there is one.
SaveBackup(t) ==
    /\ task[t].op = "apply" /\ task[t].at = 1
    /\ IF backup = "none" THEN backup' = "saved" /\ content' = task[t].snap
                          ELSE UNCHANGED <<backup, content>>
    /\ task' = [task EXCEPT ![t].at = 2]
    /\ UNCHANGED <<reg, systemProxyApplied, connecting, process, crashes, user, faulty>>

ApplyStep(t) ==
    /\ task[t].op = "apply" /\ task[t].at > 1
    /\ reg' \in ApplyWrite(task[t].at, reg, task[t].snap)
    /\ IF task[t].at = LastApply
         THEN /\ task' = [task EXCEPT ![t] = Idle(reg)]
              /\ systemProxyApplied' = TRUE /\ connecting' = FALSE
         ELSE /\ task' = [task EXCEPT ![t].at = @ + 1]
              /\ UNCHANGED <<systemProxyApplied, connecting>>
    /\ UNCHANGED <<backup, content, process, crashes, user, faulty>>

\* The tunnel stays up without the system proxy.
ApplyFails(t) ==
    /\ faulty /\ task[t].op = "apply" /\ task[t].at \in ApplyMayFail
    /\ task' = [task EXCEPT ![t] = Idle(reg)]
    /\ connecting' = FALSE
    /\ UNCHANGED <<reg, backup, content, systemProxyApplied, process, crashes, user, faulty>>

RestoreStep(t) ==
    /\ task[t].op = "restore" /\ task[t].at <= LastRestore
    /\ reg' \in RestoreWrite(task[t].at, reg, task[t].snap)
    /\ task' = [task EXCEPT ![t].at = @ + 1]
    /\ UNCHANGED <<backup, content, systemProxyApplied, connecting, process, crashes, user, faulty>>

\* restore returns; stop clears its flag, recoverFromCrash lets the window open.
AfterRestore(t) ==
    /\ task' = [task EXCEPT ![t] = At(task[t].next, 0, reg, "idle")]
    /\ systemProxyApplied' = FALSE
    /\ process' = "up"
    /\ UNCHANGED <<reg, content, connecting, crashes, user, faulty>>

\* Mutant of DeleteBackup: it is deleted even if a value could not be written.
DeleteBackupEarly(t) ==
    /\ task[t].op = "restore"
    /\ backup' = "none"
    /\ AfterRestore(t)

\* Deleting the file may fail, silently.
DeleteBackup(t) ==
    /\ task[t].op = "restore" /\ task[t].at > LastRestore
    /\ backup' \in {"none"} \cup (IF faulty THEN {backup} ELSE {})
    /\ AfterRestore(t)

RestoreFails(t) ==
    /\ faulty /\ task[t].op = "restore" /\ task[t].at \in RestoreMayFail
    /\ UNCHANGED backup
    /\ AfterRestore(t)

\* The process dies, or is told to exit; the write of the backup may be cut.
Crash ==
    /\ process # "off" /\ crashes < MaxCrashes
    /\ crashes' = crashes + 1
    /\ process' = "off" /\ systemProxyApplied' = FALSE /\ connecting' = FALSE
    /\ task' = [t \in Threads |-> Idle(reg)]
    /\ backup' \in {backup} \cup
         (IF Tears /\ \E t \in Threads : task[t].op = "apply" /\ task[t].at = 1 /\ backup = "none"
            THEN {"torn"} ELSE {})
    /\ UNCHANGED <<reg, content, user, faulty>>

Step(t) ==
    \/ EngineReady(t) \/ EngineFails(t) \/ StartFailed(t) \/ SaveBackup(t) \/ ApplyStep(t) \/ ApplyFails(t)
    \/ RestoreStep(t) \/ DeleteBackup(t) \/ RestoreFails(t)

Next ==
    \/ Crash
    \/ \E t \in Threads : Launch(t) \/ Connect(t) \/ Disconnect(t) \/ Step(t)

Spec == Init /\ [][Next]_vars

\* A thread that has begun goes on, and the application is started again.
FairSpec ==
    /\ Spec
    /\ \A t \in Threads : WF_vars(Step(t)) /\ WF_vars(Launch(t))

-----------------------------------------------------------------------------
(***************************************************************************)
(* Properties.                                                             *)
(***************************************************************************)
TypeOK ==
    /\ reg \in Settings /\ content \in Settings /\ user \in UserSettings
    /\ backup \in {"none", "torn", "saved"}
    /\ systemProxyApplied \in BOOLEAN /\ connecting \in BOOLEAN /\ process \in {"off", "booting", "up"}
    /\ crashes \in 0..MaxCrashes
    /\ task \in [Threads -> Task]

\* Where the user's traffic goes under some settings.
Route(s) == IF s.enable THEN s.server ELSE IF s.pac THEN "pac" ELSE "direct"

\* Whatever fails and whenever the process dies, either traffic goes where the
\* user had it go, or a readable backup on disk says where that was ("persist
\* that snapshot to disk so a crash or force-quit can still be undone").
UndoAvailable ==
    /\ Route(reg) = Route(user) \/ backup = "saved"
    /\ backup = "saved" => Route(content) = Route(user)

\* After a death with the override in place the next launch undoes it, if its
\* commands work.
CrashIsUndone ==
    ~faulty /\ process = "off" /\ backup = "saved" ~> backup = "none" /\ Route(reg) = Route(user)
=============================================================================
