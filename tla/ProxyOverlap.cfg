SPECIFICATION Spec
CONSTANTS
    Threads = {t1, t2}
    UserSettings <- PlainUser
    Fails = {FALSE}
    Tears = FALSE
    MaxCrashes = 0
INVARIANTS
    UndoAvailable
CHECK_DEADLOCK FALSE
