SPECIFICATION TunnelFairSpec
CONSTANTS
    Threads = {t1}
    UserSettings <- SomeUsers
    Fails = {TRUE, FALSE}
    Tears = FALSE
    MaxCrashes = 2
    Names = {"xray", "s3fu"}
    MaxStarts = 2
INVARIANTS
    UndoAvailable
    EnginesAccounted
PROPERTIES
    CrashIsUndone
    ImplementsSystemProxy
CHECK_DEADLOCK FALSE
