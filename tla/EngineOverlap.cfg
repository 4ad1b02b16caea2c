SPECIFICATION TunnelSpec
CONSTANTS
    Threads = {t1, t2}
    UserSettings <- PlainUser
    Fails = {FALSE}
    Tears = FALSE
    MaxCrashes = 0
    Names = {"xray", "s3fu"}
    MaxStarts = 2
INVARIANTS
    NoStray
CHECK_DEADLOCK FALSE
