SPECIFICATION TunnelSpec
CONSTANTS
    Threads = {t1}
    UserSettings <- PlainUser
    Fails = {FALSE}
    Tears = FALSE
    MaxCrashes = 1
    Names = {"xray", "s3fu"}
    MaxStarts = 2
INVARIANTS
    AnySurvivorGone
CHECK_DEADLOCK FALSE
