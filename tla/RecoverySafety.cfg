SPECIFICATION Spec
CONSTANTS
    Pool <- OneHost
    Local <- NoLocal
    Cached <- NoCache
    HostStates = {"dead", "good"}
    NoProgress = {FALSE}
    HealthChecks = TRUE
    SlowReady = TRUE
    MaxFaults = 1
    MaxLives = 2
    MaxPosted = 2
INVARIANTS NativeDownAfterStop
CHECK_DEADLOCK FALSE
