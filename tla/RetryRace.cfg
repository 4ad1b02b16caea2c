SPECIFICATION Spec
CONSTANTS
    Pool <- OneHost
    Local <- NoLocal
    Cached <- NoCache
    HostStates = {"dead", "good"}
    NoProgress = {FALSE}
    HealthChecks = TRUE
    SlowReady = TRUE
    MaxFaults = 1
    MaxLives = 1
    MaxPosted = 2
INVARIANTS OneRetryPending
CHECK_DEADLOCK FALSE
