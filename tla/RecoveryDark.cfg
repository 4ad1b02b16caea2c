SPECIFICATION FairSpec
CONSTANTS
    Pool <- PublicPool
    Local <- NoLocal
    Cached <- NoCache
    HostStates = {"tcp", "good"}
    NoProgress = {FALSE}
    HealthChecks = FALSE
    SlowReady = FALSE
    MaxFaults = 3
    MaxLives = 1
    MaxPosted = 1
PROPERTIES DarkRecovers
CHECK_DEADLOCK FALSE
