SPECIFICATION FairSpec
CONSTANTS
    Pool <- PublicPool
    Local <- OneLocal
    Cached <- RankedH2
    HostStates = {"dead", "good"}
    NoProgress = {FALSE}
    HealthChecks = FALSE
    SlowReady = FALSE
    MaxFaults = 2
    MaxLives = 1
    MaxPosted = 1
PROPERTIES
    ChoiceSkipsCondemned
    DarkRecovers
CHECK_DEADLOCK FALSE
