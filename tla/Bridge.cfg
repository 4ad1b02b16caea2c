SPECIFICATION FairSpec
CONSTANTS
    Ids = {1, 2, 3}
    MaxActive = 2
    Cap = 3
    HsCap = 3
    Cases <- MCCases
INVARIANTS
    StreamsConserved
    FinAfterData
    InterestExact
    CountersExact
PROPERTIES
    RelayCompletes
CHECK_DEADLOCK FALSE
