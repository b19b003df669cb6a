SPECIFICATION Spec
CONSTANTS
    Episodes = {1, 2, 3}
    Groups = {"g1", "g2"}
    GroupOf <- MCGroupOf
    Reach <- MCOwnGroup
    Cap = 3
    MaxPairs = 2
    Levels = 3
    NewLevel = 2
    MaxFaults = 1
    DatedBack = {2}
    BatchSize = 2
    SweepMin = 1
    FetchLimit = 1
    MaxClock = 5
INVARIANT BondsWereEarned
PROPERTY FailuresAreRetried
CHECK_DEADLOCK FALSE
