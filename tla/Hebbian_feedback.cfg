SPECIFICATION Spec
CONSTANTS
    Episodes = {1, 2, 3}
    Groups = {"g1", "g2"}
    GroupOf <- MCOneGroup
    Reach <- MCAnywhere
    Cap = 3
    MaxPairs = 2
    Levels = 3
    NewLevel = 2
    MaxFaults = 0
    DatedBack = {}
    BatchSize = 2
    SweepMin = 1
    FetchLimit = 1
    MaxClock = 5
INVARIANT FeedbackReachesScores
CHECK_DEADLOCK FALSE
