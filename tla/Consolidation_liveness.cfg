SPECIFICATION MCStoredFairSpec
CONSTANTS
    Episodes = {1, 2}
    Groups = {"g1"}
    GroupOf <- MCOneGroup
    CreatedAt <- MCCreatedAt
    Similar <- MCSimilar
    MaxFaults = 1
    HydrateSlots = 1
    Jobs = {j1}
    MinEpisodes = 2
    MaxConcurrent = 1
    MaxDeliver = 1
    BatchSize = 1
    SweepMin = 1
    FetchLimit = 1
PROPERTIES PendingIsTransient AccumulatorDrains
