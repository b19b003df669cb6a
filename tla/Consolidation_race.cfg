SPECIFICATION MCStoredSpec
CONSTANTS
    Episodes = {1, 2}
    Groups = {"g1"}
    GroupOf <- MCOneGroup
    CreatedAt <- MCCreatedAt
    Similar <- MCSimilar
    MaxFaults = 1
    HydrateSlots = 1
    Jobs = {j1, j2}
    MinEpisodes = 2
    MaxConcurrent = 1
    MaxDeliver = 2
    BatchSize = 1
    SweepMin = 1
    FetchLimit = 2
SYMMETRY JobSymmetry
INVARIANTS TypeOK NoEpisodeForgotten CurationPermits SummariesAreFinal
PROPERTY ImplementsLifecycle
