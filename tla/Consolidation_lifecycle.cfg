SPECIFICATION Spec
CONSTANTS
    Episodes = {1, 2}
    Groups = {"g1", "g2"}
    GroupOf <- MCGroupsApart
    CreatedAt <- MCCreatedAt
    Similar <- MCAllSimilar
    MaxFaults = 1
    HydrateSlots = 1
    Jobs = {j1}
    MinEpisodes = 2
    MaxConcurrent = 1
    MaxDeliver = 1
    BatchSize = 1
    SweepMin = 1
    FetchLimit = 2
INVARIANTS HydratePermits AccumulatedIsTimed GroupsAreIsolated
