SPECIFICATION Spec
CONSTANTS
    Writers = {"c1", "c2", "o"}
    GroupOf <- MCGroupOf
    SectionsOf <- MCSectionsOf
    DateOf <- MCDateOf
    NoDate = NoDate
    SourceOf <- MCSourceOf
    EntriesOf <- MCEntriesOf
    Duplicates <- MCDuplicates
    Similars <- MCSimilars
    Curations = {"c1", "c2"}
    Queueing = {"c1"}
    MaxDeliveries = 2
    None = None
    MaxFaults = 1
INVARIANTS TypeOK FollowsLatest EntriesAreKept DuplicatesRaced
CHECK_DEADLOCK FALSE
