SPECIFICATION FairSpec
CONSTANTS
    Sessions = {"root", "child", "other"}
    Calls = {"c1", "c2"}
    SessionOf <- MCSessionOf
    ParentOf <- MCParentOf
    NoSession = NoSession
    ModesOf <- MCModesOf
    Items = {"e", "r", "k", "o", "a", "x", "l"}
    ItemKind <- MCItemKind
    ItemGroups <- MCItemGroups
    ItemEdges <- MCItemEdges
    AllowGlobal = FALSE
    MaxFaults = 1
INVARIANTS TypeOK MemoriesInScope SomeoneWasCold
PROPERTIES LocalStaysLocal AnswersAreStored
CHECK_DEADLOCK FALSE
