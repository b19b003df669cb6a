SPECIFICATION MCFairSpec
CONSTANTS
    Claims = {"ab", "ba"}
    Names = {"a", "b"}
    CauseOf <- MCCauseOf
    EffectOf <- MCEffectOf
    Extracted <- MCExtracted
    Adds = {"y"}
    AddTo <- MCAddTo
    Supports <- MCSupports
    Knowledge = {"ky"}
    SourceOf <- MCSourceOf
    WeightOf <- MCWeightOf
    MaxDecay = 1
    MaxFaults = 1
    Runs = {"R1", "R2", "R3"}
    Earlier = "R0"
    Known = {"a"}
    KindOf <- MCKindOf
    EpisodesOf <- MCEpisodesOf
    Episodes = {"e1", "e2", "e3", "e4"}
    Window = 2
    EntitiesIn <- MCEntitiesIn
    RelationsIn <- MCRelationsIn
    Trust <- MCTrust
    ClaimsIn <- MCClaimsIn
    Similar <- MCSimilar
    Classes = {"Thing", "Person", "Organization", "NGO"}
    Parents <- MCParents
    Properties = {"member", "memberOf", "relatedTo"}
    Domain <- MCDomain
    RangeOf <- MCRangeOf
    InverseOf <- MCInverseOf
    Manual <- MCManual
    Symmetric = {"relatedTo"}
    Spelling <- MCSpelling
    Thing = "Thing"
    RelatedTo = "relatedTo"
    NoPredicate = NoPredicate
    Nothing = Nothing
INVARIANTS TypeOK RelationsAreMutual StoredIsReachable EvidenceIsCounted
PROPERTIES FactsAreLostToRaces RefutedIsFinal MeetingClaimsAreChained
CHECK_DEADLOCK FALSE
