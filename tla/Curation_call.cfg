SPECIFICATION FairSpec
CONSTANTS
    Ids = {c1}
    Queues = {"artifacts", "causals", "fast", "normal"}
    Traffic <- CurationTraffic
    MaxDeliver = 2
    MaxFaults = 1
    MaxDiscards = 1
    Curations = {c1}
INVARIANTS CallTypeOK
PROPERTIES ImplementsPipe CallsReturn StagesReachWorkers
