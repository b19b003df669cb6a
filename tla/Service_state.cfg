SPECIFICATION Spec
CONSTANTS
    Spans = {s1}
    EndpointOf <- MCEndpointOf
    BatchSize = 2
    MaxSamples = 2
    MaxFaults = 1
    Groups = {"g1", "g2"}
    DefaultGroup = "g1"
    Events = {"g1", "g2"}
    EventGroup <- MCEventGroup
    Compressions = {"rest", "curation"}
    CompressionGroup <- MCCompressionGroup
    ViaRest = {"rest"}
    MinEvents = 1
    Updates = {1, 2, 3}
    ToolOf <- MCToolOf
    StateOf <- MCStateOf
    SuccessOf <- MCSuccessOf
    NoState = "none"
INVARIANTS RestCompressesItsGroup CountsAreLostToRaces MeasuredOnce
CHECK_DEADLOCK FALSE
