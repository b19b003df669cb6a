SPECIFICATION PipeFairSpec
CONSTANTS
    c1 = c1
    c2 = c2
    Ids = {c1, c2}
    Queues = {"artifacts", "fast", "normal"}
    Traffic <- MCTraffic
    MaxDeliver = 2
    MaxFaults = 2
    MaxDiscards = 1
INVARIANTS TypeOK FIFO AtLeastOnce RunsPerMessage
PROPERTY EverythingSettles
