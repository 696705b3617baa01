CONSTANTS
    Capacity = 1
    BatchSize = 2
    MaxPackets = 1
    SocketsReady = TRUE
SPECIFICATION FairSpec
PROPERTY EveryReadingReachesAll
