CONSTANTS
    Capacity = 1
    BatchSize = 2
    MaxPackets = 2
    SocketsReady = TRUE
SPECIFICATION FairSpec
PROPERTIES
    ShutdownCompletes
    AcceptedIsTaken
