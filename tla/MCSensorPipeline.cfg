CONSTANTS
    Capacity = 2
    BatchSize = 2
    MaxPackets = 4
    SocketsReady = TRUE
SPECIFICATION Spec
INVARIANTS
    TypeOK
    TakenOnce
    Accounting
    NeverOwnSimulation
    SimulationUsedOnce
    NothingInHandAtExit
PROPERTY DeliverySpec
