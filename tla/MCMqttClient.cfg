CONSTANTS
    ClientIdSize = 24
    Sizes = {1, 123, 124, 300}
    IdModulus = 4
    MaxMessages = 4
SPECIFICATION FairSpec
INVARIANTS
    TypeOK
    ReceivedInOrder
    LengthsAgree
PROPERTIES
    StartAndStopComplete
