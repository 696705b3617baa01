CONSTANTS
    MaxFiles = 3
    MaxSize = 2
    MaxFailures = 1
    LineSizes = {1, 2}
    Registered = {"http_requests"}
    Unregistered = {"late"}
    MaxCalls = 4
    MaxIncrements = 2
SPECIFICATION FairSpec
INVARIANTS
    TypeOK
    DiskIsRecent
    CountersAddUp
PROPERTIES
    StopsUnlessSelfLocked
CHECK_DEADLOCK FALSE
