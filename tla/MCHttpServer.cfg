CONSTANTS
    Threads = {h1, h2}
    NoThread = NoThread
    Steps = 2
    Points = 1
    Trials = 1
    Iterations = 2
SPECIFICATION FairSpec
INVARIANTS
    TypeOK
    ParamsRestored
    AloneIsExact
PROPERTIES
    RefusedOnlyAtStart
    NoHandlerAfterStop
    AcceptedIsAnswered
CHECK_DEADLOCK FALSE
