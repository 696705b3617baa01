CONSTANTS
    Capacity = 2
    Steps = 2
    MaxRounds = 2
    MaxTasks = 2
SPECIFICATION FairSpec
INVARIANTS
    TypeOK
    ScansNotMixed
    ResultsAccounted
    TasksAccounted
PROPERTIES
    StopCompletes
    TaskIsRun
