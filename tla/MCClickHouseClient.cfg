CONSTANTS
    BatchSize = 2
    MaxRows = 3
    MaxQueries = 1
SPECIFICATION FairSpec
INVARIANTS
    TypeOK
    OneSender
    
    BoundedDuplicates
    FirstBatchIsLast
PROPERTIES
    CloseCompletes
