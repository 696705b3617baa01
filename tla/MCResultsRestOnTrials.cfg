CONSTANTS
    Capacity = 2
    Steps = 2
    MaxRounds = 2
    MaxTasks = 2
SPECIFICATION Spec
INVARIANT ResultsRestOnTrials
