CONSTANTS
    Memory <- TwoMemories
    MaxChanges = 4
    MaxGeneration = 3
    MaxRuns = 2
    MaxRequests = 3
    MaxActions = 2
    MaxAttempts = 2
    MaxLease = 2
    ActiveLimit = 2
SPECIFICATION Spec
INVARIANTS
    LaneIsFenced
    PassedMeansReviewed
    WriteIsOwedARun
    CountIsExact
    NothingRestsOnUndoneWork
CHECK_DEADLOCK FALSE
