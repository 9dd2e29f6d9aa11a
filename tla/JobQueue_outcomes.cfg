SPECIFICATION FairQueueSpec
CONSTANTS
    Jobs = {1, 2, 3}
    Workers = {w1, w2}
    NoJob = NoJob
    MaxRetries = 2
    MaxReopens = 1
    MaxQueueFaults = 2
INVARIANTS OneRunAtATime SuccessIsFinal AttemptsBounded
PROPERTY EveryJobEnds
CHECK_DEADLOCK FALSE
