SPECIFICATION Spec
CONSTANTS
    NumRoots = 2
    Spawned = spawned
    Workers = {spawned, import}
    NumGoals = 1
    NumMemories = 2
    Long = {}
    MaxWrites = 3
    MaxFailures = 0
    MaxFull = 0
    MaxExtra = 0
INVARIANT
    NothingPassedOver
CHECK_DEADLOCK FALSE
