SPECIFICATION Spec
CONSTANTS
    NumRoots = 2
    Spawned = spawned
    Workers = {spawned, import}
    NumGoals = 1
    NumMemories = 2
    Long = {}
    MaxWrites = 2
    MaxFailures = 0
    MaxFull = 1
    MaxExtra = 0
PROPERTY
    RootsFailAlone
CHECK_DEADLOCK FALSE
