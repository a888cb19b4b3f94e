SPECIFICATION Spec
CONSTANTS
    NumRoots = 2
    Spawned = spawned
    Workers = {spawned, import}
    NumGoals = 1
    NumMemories = 3
    Long = {3}
    MaxWrites = 2
    MaxFailures = 1
    MaxFull = 1
    MaxExtra = 1
INVARIANTS
    TypeOK
    PassedOverOnlyIfRaced
PROPERTIES
    CursorsAdvance
    AuditsOnCurrentEntries
    PlansOnCurrentEntries
    AuditedEventually
    PlannedUnlessLost
CHECK_DEADLOCK FALSE
