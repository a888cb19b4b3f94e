SPECIFICATION Spec
CONSTANTS
    People = {a, b, c}
    User = User
    None = None
    Subjects = {{a, c}, {User}}
    Pairs = {{a, c}, {b, c}}
    MaxMemories = 2
    MaxWrites = 3
    MaxRelations = 2
    MaxMerges = 1
    MaxEvents = 1
INVARIANTS
    TypeOK
    FoldedUnlessOvertaken
    NeverAhead
    RelationsWellFormed
PROPERTIES
    EvidenceKept
    RefreshedEventually
CHECK_DEADLOCK FALSE
