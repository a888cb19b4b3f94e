SPECIFICATION Spec
CONSTANTS
    None = None
    Owners = {1, 2, 3}
    Models = {a, b}
    Wanted = 1
    OverFetch = 1
    Escalated = 2
    Compares = 2
    RankOffset = 2
    BatchSize = 2
    VectorWrites = 3
    VectorEvents = 2
    Processes = {server, import}
    MigrationEvents = 2
    Server = loop
    AtStart = started
    Import = driven
    Threshold = 2
    MaxMessages = 4
    ContinuityEvents = 3
    Reviewers = {server, import}
    MaxImports = 1
    Evidence = {1, 2}
    MaxRows = 2
    ReviewWrites = 2
INVARIANTS
    TypeOK
    SearchPathsAgree
    NextStartSucceeds
    SummarisedUnlessGaveUp
PROPERTIES
    EmbeddedEventually
    CommitsOnCurrentState
CHECK_DEADLOCK FALSE
