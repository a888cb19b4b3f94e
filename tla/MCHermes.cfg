SPECIFICATION Spec
CONSTANTS
    Sessions = {chat, cron}
    Cron = {cron}
    Spaces = {home, work}
    Home = home
    None = None
    MaxTurns = 2
    MaxEvents = 1
INVARIANTS
    TypeOK
    RecordedTwiceOnlyIfDisturbed
    AnswerAloneOnlyIfDisturbed
    ContextAsServed
    
    InOrderUnlessDisturbed
PROPERTIES
    WrittenUnlessDisturbed
CHECK_DEADLOCK FALSE
