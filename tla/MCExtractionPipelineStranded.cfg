SPECIFICATION Spec
CONSTANTS
    MaxMessages = 3
    BatchSize = 2
    MaxAttempts = 2
    MaxHalts = 1
INVARIANT
    NoStrandedBatch
