SPECIFICATION Spec
CONSTANTS
    Callers = {c1, c2, c3}
    NoCaller = NoCaller
    MaxRetries = 1
    Delays = {1, 2}
INVARIANT
    PermitNeverOrphaned
