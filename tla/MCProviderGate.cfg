SPECIFICATION Spec
CONSTANTS
    Callers = {c1, c2, c3}
    NoCaller = NoCaller
    MaxRetries = 1
    Delays = {1, 2}
INVARIANTS
    TypeOK
    SinglePermit
    NoIdlePermit
PROPERTIES
    NoOvertaking
    BackoffHoldsArrivals
    LeakOnlyByCancelledWaiter
    ForegroundServed
