SPECIFICATION FairSpec
CONSTANTS
    Kernel = k
    Canceller = c
    Recoverers = {r}
    Processors = {p}
    MaxTransportAttempts = 2
    MaxInspections = 2
    MaxEvents = 1
    MaxAge = 3
INVARIANTS
    TypeOK
    WaitingRunHasEvidence
    CanceledRunClosesItsCall
PROPERTIES
    ImplementsRemoteCall
    CallSettles
CHECK_DEADLOCK FALSE
