\* A cancel request races the session, a hosted answer, the sink and one death.
SPECIFICATION Spec

CONSTANTS
    Drivers = {d}
    Workers = {}
    Sinks = {s}
    Cancellers = {c}
    NoOwner = none
    LeaseTerm = 1
    DeadlineTerm = 2
    RetryTerm = 1
    Horizon = 1
    MaxInvariantFailures = 1
    MaxCrashes = 1
    HostedResume = TRUE

INVARIANTS
    CancelingRunsRecoverAsCancellation

PROPERTIES
    ImplementsLifecycle
CHECK_DEADLOCK FALSE
