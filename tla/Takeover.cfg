\* The driver dies under its lease; the workers keep sweeping.
SPECIFICATION ApartSpec

CONSTANTS
    Drivers = {d}
    Workers = {w1}
    Sinks = {}
    Cancellers = {c}
    NoOwner = none
    LeaseTerm = 1
    DeadlineTerm = 2
    RetryTerm = 1
    Horizon = 2
    MaxInvariantFailures = 2
    MaxCrashes = 2
    HostedResume = FALSE

INVARIANTS
    TypeOK
    OwnedLeaseExpires

PROPERTIES
    LiveLeaseIsNotStolen
    QuarantineIsFinal
    InterruptedRunIsTakenOver
    CancellationSettles
