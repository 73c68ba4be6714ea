SPECIFICATION Spec
CONSTANTS
    Publishers = {p, q}
    Events = {e, f}
    Terminal = {}
    MaxSeq = 3
    Grace = 1
    MaxAttempts = 2
    QueueMax = 1
    EarlyMax = 1
    WireMax = 1
    MaxFaults = 1
SYMMETRY Symmetry
INVARIANTS
    TypeOK
    DeltaIsDurable
    ViewIsPrefix
