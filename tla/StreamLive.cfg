SPECIFICATION FairSpec
CONSTANTS
    Publishers = {p}
    Events = {e, f}
    Terminal = {e, f}
    MaxSeq = 2
    Grace = 1
    MaxAttempts = 2
    QueueMax = 1
    EarlyMax = 1
    WireMax = 1
    MaxFaults = 1
PROPERTIES
    ShownStays
    EventReachesRoom
