\* One loop of the worker, a death and a foreign write.
SPECIFICATION FairSpec

CONSTANTS
    Runs = {r}
    Workers = {w1}
    LeaseTerm = 1
    Backoff = 1
    MaxAttempts = 2
    BatchLimit = 3
    Horizon = 2
    MaxInterrupts = 1
    MaxTouches = 1
    r = r
    w1 = w1

PROPERTIES
    OutboxDrains
