\* A request and a sweep of one server work side by side.
SPECIFICATION Spec
CONSTANTS
    Kernel = k
    Canceller = c
    Answerers = {q}
    Sweeps = {s}
    Recoverers = {r}
    Processors = {p}
    MaxRounds = 2
    MaxTransportAttempts = 2
    MaxInspections = 2
    MaxRefreshes = 2
    MaxEvents = 0
INVARIANTS
    AnswerIsSentOnce
CHECK_DEADLOCK FALSE
