SPECIFICATION BoundedSpec
CONSTANTS
    Kernel = k
    Canceller = c
    Answerers = {q}
    Sweeps = {q, s}
    Rival = s
    Recoverers = {r}
    Processors = {p}
    MaxRounds = 2
    MaxTransportAttempts = 2
    MaxInspections = 2
    MaxRefreshes = 2
    MaxEvents = 1
INVARIANTS
    TypeOK
    RepeatsNeedRivals
    AnswerFollowsQuestion
PROPERTIES
    AnswerSettles
CHECK_DEADLOCK FALSE
