\* Two loops of the worker drain the outbox of one Run.
SPECIFICATION Spec

CONSTANTS
    Runs = {r}
    Workers = {w1, w2}
    LeaseTerm = 1
    Backoff = 1
    MaxAttempts = 2
    BatchLimit = 1
    Horizon = 1
    MaxInterrupts = 1
    MaxTouches = 1
    r = r
    w1 = w1
    w2 = w2

SYMMETRY WorkerSymmetry

INVARIANTS
    TypeOK
    StatusIsPublishedLast
    CompletedIsProjected
    VerdictIsHonest

PROPERTIES
    OutcomeIsFinal
