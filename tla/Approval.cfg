SPECIFICATION Spec
CONSTANTS
    Clients = {c, d}
    Reconcilers = {}
    N = 2
    Answers = {a, b}
    None = none
    MaxFaults = 2
INVARIANTS
    TypeOK
    AnswersFromOneSubmission
    DeliveredAnswerStands
    AppliedIsConfirmed
PROPERTIES
    ConfirmedCommandIsFinal
SYMMETRY Symmetry
CHECK_DEADLOCK FALSE
