SPECIFICATION FairSpec
CONSTANTS
    Clients = {c}
    Reconcilers = {r}
    N = 1
    Answers = {a}
    None = none
    MaxFaults = 1
PROPERTIES
    AnswerReachesRun
    OpenQuestionIsShown
    WithdrawalReachesQuestions
CHECK_DEADLOCK FALSE
