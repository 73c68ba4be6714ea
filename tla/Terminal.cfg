SPECIFICATION FairSpec
CONSTANTS
    Instances = {i, j}
    Emitters = {a, b, c}
    MaxFaults = 2
INVARIANTS
    TypeOK
    MarkedIsAccepted
    DuplicatesNeedDisturbance
PROPERTIES
    EmissionEnds
CHECK_DEADLOCK FALSE
