SPECIFICATION Spec
CONSTANTS
    Nightly = {timer}
    Operator = {operator}
    Memory = {m1}
    MaxRuns = 2
    Faults = {"command", "dump", "kill"}
    AllowSkip = TRUE
INVARIANTS
    TypeOK
    NothingLost
    AppSeesWholeData
    HeartbeatHonest
PROPERTY RestoreFaithful
CHECK_DEADLOCK FALSE
