\* Drills beside the timer's backups, restores and the planting of the canary;
\* graph dumps fail, and so may any command of the drill.
SPECIFICATION DrillSpec
CONSTANTS
    Nightly = {timer}
    Operator = {operator}
    Memory = {m1}
    Canary = m1
    MaxRuns = 3
    Faults = {"dump"}
    AllowSkip = FALSE
INVARIANTS
    DrillHonest
PROPERTIES
    DrilledRestores
    GraphReturns
CHECK_DEADLOCK FALSE
