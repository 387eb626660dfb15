SPECIFICATION Spec
CONSTANTS
    Nightly = {timer}
    Operator = {operator}
    Memory = {m1}
    MaxRuns = 2
    Faults = {}
    AllowSkip = FALSE
INVARIANT RestoreReversible
CHECK_DEADLOCK FALSE
