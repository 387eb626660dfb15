\* The stop hook beside a hand-off check and two checkpoints, one repository.
CONSTANTS
    r1 = r1  x1 = x1
    Repo = {r1}
    Work = {x1}
    LogRepo = r1
    Home <- MCHome
    Gate = {g}
    Handoff = {h}
    Checkpoint = {k1, k2}
    LoopLimit = 4
    FailLoudAt = 3
    Casts = {{g}, {h}, {k1, k2}}
    None = None
SPECIFICATION FairSpec
INVARIANTS PassMeansPushed HandoffInSync LoudBeforeGivingUp LogKept
PROPERTIES SessionStops
CHECK_DEADLOCK FALSE
