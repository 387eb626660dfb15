\* Three records, two callers that close, and a compaction that scans and merges.
CONSTANTS
    c1 = c1  c2 = c2
    Id = {1, 2, 3}
    Seeded = {1, 2}
    Caller = {c1, c2}
    Type = {"open_item"}
    MaxEdits = 2
    MaxScans = 2
    PutModes = {"replace", "overlay"}
    None = None
SPECIFICATION Spec
SYMMETRY Symmetry
INVARIANTS MergeAccounted AgendaExact EditsSurvive
CHECK_DEADLOCK FALSE
