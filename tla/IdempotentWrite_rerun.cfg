\* One writer, no failure but slowness: a re-run duplicates a late commit.
CONSTANTS
    w1 = w1  w2 = w2  e1 = e1  e2 = e2
    Writer = {w1}
    Ext <- OneExt
    Req <- TwoEach
    KeyOf <- MCKeyOf
    MaxPolls = 1
    Faults <- NoFaults
    None = None
SPECIFICATION Spec
INVARIANTS WriteOnce
