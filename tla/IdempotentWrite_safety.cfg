\* Two writers, one external id, up to two POSTs of it, every failure.
CONSTANTS
    w1 = w1  w2 = w2  e1 = e1  e2 = e2
    Writer = {w1, w2}
    Ext <- OneExt
    Req <- TwoEach
    KeyOf <- MCKeyOf
    MaxPolls = 2
    Faults <- AllFaults
    None = None
SPECIFICATION FairSpec
INVARIANTS TypeOK SettledCalls SingleRecord HonestVerdict RunNeverRepeats
PROPERTIES ImplementsAtMostOnce CallsReturn
