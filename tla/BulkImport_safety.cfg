\* One importer of a file that names one id twice, at first perhaps
\* with an invalid fact, beside an MCP writer.
CONSTANTS
    w1 = w1  w2 = w2  e1 = e1  e2 = e2
    Writer = {w1, w2}
    Importer = {w1}
    Ext = {e1}
    Req <- TwoEach
    KeyOf <- MCKeyOf
    Facts <- RepeatedFacts
    Doubtful = {1}
    MaxPolls = 1
    Faults <- AllFaults
    None = None
SPECIFICATION ImportSpec
INVARIANTS ExitZeroAccounts RerunWritesNothing
PROPERTIES DryRunWritesNothing
