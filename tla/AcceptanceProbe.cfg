\* The probe run again and again over two of its facts, with failures, kills
\* and POSTs that are committed at any later time.
CONSTANTS
    w1 = w1  impl = impl  plan = plan  open = open
    Writer = {w1}
    Importer = {w1}
    Prober = w1
    Ext = {impl, plan, open}
    Latest = impl
    OpenItem = open
    Told <- MCTold
    EventDate <- MCEventDate
    Req <- TwoEach
    KeyOf <- MCKeyOf
    Facts <- ProbeFacts
    Doubtful = {}
    MaxPolls = 1
    Faults <- ProbeFaults
    None = None
    Unreliable = {"collect", "recency", "followup"}
SPECIFICATION ProbeFairSpec
INVARIANTS PassMeansFound NoFalseAlarm CleanAfterRun
PROPERTIES LateCommitVerified
