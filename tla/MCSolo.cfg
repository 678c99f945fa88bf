SPECIFICATION FairSpec
CONSTANTS
    w1 = w1
    w2 = w2
    NoWorker = NoWorker
    c1 = c1
    c2 = c2
    bad = bad
    Workers = {w1}
    Tasks = {1, 2}
    Candidates = {c1, c2, bad}
    Invalid = {bad}
    MaxCandidates = 2
    MaxClaims = 5
    MaxAttempts = 2
    FaultKinds = {"network", "refusal", "crash", "stall", "store"}
    MaxFaults = 2
    MayCancel = TRUE
    Yield <- YieldSolo
    BudgetLimited = {2}
INVARIANTS
    TypeOK
    LocalOutcomeIsRemote
    CompletedIsExact
    SourceRunsBounded
PROPERTIES
    RunEnds
