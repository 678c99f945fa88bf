SPECIFICATION Spec
CONSTANTS
    w1 = w1
    w2 = w2
    NoWorker = NoWorker
    c1 = c1
    c2 = c2
    bad = bad
    Workers = {w1, w2}
    Tasks = {1}
    Candidates = {c1, c2, bad}
    Invalid = {bad}
    MaxCandidates = 1
    MaxClaims = 2
    MaxAttempts = 1
    FaultKinds = {"network", "refusal", "crash", "stall", "store"}
    MaxFaults = 1
    MayCancel = FALSE
    Yield <- YieldDuo
    BudgetLimited = {}
INVARIANTS
    ReplaysNeverConflict
    DeliveredIsCommitted
    NoCandidateLost
PROPERTIES
    FencedFinish
    NoRerunWhileCompletionQueued
SYMMETRY Processes
