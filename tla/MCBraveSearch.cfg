SPECIFICATION Spec
CONSTANTS
    s1 = s1
    s2 = s2
    Nobody = Nobody
    Monitor = Monitor
    Searches = {s1, s2}
    Plan <- Mixed
    Limit = 3
    SocialLimit = 1
    MaxRuns = 1
    MaxChecks = 1
    MaxFaults = 2
INVARIANTS
    HardWithoutHeaders
    OverspendBounded
    WithinSocialLimit
\* Searches and checks are bounded.
CHECK_DEADLOCK FALSE
SYMMETRY Symmetric
