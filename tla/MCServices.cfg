SPECIFICATION Spec
CONSTANTS
    PerPage = 3
    MaxPages = 4
    MaxRecords = 8
    MaxIssued = 2
    Envelopes = {"bare", "last_page", "next"}
    HubWorkers = {h1, h2}
    Tasks = {1}
    NoTask = NoTask
    LeaseTicks = 4
    BeatTicks = 2
    MaxFaults = 2
    Slots = 4
    DispatchLimit = 2
    MaxPending = 4
    MaxErrors = 2
    Cycles = 2
    s1 = s1
    s2 = s2
    r1 = r1
    NoSearch = NoSearch
    Searches = {s1, s2}
    Runs = {r1}
    RunOf <- SameRun
    Queries = 2
    PageLimit = 2
    DetailLimit = 1
    Cost <- Prices
    RunBudget = 9
    DailyBudget = 4
    MonthlyBudget = 7
    DaysPerMonth = 2
    LastDay = 2
    alpha = alpha
    beta = beta
    gamma = gamma
    bad = bad
    listing = listing
    rating = rating
    site = site
    Identities = {alpha, beta, gamma, bad}
    Batches <- TwoBatches
    Items = {listing, rating, site}
    Licensed = {listing, rating}
    Sufficient <- AnyItem
    Invalid = {bad}
    MaxDeliveryFaults = 2
    Absent = Absent
    Campaigns = {1, 2}
    GoogleFinds <- Places
    BraveFinds <- Hits
    Sites <- Websites
    Similar <- AlikeNames
    MaxTasks = 3
    Unset = Unset
    Profiles <- Companies
    Snippets <- Notes
    Targets <- Campaign
    Territory = {"c1"}
    MaxHits = 2
INVARIANTS
    LoadsEveryRecord
    TakesEachRecordOnce
    OverlapOnlyUnkept
    RoundRebuildsMissedSlots
    SnapshotsOfOneCycle
    InternetIsKnown
    WithinBudgets
    DeletedIsCommitted
    SweptStaysOut
    LostOnlyWhenAmbiguous
    SavesOfOneRunSucceed
    TwinsAreFlagged
    VerdictsAgree
PROPERTIES
    KeepsPromise
    EveryTaskEnds
    CycleFollowsCycle
    EverySearchEnds
\* Searches, batches and the passage of time are bounded.
CHECK_DEADLOCK FALSE
