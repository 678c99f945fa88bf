SPECIFICATION CandidatesSpec
CONSTANTS
    Absent = Absent
    Campaigns = {1, 2}
    GoogleFinds <- Places
    BraveFinds <- Hits
    Sites <- Websites
    Similar <- AlikeNames
    MaxTasks = 3
INVARIANTS
    EverySaveSucceeds
\* Searches are bounded.
CHECK_DEADLOCK FALSE
