SPECIFICATION PagingSpec
CONSTANTS
    PerPage = 3
    MaxPages = 4
    MaxRecords = 8
    MaxIssued = 1
    Envelopes = {"next_page"}
INVARIANTS
    LoadsEveryRecord
\* A load ends.
CHECK_DEADLOCK FALSE
