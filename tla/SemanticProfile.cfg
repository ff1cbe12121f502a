SPECIFICATION MCSpec
CONSTANTS
    ann = ann
    ben = ben
    amount = amount
    Admins <- MCAdmins
    Columns = {amount}
    Tables <- MCTables
    Schemas <- MCTables
    Workers = 2
    MaxScans = 2
    MaxRequests = 3
    CanCrash = TRUE
INVARIANTS
    VersionsComplete
    AdoptedOnce
    DoneIsSaved
PROPERTIES
    SpacesKept
    ScansEnd
\* every request has an end and the bounds are reached
CHECK_DEADLOCK FALSE
