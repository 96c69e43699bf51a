SPECIFICATION IndexSpec
CONSTANTS
    Uuids = {u1, u2}
    Exts = {"jpg"}
    Char3 <- MCChar3
    Visitors = {v1}
    PageSize = 2
    MaxRow = 5
    Faults = {"connect", "statement"}
CHECK_DEADLOCK FALSE
INVARIANTS
    IndexTypeOK
    IdsOnce
    WalkComplete
    MoreWithinTable
    ThumbnailsStored
