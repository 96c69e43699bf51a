SPECIFICATION PlayerSpec
CONSTANTS
    Uuids = {u1}
    Exts <- MCExts
    Char3 <- MCChar3
    Visitors = {v1}
    PageSize = 1
    MaxRow = 2
    Faults = {"connect", "statement"}
    NotNumeric = NotNumeric
    Nowhere = Nowhere
CHECK_DEADLOCK FALSE
INVARIANTS
    PlayerTypeOK
    LinksLead
    SourceStored
