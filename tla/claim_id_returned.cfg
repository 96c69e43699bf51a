SPECIFICATION Spec
CONSTANTS
    Requests = {r1, r2}
    Files <- MCFiles
    Exts <- MCExts
    ExtOf <- MCExtOf
    Char3 <- MCChar3
    Submissions <- LongText
    OutputBuffering = 4
    Faults = {}
    MaxClock = 1
    None = None
CHECK_DEADLOCK FALSE
INVARIANTS
    ClaimIdReturned
