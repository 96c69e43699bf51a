SPECIFICATION Spec
CONSTANTS
    Requests = {r1, r2, r3}
    Files <- MCFiles
    Exts <- MCExts
    ExtOf <- MCExtOf
    Char3 <- MCChar3
    Submissions <- TwoKinds
    OutputBuffering = 4
    Faults = {}
    MaxClock = 1
    None = None
SYMMETRY Symmetry
CHECK_DEADLOCK FALSE
INVARIANTS
    LostOnlyToNamesake
    StoredFaithfully
