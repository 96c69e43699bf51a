SPECIFICATION FairSpec
CONSTANTS
    Requests = {r1, r2}
    Files <- MCFiles
    Exts <- MCExts
    ExtOf <- MCExtOf
    Char3 <- MCChar3
    Submissions <- AllKinds
    OutputBuffering = 4
    Faults = {}
    MaxClock = 1
    None = None
CHECK_DEADLOCK FALSE
PROPERTIES
    SoundUploadListed
