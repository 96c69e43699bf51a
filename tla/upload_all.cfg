SPECIFICATION Spec
CONSTANTS
    Requests = {r1, r2}
    Files <- MCFiles
    Exts <- MCExts
    ExtOf <- MCExtOf
    Char3 <- MCChar3
    Submissions <- AllKinds
    OutputBuffering = 4
    Faults = {"move", "s3", "connect", "statement", "kill"}
    MaxClock = 1
    None = None
SYMMETRY Symmetry
CHECK_DEADLOCK FALSE
INVARIANTS
    TypeOK
    RowsBacked
    StoredFaithfully
    ErrorsStoreNothing
    RedirectedToOwn
    OneRowPerPost
    CopiesRemoved
PROPERTIES
    ReplacedOnlyByTwin
    ImplementsCatalog
