CONSTANTS
    TimeBase = 200
    Files <- MCFiles
    SqlModes = {"refuse", "clip"}
    None = None
SPECIFICATION Spec
INVARIANTS
    AttributesTypeOK
    DurationKept
    MinutesKept
    BitrateKept
    RefusedUnknown
CHECK_DEADLOCK FALSE
