CONSTANTS
    NKeys = 3
    Workers = {w1, w2}
    Options <- ClaimOptions
    Stored <- MCStored
    MaxVersion = 1
    MaxTime = 1
    MaxBegun <- ClaimBegun
    Faults = {}
SPECIFICATION Spec
SYMMETRY Threads
PROPERTY ClaimPinnedKept
CHECK_DEADLOCK FALSE
