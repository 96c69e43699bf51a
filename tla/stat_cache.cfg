CONSTANTS
    NKeys = 5
    Workers = {w1, w2}
    Options <- MCOptions
    Stored <- MCStored
    MaxVersion = 2
    MaxTime = 1
    MaxBegun <- MCBegun
    Faults = {"head", "fd"}
SPECIFICATION Spec
SYMMETRY Threads
INVARIANTS
    TypeOK
    CacheBounded
    PinsBounded
PROPERTIES
    PublishedFound
    OpenFresh
    EvictsOldest
CHECK_DEADLOCK FALSE
