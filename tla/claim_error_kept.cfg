SPECIFICATION Spec
CONSTANTS
    N = 2
    MaxPackets = 2
    MaxRewinds = 0
    MaxFaults = 1
    Codecs <- MCDelayed
CHECK_DEADLOCK FALSE
INVARIANT
    ClaimErrorKept
