SPECIFICATION Spec
CONSTANTS
    N = 3
    MaxPackets = 4
    MaxRewinds = 1
    MaxFaults = 1
    Codecs <- MCCodecs
CHECK_DEADLOCK FALSE
INVARIANTS
    TypeOK
    ReturnedInOrder
    FramesConserved
    SubmitsToIdle
    DrainComplete
    ErrorKeptNoDelay
    NoSignalMissed
    SomeoneCanRun
PROPERTY
    Closes
