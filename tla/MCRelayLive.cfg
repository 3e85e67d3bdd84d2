SPECIFICATION FairSpec
CONSTANTS
    MaxLease = 1
    MaxChunks = 1
    BlockUnits = 3
    FrameMax = 2
    WireMax = 1
    MaxFaults = 1
PROPERTIES
    FailureEndsRun
    HalfCloseEndsLease
