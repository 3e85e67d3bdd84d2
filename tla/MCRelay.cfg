SPECIFICATION Spec
CONSTANTS
    MaxLease = 2
    MaxChunks = 1
    BlockUnits = 3
    FrameMax = 2
    WireMax = 2
    MaxFaults = 1
INVARIANTS
    NoCodecError
PROPERTIES
    ImplementsDuplex
