SPECIFICATION FairSpec
CONSTANTS
    Header = 3
    MaxPayload = 3
    Chunk = 2
    Tag = 1
    MaxFrames = 3
    MaxFaults = 1
PROPERTIES
    ImplementsChannel
    EveryFrameArrives
