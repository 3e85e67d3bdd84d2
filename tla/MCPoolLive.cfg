CONSTANTS
    Worker <- OneWorker
    MaxVisitors = 2
    PendingMax = 1
    IdleTicks = 2
SPECIFICATION FairSpec
PROPERTIES
    VisitorAnswered
    UnusedRetires
    ShutdownCompletes
