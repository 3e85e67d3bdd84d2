CONSTANTS
    Worker <- TwoWorkers
    MaxVisitors = 3
    PendingMax = 2
    IdleTicks = 1
SPECIFICATION Spec
INVARIANTS
    IdleListExact
    QueueExact
    WakeNotLost
    CloseEndsService
    StopSparesVisitors
PROPERTIES
    HandOffIsFair
    ImplementsVisitors
