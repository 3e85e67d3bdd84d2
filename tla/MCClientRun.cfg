CONSTANTS
    s1 = s1
    s2 = s2
    Slot <- Slots
    MinIdle = 1
    MaxIdle = 1
    MaxBusy = 1
    MaxLevel = 1
SPECIFICATION RunSpec
INVARIANTS
    IdleBound
    CountersExact
    NoLostWake
PROPERTIES
    Refilled
    RunReturns
