SPECIFICATION Spec
CONSTANTS
    Width = 8
    Ms = 3
    Second = 6
    Minute = 9
    TenMinutes = 12
    Day = 15
    Week = 24
    MaxMs = 40
    Time <- MCTime
    Announced <- MCAnnounced
    Count = {0, 1, 1025, 4097}
INVARIANTS
    PoolAgreed
