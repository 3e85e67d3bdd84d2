CONSTANTS
    MaxID = 3
    MaxData = 2
SPECIFICATION FairSpec
INVARIANTS
    NoUnexpectedFrame
    SameLease
    NoStaleDeadline
    RetirementIsClean
    OutcomesAgree
PROPERTIES
    LeaseEnds
    NoHalfOpen
