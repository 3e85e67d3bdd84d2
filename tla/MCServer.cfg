SPECIFICATION FairSpec
CONSTANTS
    Svc = {s1, s2}
    Conn = {c1, c2}
INVARIANTS
    ShutdownInOrder
PROPERTIES
    StopsWhenDue
