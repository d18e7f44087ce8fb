SPECIFICATION Spec
CONSTANTS
    p1 = p1
    p2 = p2
    k1 = k1
    k2 = k2
    Process = {p1, p2}
    Key = {k1, k2}
    MayCrash = TRUE
INVARIANTS
    TypeOK
    FlagMeansBrowser
PROPERTIES
    FlagKept
    FlagSeen
CHECK_DEADLOCK FALSE
