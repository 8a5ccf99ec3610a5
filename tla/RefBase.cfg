SPECIFICATION Spec
CONSTANTS
    Pointers = {p1, p2, p3}
    NULL = NULL
    INITIAL <- InitialStrong
INVARIANTS
    CountsInv
    NothingDangles
    PromotionFailsLate
PROPERTIES
    Reclaimed
CHECK_DEADLOCK FALSE
