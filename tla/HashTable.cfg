SPECIFICATION FairSpec
CONSTANTS
    Keys = {k1, k2, k3}
    Values = {v1, v2}
    NULL = NULL
    INVALID_PTR = INVALID_PTR
    HashValues = {4, 5, 6}
    Primes <- TablePrimes
INVARIANTS
    TableInv
PROPERTIES
    EachSeesAll
    ImplementsMap
    CallsReturn
CHECK_DEADLOCK FALSE
