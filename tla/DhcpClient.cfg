SPECIFICATION FairSpec
CONSTANTS
    Server <- TwoServers
    Addr <- MCAddr
    Pool <- MCPool
    Foreign <- MCForeign
    XidMod = 4
    FirstXid = 3
    TIMEOUT_INITIAL = 1
    TIMEOUT_MAX = 2
    MaxDup = 1
    MaxForeign = 1
    MaxQueue = 2
INVARIANTS
    AckedLease
    Backoff
PROPERTIES
    Terminates
CHECK_DEADLOCK FALSE
