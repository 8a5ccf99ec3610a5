SPECIFICATION FairSpawnSpec
CONSTANTS
    Caller = {c1, c2, c3}
    ExitCodes = {0, 111}
    Signals = {9}
INVARIANTS
    NoZombieLeft
PROPERTIES
    CallReturns
CHECK_DEADLOCK FALSE
