SPECIFICATION Spec
CONSTANTS
    Clients = {s1, s2}
    Callers = {t1}
    Fds = {f1, f2}
    NULL = NULL
INVARIANTS
    ClientsInv
    FreedOnlyByStop
PROPERTIES
    DataIsRead
    StopReturns
CHECK_DEADLOCK FALSE
