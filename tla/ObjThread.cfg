SPECIFICATION Spec
CONSTANTS
    Callers = {c1, c2, c3}
    NULL = NULL
    MaxRuns = 2
INVARIANTS
    ThreadInv
    OnlyFailedRunTouchesDeleted
PROPERTIES
    ReturnsAfterExit
    EntersThreadLoop
    ExitWaitReturns
CHECK_DEADLOCK FALSE
