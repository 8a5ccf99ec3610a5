SPECIFICATION DFairSpec
CONSTANTS
    Fd <- MCFd
    Obj = {o1, o2, o3}
    None = None
    MayRemove <- MCMayRemove
    MAX_MAINLOOP_ENTRIES = 3
    MAX_EPOLL_EVENTS = 3
    MsgLen = 2
INVARIANTS
    WritesGoToUart
PROPERTIES
    KillEndsLoop
    Heartbeat
CHECK_DEADLOCK FALSE
