SPECIFICATION FairSpec
CONSTANTS
    Fd <- FourFds
    Obj = {o1, o2}
    None = None
    MayRemove <- OwnOfFour
    MAX_MAINLOOP_ENTRIES = 3
    MAX_EPOLL_EVENTS = 2
INVARIANTS
    DispatchRight
    NothingLeaked
    TimersKeepGoing
PROPERTIES
    QuitStops
CHECK_DEADLOCK FALSE
