SPECIFICATION EpollSpec
CONSTANTS
    Link = {l1, l2}
    Fd = {3, 4, 5}
    Addr = {a1, a2}
    None = None
    BUFSIZE = 1
    Window = 1
    MaxSent = 2
    MAX_EPOLL_FDS = 3
    Negative = {a2}
INVARIANTS
    EpollServerInv
    OwnEvents
    NothingForgotten
PROPERTIES
    KeepsUntilRead
CHECK_DEADLOCK FALSE
