---------------------------- MODULE UartDaemon ----------------------------
(***************************************************************************)
(* src/epoll/main.c with src/uart/uart_linux.c on top of EpollLoop: a      *)
(* signal callback, the callback of a serial line and a timer that writes  *)
(* to it.  Every step is a step of EpollLoop or leaves the loop alone.  A  *)
(* call the loop does not allow would leave the daemon stuck, which        *)
(* KillEndsLoop and Heartbeat would show.                                  *)
(***************************************************************************)
EXTENDS EpollLoop

CONSTANT MsgLen                  \* the 12 bytes uart_timer sends

ASSUME MsgLenAssumption == MsgLen \in Nat \ {0}

VARIABLES
    stage,        \* how far main, or the running callback, has come
    uart,         \* g_uart_data.fd, None before it is set
    tty,          \* the line: "idle", "input", or "hungup" for good
    room,         \* the driver's output buffer has room
    left,         \* bytes uart_write still has to send
    raised        \* SIGINT or SIGTERM is pending

loopVars == vars
env      == <<tty, room, raised>>
allVars  == <<vars, stage, uart, env, left>>

DInit ==
    /\ Init
    /\ stage = "main" /\ uart = None /\ left = 0
    /\ tty = "idle" /\ room = TRUE /\ raised = FALSE

--------------------------------------------------------------------------
(* main and uart_init *)

MainSetsSignal ==
    /\ stage = "main" /\ epoll_set_signal
    /\ stage' = "uart_open"
    /\ UNCHANGED <<uart, env, left>>

\* open fails or gives 0, or uart_setup fails: an assertion ends the process.
\* isatty is asked before; if it says no the descriptor stays open.
uart_open(fd) ==
    /\ stage = "uart_open" /\ Open(fd)
    /\ \/ fd # 0 /\ stage' = "uart_add" /\ uart' = fd
       \/ fd # 0 /\ stage' = "run" /\ UNCHANGED uart
       \/ stage' = "aborted" /\ UNCHANGED uart
    /\ UNCHANGED <<env, left>>

OpenFails ==
    /\ stage = "uart_open"
    /\ stage' = "aborted"
    /\ UNCHANGED <<loopVars, uart, env, left>>

UartAdds ==
    /\ stage = "uart_add" /\ AddFd(uart)
    /\ stage' = "timer_add"
    /\ UNCHANGED <<uart, env, left>>

TimerAdds(fd) ==
    /\ stage = "timer_add" /\ timeout_add(fd, "timer")
    /\ stage' = "run"
    /\ UNCHANGED <<uart, env, left>>

\* Mutant of UartInitGivesUp: after a failed add the line is closed and the
\* timer added all the same.
ClosesAndGoesOn ==
    /\ stage = "uart_add" /\ Close(uart)
    /\ stage' = "timer_add"
    /\ UNCHANGED <<uart, env, left>>

\* epoll_add_fd or timeout_add fails: uart_init goes on without.
UartInitGivesUp ==
    /\ stage \in {"uart_add", "timer_add"}
    /\ stage' = "run"
    /\ UNCHANGED <<loopVars, uart, env, left>>

MainRuns ==
    /\ stage = "run"
    /\ RunStart \/ RunFails
    /\ stage' = "loop"
    /\ UNCHANGED <<uart, env, left>>

--------------------------------------------------------------------------
(* epoll_run with the three callbacks *)

\* Level-triggered readiness of this program's descriptors.
Reported == {fd \in Ready : /\ fd = sigfd => raised
                            /\ fd = uart => tty # "idle"}

\* There are fewer descriptors than MAX_EPOLL_EVENTS: all that are ready are reported.
DaemonWaits ==
    /\ Wait
    /\ {batch'[i].fd : i \in 1 .. Len(batch')} = Reported
    /\ UNCHANGED <<stage, uart, env, left>>

Enter ==
    /\ Dispatch
    /\ stage' = IF pc' \in {"callback", "func"} THEN "enter" ELSE stage
    /\ left' = MsgLen
    /\ UNCHANGED <<uart, env>>

Leave ==
    /\ stage = "leave"
    /\ CallbackReturns \/ FuncAgain
    /\ stage' = "loop"
    /\ UNCHANGED <<uart, env, left>>

\* Mutant of signal_callback: the signal is neither read nor acted on.
SignalForgotten ==
    /\ pc = "callback" /\ stage = "enter" /\ current = sigfd
    /\ stage' = "leave"
    /\ UNCHANGED <<loopVars, uart, tty, room, raised, left>>

\* signal_callback and signal_cb: the signal is read, and ends the loop.
signal_callback ==
    /\ pc = "callback" /\ stage = "enter" /\ current = sigfd
    /\ raised' = FALSE
    /\ epoll_quit
    /\ stage' = "leave"
    /\ UNCHANGED <<uart, tty, room, left>>

\* uart_read_cb: data is read and dumped; after a hangup read gives 0, or an
\* error, or only EPOLLERR | EPOLLHUP is reported and nothing is done.
uart_read_cb ==
    /\ pc = "callback" /\ stage = "enter" /\ current = uart
    /\ \/ /\ tty = "input" /\ tty' \in {"idle", "input"}
          /\ stage' = "leave"
       \/ /\ tty = "hungup" /\ UNCHANGED tty
          /\ stage' \in {"remove", "leave"}
    /\ UNCHANGED <<loopVars, uart, room, raised, left>>

UartRemoves ==
    /\ stage = "remove" /\ RemoveFd(uart)
    /\ stage' = "close"
    /\ UNCHANGED <<uart, env, left>>

UartCloses ==
    /\ stage = "close" /\ Close(uart)
    /\ stage' = "leave"
    /\ UNCHANGED <<uart, env, left>>

\* uart_timer in uart_write: write takes some bytes while there is room, and
\* is tried again at once, and again, while there is none (EAGAIN).
uart_write ==
    /\ pc = "func" /\ stage = "enter" /\ left > 0
    /\ file[uart] = "plain" /\ tty # "hungup" /\ room
    /\ left' \in 0 .. left - 1
    /\ room' \in BOOLEAN
    /\ UNCHANGED <<loopVars, uart, stage, tty, raised>>

\* All is sent, or the line hung up (EIO), or uart_read_cb has closed the
\* descriptor that g_uart_data still names (EBADF).
uart_timer ==
    /\ pc = "func" /\ stage = "enter"
    /\ left = 0 \/ tty = "hungup" \/ file[uart] = "closed"
    /\ stage' = "leave"
    /\ UNCHANGED <<loopVars, uart, env, left>>

DaemonStops ==
    /\ Shutdown
    /\ UNCHANGED <<stage, uart, env, left>>

--------------------------------------------------------------------------
(* The world *)

Tick ==
    /\ \E fd \in Fd : Expire(fd)
    /\ UNCHANGED <<stage, uart, env, left>>

\* Data arrives, or the device is unplugged.
Line ==
    /\ tty # "hungup" /\ tty' \in {"input", "hungup"}
    /\ UNCHANGED <<loopVars, stage, uart, room, raised, left>>

Drain ==
    /\ ~room /\ room' = TRUE
    /\ UNCHANGED <<loopVars, stage, uart, tty, raised, left>>

Kill ==
    /\ ~raised /\ raised' = TRUE
    /\ UNCHANGED <<loopVars, stage, uart, tty, room, left>>

--------------------------------------------------------------------------
Main == MainSetsSignal \/ UartAdds \/ MainRuns \/ \E fd \in Fd : uart_open(fd) \/ TimerAdds(fd)

Failures == OpenFails \/ UartInitGivesUp

Loop == \/ DaemonWaits \/ Enter \/ Leave \/ DaemonStops
        \/ signal_callback \/ uart_read_cb \/ UartRemoves \/ UartCloses
        \/ uart_write \/ uart_timer

DNext == Main \/ Failures \/ Loop \/ Tick \/ Line \/ Drain \/ Kill

DSpec == DInit /\ [][DNext]_allVars

\* The thread goes on, clocks run, and the line takes what is written: without
\* the last uart_write spins for ever and no signal is ever seen.
DFairSpec == DSpec /\ WF_allVars(Loop) /\ WF_allVars(Tick) /\ WF_allVars(Drain)

--------------------------------------------------------------------------
(* Properties *)

\* uart_timer writes through the number it saved in g_uart_data, also after
\* uart_read_cb closed it: it never names another open file.
WritesGoToUart == pc = "func" => file[uart] \in {"plain", "closed"} /\ uart # sigfd /\ uart # current

\* A SIGINT or SIGTERM that arrives while the loop runs ends it, be the line
\* busy, hung up or closed (signal_callback, signal_cb, epoll_run).
KillEndsLoop == (raised /\ stage = "loop" /\ pc \notin {"failed", "done"}) ~> (pc = "done")

\* While the loop runs the timer that uart_init added fires again and again,
\* with the line there or not (timeout_callback, uart_timer).
Heartbeat ==
    (pc = "wait" /\ \E fd \in Fd : file[fd] = "timer") ~> (pc = "func" \/ pc = "done")
==========================================================================
