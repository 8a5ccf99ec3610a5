---------------------------- MODULE EpollLoop ----------------------------
(***************************************************************************)
(* src/epoll/epoll_loop.c and timeout.c: the table of descriptors, the     *)
(* heap objects the kernel's event list points to, the timers, and the     *)
(* loop that fetches a batch of events and calls back.  A callback is any  *)
(* code that uses the interface.  MayRemove says which descriptors the     *)
(* callback of another may remove: everywhere in this repository a         *)
(* callback removes only its own (uart_read_cb), and a timer goes when its *)
(* func returns false, never from inside the func.                         *)
(***************************************************************************)
EXTENDS Naturals, Sequences

CONSTANTS Fd,                    \* descriptor numbers the process may get
          Obj,                   \* addresses malloc may return
          None,                  \* NULL, and -1 as a descriptor
          MayRemove,
          MAX_MAINLOOP_ENTRIES,
          MAX_EPOLL_EVENTS

ASSUME FdAssumption    == Fd \subseteq Nat
ASSUME NoneAssumption  == None \notin Fd /\ None \notin Obj
ASSUME BoundAssumption == MAX_MAINLOOP_ENTRIES \in Nat /\ MAX_EPOLL_EVENTS \in Nat \ {0}
ASSUME RemovesOwn      == MayRemove \in [Fd -> SUBSET Fd] /\ \A fd \in Fd : MayRemove[fd] \subseteq {fd}

VARIABLES
    pc,              \* where the thread is
    epoll_terminate,
    g_signal_data,   \* epoll_set_signal has been called
    sigfd,           \* g_signal_data->fd, or None
    mainloop_list,   \* fd -> address of its mainloop_data, or None
    heap,            \* address -> the fd field of a live mainloop_data, or None
    registered,      \* the kernel's interest list: fd -> data.ptr, or None
    enabled,         \* registrations that a one-shot event has not switched off
    file,            \* what is open as fd
    clock,           \* of a timerfd: idle, ticking, or expired and not read
    batch,           \* events[n ..] still to be dispatched: fd and data.ptr
    current          \* the descriptor whose callback runs, or None

table == <<mainloop_list, heap, registered>>
loop  == <<pc, epoll_terminate, g_signal_data, sigfd, batch, current>>
vars  == <<loop, table, enabled, file, clock>>

\* A timer by its period: "zero" is one created with msec = 0, which never starts.
Timer == {"timer", "zero"}
Kind  == {"closed", "plain", "signal"} \cup Timer
Event == [fd : Fd, ptr : Obj]

IsTimer(fd) == file[fd] \in Timer

\* epoll_init
Init ==
    /\ pc = "setup" /\ epoll_terminate = FALSE /\ g_signal_data = FALSE /\ sigfd = None
    /\ mainloop_list = [fd \in Fd |-> None]
    /\ heap = [o \in Obj |-> None]
    /\ registered = [fd \in Fd |-> None]
    /\ enabled = {}
    /\ file = [fd \in Fd |-> "closed"]
    /\ clock = [fd \in Fd |-> "idle"]
    /\ batch = <<>> /\ current = None

--------------------------------------------------------------------------
(* The interface.  It is used before epoll_run and inside callbacks. *)

CallerRuns == pc \in {"setup", "callback", "func"}

InRange(fd) == fd < MAX_MAINLOOP_ENTRIES

\* If fd is out of range or EPOLL_CTL_ADD refuses it, nothing has changed.
epoll_add_fd(fd) ==
    /\ InRange(fd) /\ registered[fd] = None
    /\ \E o \in Obj :
          /\ heap[o] = None
          /\ heap' = [heap EXCEPT ![o] = fd]
          /\ registered' = [registered EXCEPT ![fd] = o]
          /\ mainloop_list' = [mainloop_list EXCEPT ![fd] = o]
    /\ enabled' = enabled \cup {fd}

\* EPOLL_CTL_MOD switches a one-shot registration on again.
epoll_modify_fd(fd) ==
    /\ InRange(fd) /\ mainloop_list[fd] # None
    /\ enabled' = enabled \cup {fd}

\* Mutant of timeout_destroy: the descriptor is not closed.
DestroyLeavesOpen(fd) == UNCHANGED file

\* destroy of a timer closes its descriptor, destroy of others does nothing.
timeout_destroy(fd) ==
    file' = IF IsTimer(fd) THEN [file EXCEPT ![fd] = "closed"] ELSE file

\* Take the entry out of the table and the interest list, destroy and free it.
epoll_remove_fd(fd) ==
    /\ InRange(fd) /\ mainloop_list[fd] # None
    /\ mainloop_list' = [mainloop_list EXCEPT ![fd] = None]
    /\ registered' = [registered EXCEPT ![fd] = None]
    /\ heap' = [heap EXCEPT ![mainloop_list[fd]] = None]
    /\ enabled' = enabled \ {fd}
    /\ timeout_destroy(fd)

\* A timer of period msec starts over; msec = 0 leaves it as it is.
timeout_set(fd, kind) ==
    clock' = IF kind = "zero" THEN clock ELSE [clock EXCEPT ![fd] = "ticking"]

AddFd(fd) ==
    /\ CallerRuns /\ file[fd] = "plain"
    /\ epoll_add_fd(fd)
    /\ UNCHANGED <<loop, file, clock>>

\* timerfd_create gives a free number; if a later call fails it is closed again.
epoll_add_timeout(fd, kind) ==
    /\ file[fd] = "closed"
    /\ epoll_add_fd(fd)
    /\ file' = [file EXCEPT ![fd] = kind]
    /\ clock' = [clock EXCEPT ![fd] = IF kind = "zero" THEN "idle" ELSE "ticking"]

timeout_add(fd, kind) ==
    /\ CallerRuns /\ epoll_add_timeout(fd, kind)
    /\ UNCHANGED loop

\* Any code may restart any timer, one with an event in the batch too.
epoll_modify_timeout(fd, kind) ==
    /\ CallerRuns /\ IsTimer(fd)
    /\ timeout_set(fd, kind) /\ epoll_modify_fd(fd)
    /\ UNCHANGED <<loop, table, file>>

\* Mutant of Removable: a callback removes any descriptor.
RemovableAny(fd) == pc \in {"setup", "callback"} /\ fd # sigfd

\* Before epoll_run any descriptor may be removed, in a callback those it may;
\* nobody but the loop knows the number of the signalfd.
Removable(fd) ==
    \/ pc = "setup"
    \/ pc = "callback" /\ fd \in MayRemove[current] /\ fd # sigfd

RemoveFd(fd) ==
    /\ Removable(fd) /\ ~IsTimer(fd)
    /\ epoll_remove_fd(fd)
    /\ UNCHANGED <<loop, clock>>

\* The id 0 means no timer here, although timeout_add may return it.
timeout_remove(fd) ==
    /\ Removable(fd) /\ IsTimer(fd) /\ fd # 0
    /\ epoll_remove_fd(fd)
    /\ UNCHANGED <<loop, clock>>

\* open, socket, ...: the kernel hands out a free number.
Open(fd) ==
    /\ CallerRuns /\ file[fd] = "closed"
    /\ file' = [file EXCEPT ![fd] = "plain"]
    /\ UNCHANGED <<loop, table, enabled, clock>>

\* Every caller removes a descriptor before it closes it.
Close(fd) ==
    /\ CallerRuns /\ file[fd] = "plain" /\ mainloop_list[fd] = None
    /\ file' = [file EXCEPT ![fd] = "closed"]
    /\ UNCHANGED <<loop, table, enabled, clock>>

epoll_set_signal ==
    /\ pc = "setup"
    /\ g_signal_data' = TRUE
    /\ UNCHANGED <<pc, epoll_terminate, sigfd, batch, current, table, enabled, file, clock>>

\* epoll_quit, epoll_exit_success, epoll_exit_failure
epoll_quit ==
    /\ CallerRuns
    /\ epoll_terminate' = TRUE
    /\ UNCHANGED <<pc, g_signal_data, sigfd, batch, current, table, enabled, file, clock>>

--------------------------------------------------------------------------
(* epoll_run *)

\* Mutant of LoopHead: epoll_terminate is not looked at.
LoopForever == "wait"

\* The test at the head of the while loop.
LoopHead == IF epoll_terminate THEN "stop" ELSE "wait"

\* The signalfd is opened and registered.
RunStart ==
    /\ pc = "setup"
    /\ IF g_signal_data
       THEN \E fd \in Fd :
              /\ file[fd] = "closed" /\ epoll_add_fd(fd)
              /\ file' = [file EXCEPT ![fd] = "signal"]
              /\ sigfd' = fd
       ELSE UNCHANGED <<table, enabled, file, sigfd>>
    /\ pc' = LoopHead
    /\ UNCHANGED <<epoll_terminate, g_signal_data, batch, current, clock>>

\* sigprocmask, signalfd or epoll_add_fd fails: epoll_run returns at once.
RunFails ==
    /\ pc = "setup" /\ g_signal_data
    /\ pc' = "failed"
    /\ UNCHANGED <<epoll_terminate, g_signal_data, sigfd, batch, current, table, enabled, file, clock>>

\* The clock runs at any moment.
Expire(fd) ==
    /\ IsTimer(fd) /\ clock[fd] = "ticking"
    /\ clock' = [clock EXCEPT ![fd] = "expired"]
    /\ UNCHANGED <<loop, table, enabled, file>>

\* What the kernel may report: an expired timer, anything of the others.
Ready == {fd \in enabled : IsTimer(fd) => clock[fd] = "expired"}

\* epoll_wait: at most MAX_EPOLL_EVENTS events, at most one of a descriptor.
\* A timer is registered with EPOLLONESHOT and is switched off.
Wait ==
    /\ pc = "wait"
    /\ \E n \in 1 .. MAX_EPOLL_EVENTS : \E fds \in [1 .. n -> Ready] :
          /\ \A i, j \in 1 .. n : fds[i] = fds[j] => i = j
          /\ batch' = [i \in 1 .. n |-> [fd |-> fds[i], ptr |-> registered[fds[i]]]]
          /\ enabled' = enabled \ {fd \in Fd : IsTimer(fd) /\ \E i \in 1 .. n : fds[i] = fd}
    /\ pc' = "dispatch"
    /\ UNCHANGED <<epoll_terminate, g_signal_data, sigfd, current, table, file, clock>>

\* data = events[n].data.ptr; data->callback(data->fd, ...)
DispatchFd ==
    /\ pc = "dispatch" /\ ~IsTimer(heap[Head(batch).ptr])
    /\ current' = heap[Head(batch).ptr]
    /\ batch' = Tail(batch)
    /\ pc' = "callback"
    /\ UNCHANGED <<epoll_terminate, g_signal_data, sigfd, table, enabled, file, clock>>

\* Both functions timeout_callback: the expiration is read and func called.
DispatchTimer ==
    /\ pc = "dispatch"
    /\ LET fd == heap[Head(batch).ptr]
       IN  /\ IsTimer(fd) /\ clock[fd] = "expired"
           /\ clock' = [clock EXCEPT ![fd] = "idle"]
           /\ current' = fd
    /\ batch' = Tail(batch)
    /\ pc' = "func"
    /\ UNCHANGED <<epoll_terminate, g_signal_data, sigfd, table, enabled, file>>

\* The batch is used up and the loop goes on, or the next event is due.
NextEvent(rest) == IF rest = <<>> THEN LoopHead ELSE "dispatch"

\* The timer was restarted since the event was fetched: its read fails, and
\* nothing is called.
DispatchStale ==
    /\ pc = "dispatch"
    /\ LET fd == heap[Head(batch).ptr] IN IsTimer(fd) /\ clock[fd] # "expired"
    /\ batch' = Tail(batch)
    /\ pc' = NextEvent(Tail(batch))
    /\ UNCHANGED <<epoll_terminate, g_signal_data, sigfd, current, table, enabled, file, clock>>

CallbackReturns ==
    /\ pc = "callback"
    /\ current' = None
    /\ pc' = NextEvent(batch)
    /\ UNCHANGED <<epoll_terminate, g_signal_data, sigfd, batch, table, enabled, file, clock>>

\* Mutant of FuncAgain: the registration is not switched on again.
RestartsOnly ==
    /\ pc = "func"
    /\ timeout_set(current, file[current])
    /\ current' = None
    /\ pc' = NextEvent(batch)
    /\ UNCHANGED <<epoll_terminate, g_signal_data, sigfd, batch, table, enabled, file>>

\* func returned true: the timer starts over and is switched on again.
FuncAgain ==
    /\ pc = "func"
    /\ timeout_set(current, file[current]) /\ epoll_modify_fd(current)
    /\ current' = None
    /\ pc' = NextEvent(batch)
    /\ UNCHANGED <<epoll_terminate, g_signal_data, sigfd, batch, table, file>>

\* func returned false: the timer is removed.
FuncDone ==
    /\ pc = "func"
    /\ epoll_remove_fd(current)
    /\ current' = None
    /\ pc' = NextEvent(batch)
    /\ UNCHANGED <<epoll_terminate, g_signal_data, sigfd, batch, clock>>

\* After the loop: the signalfd is removed and closed.
Stop ==
    /\ pc = "stop"
    /\ IF g_signal_data
       THEN /\ mainloop_list' = [mainloop_list EXCEPT ![sigfd] = None]
            /\ registered' = [registered EXCEPT ![sigfd] = None]
            /\ heap' = [heap EXCEPT ![mainloop_list[sigfd]] = None]
            /\ enabled' = enabled \ {sigfd}
            /\ file' = [file EXCEPT ![sigfd] = "closed"]
       ELSE UNCHANGED <<table, enabled, file>>
    /\ pc' = "sweep"
    /\ UNCHANGED <<epoll_terminate, g_signal_data, sigfd, batch, current, clock>>

Listed == {fd \in Fd : mainloop_list[fd] # None}

\* One turn of the sweep that removes, destroys and frees what is left.
Sweep(fd) ==
    /\ pc = "sweep" /\ \A other \in Listed : fd <= other
    /\ epoll_remove_fd(fd)
    /\ UNCHANGED <<loop, clock>>

SweepEnds ==
    /\ pc = "sweep" /\ Listed = {}
    /\ pc' = "done"
    /\ UNCHANGED <<epoll_terminate, g_signal_data, sigfd, batch, current, table, enabled, file, clock>>

--------------------------------------------------------------------------
Caller(fd) ==
    \/ AddFd(fd) \/ RemoveFd(fd) \/ timeout_remove(fd) \/ Open(fd) \/ Close(fd)
    \/ \E kind \in Timer : timeout_add(fd, kind) \/ epoll_modify_timeout(fd, kind)

Dispatch == DispatchFd \/ DispatchTimer \/ DispatchStale

Returns == CallbackReturns \/ FuncAgain \/ FuncDone

Shutdown == Stop \/ SweepEnds \/ \E fd \in Fd : Sweep(fd)

Next == \/ \E fd \in Fd : Caller(fd) \/ Expire(fd)
        \/ epoll_set_signal \/ epoll_quit
        \/ RunStart \/ RunFails \/ Wait \/ Dispatch \/ Returns \/ Shutdown

\* Callbacks return, and the thread goes on; an event need never happen.
Spec     == Init /\ [][Next]_vars
FairSpec == Spec /\ WF_vars(Dispatch) /\ WF_vars(Returns) /\ WF_vars(Shutdown)

--------------------------------------------------------------------------
(* Properties *)

\* The loop's variables keep their types, and only numbers the table has room
\* for are ever entered in it (epoll_add_fd).
TypeOK ==
    /\ pc \in {"setup", "wait", "dispatch", "callback", "func", "stop", "sweep", "done", "failed"}
    /\ epoll_terminate \in BOOLEAN /\ g_signal_data \in BOOLEAN
    /\ sigfd \in Fd \cup {None} /\ current \in Fd \cup {None}
    /\ mainloop_list \in [Fd -> Obj \cup {None}]
    /\ registered \in [Fd -> Obj \cup {None}]
    /\ heap \in [Obj -> Fd \cup {None}]
    /\ file \in [Fd -> Kind]
    /\ clock \in [Fd -> {"idle", "ticking", "expired"}]
    /\ batch \in Seq(Event)
    /\ enabled \subseteq {fd \in Fd : fd < MAX_MAINLOOP_ENTRIES}

\* A pointer in the batch is still the live mainloop_data of the descriptor
\* that had the event (epoll_run, events[n].data.ptr), and that descriptor is
\* still open, although callbacks of the same batch remove entries, close
\* descriptors and reuse the addresses and the numbers.
DispatchRight ==
    \A i \in 1 .. Len(batch) :
       heap[batch[i].ptr] = batch[i].fd /\ file[batch[i].fd] # "closed"

\* The table, the heap and the kernel agree: an entry is registered under the
\* address it has in the table and is the only one there, and nothing else is
\* allocated (epoll_add_fd, epoll_remove_fd and the sweep: no entry leaks).
TableAgrees ==
    /\ registered = mainloop_list
    /\ \A fd \in Fd : mainloop_list[fd] # None => heap[mainloop_list[fd]] = fd
    /\ \A o \in Obj : heap[o] # None => mainloop_list[heap[o]] = o

\* A timerfd lives exactly as long as its entry: timeout_destroy closes it on
\* every way out (timeout_callback, epoll_remove_timeout, the sweep).
NoTimerLeaks == \A fd \in Fd : IsTimer(fd) => mainloop_list[fd] # None

\* Whatever callbacks and the loop's ways out do, no entry, registration or
\* timerfd is left behind or missing.
NothingLeaked == TableAgrees /\ NoTimerLeaks

\* A timer that keeps returning true never dies: whenever the loop waits, it is
\* running or has expired, and its one-shot registration is switched on or its
\* event is in hand, also if its read failed (timeout_callback).
TimersKeepGoing ==
    pc \in {"wait", "dispatch"} =>
       \A fd \in Fd : file[fd] = "timer" =>
          /\ clock[fd] # "idle"
          /\ fd \in enabled \/ \E i \in 1 .. Len(batch) : batch[i].fd = fd

\* epoll_quit ends a loop that has begun, and the sweep frees every entry.
QuitStops ==
    (epoll_terminate /\ pc \notin {"setup", "failed"})
       ~> (pc = "done" /\ \A o \in Obj : heap[o] = None)
==========================================================================
