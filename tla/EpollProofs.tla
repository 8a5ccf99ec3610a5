---------------------------- MODULE EpollProofs ----------------------------
(***************************************************************************)
(* The main loop never calls back through a dangling pointer and never     *)
(* loses a timer, whatever the descriptors, addresses and bounds, as long  *)
(* as callbacks remove only their own descriptor (RemovesOwn).  The same   *)
(* invariant holds of the daemon of UartDaemon (DaemonInvariance).         *)
(***************************************************************************)
EXTENDS UartDaemon, TLAPS

InBatch(fd) == \E i \in 1 .. Len(batch) : batch[i].fd = fd

Running == pc \in {"wait", "dispatch", "callback", "func"}

\* What is in the table is open and within it; only that is switched on.
Entries ==
    /\ \A fd \in Fd : mainloop_list[fd] # None => file[fd] # "closed" /\ InRange(fd)
    /\ \A fd \in enabled : mainloop_list[fd] # None

\* A descriptor has one event in a batch, and none once its callback runs.
Batches ==
    /\ \A i, j \in 1 .. Len(batch) : batch[i].fd = batch[j].fd => i = j
    /\ pc \in {"callback", "func"} => current \in Fd /\ ~InBatch(current)
    /\ pc = "dispatch" => batch # <<>>
    /\ pc \notin {"dispatch", "callback", "func"} => batch = <<>>
    /\ pc = "func" => IsTimer(current) /\ mainloop_list[current] # None

\* The signalfd stays in the table until the loop has stopped.
SignalHeld ==
    /\ pc = "setup" => sigfd = None
    /\ (Running \/ pc = "stop") /\ g_signal_data =>
          sigfd \in Fd /\ mainloop_list[sigfd] # None /\ file[sigfd] = "signal"

\* A timer is switched on, or its expiration waits in the batch to be read;
\* the one whose func runs is put in order when func returns.
TimersHeld ==
    (Running \/ pc = "setup") =>
       \A fd \in Fd : file[fd] = "timer" =>
          \/ pc = "func" /\ fd = current
          \/ /\ clock[fd] # "idle"
             /\ fd \in enabled \/ (clock[fd] = "expired" /\ InBatch(fd))

IndInv ==
    /\ TypeOK /\ TableAgrees /\ DispatchRight /\ NoTimerLeaks
    /\ Entries /\ Batches /\ SignalHeld /\ TimersHeld

--------------------------------------------------------------------------
\* The table and the heap: what every conjunct but those on the loop needs.
Table ==
    /\ mainloop_list \in [Fd -> Obj \cup {None}]
    /\ registered \in [Fd -> Obj \cup {None}]
    /\ heap \in [Obj -> Fd \cup {None}]
    /\ enabled \subseteq {fd \in Fd : fd < MAX_MAINLOOP_ENTRIES}
    /\ TableAgrees
    /\ \A fd \in enabled : mainloop_list[fd] # None
    /\ \A fd \in Fd : mainloop_list[fd] # None => InRange(fd)

LEMMA TableOfInv == IndInv => Table
  BY DEF IndInv, Table, TypeOK, Entries

\* epoll_add_fd keeps the table in order and moves no other entry.
LEMMA AddKeepsTable ==
    ASSUME Table, NEW fd \in Fd, epoll_add_fd(fd)
    PROVE  /\ Table'
           /\ mainloop_list[fd] = None /\ mainloop_list'[fd] # None
           /\ \A g \in Fd \ {fd} : mainloop_list'[g] = mainloop_list[g]
           /\ \A o \in Obj : heap[o] # None => heap'[o] = heap[o]
           /\ enabled' = enabled \cup {fd} /\ InRange(fd)
<1>1. PICK o \in Obj :
          /\ heap[o] = None
          /\ heap' = [heap EXCEPT ![o] = fd]
          /\ registered' = [registered EXCEPT ![fd] = o]
          /\ mainloop_list' = [mainloop_list EXCEPT ![fd] = o]
  BY DEF epoll_add_fd
<1>2. /\ InRange(fd) /\ registered[fd] = None /\ enabled' = enabled \cup {fd}
      /\ mainloop_list[fd] = None
  BY DEF epoll_add_fd, Table, TableAgrees
<1>3. TableAgrees'
  BY <1>1, <1>2, NoneAssumption DEF Table, TableAgrees
<1> QED
  BY <1>1, <1>2, <1>3, NoneAssumption DEF Table, InRange

\* epoll_remove_fd frees exactly one entry.
LEMMA RemoveKeepsTable ==
    ASSUME Table, NEW fd \in Fd, mainloop_list[fd] # None,
           mainloop_list' = [mainloop_list EXCEPT ![fd] = None],
           registered' = [registered EXCEPT ![fd] = None],
           heap' = [heap EXCEPT ![mainloop_list[fd]] = None],
           enabled' = enabled \ {fd}
    PROVE  /\ Table'
           /\ mainloop_list'[fd] = None
           /\ \A g \in Fd \ {fd} : mainloop_list'[g] = mainloop_list[g]
           /\ \A o \in Obj : heap[o] # fd => heap'[o] = heap[o]
<1>1. TableAgrees'
  BY NoneAssumption DEF Table, TableAgrees
<1> QED
  BY <1>1, NoneAssumption DEF Table, TableAgrees, InRange

\* The induction step is stated on Table and on what the loop adds to it.
Rest ==
    /\ pc \in {"setup", "wait", "dispatch", "callback", "func", "stop", "sweep", "done", "failed"}
    /\ epoll_terminate \in BOOLEAN /\ g_signal_data \in BOOLEAN
    /\ sigfd \in Fd \cup {None} /\ current \in Fd \cup {None}
    /\ file \in [Fd -> Kind]
    /\ clock \in [Fd -> {"idle", "ticking", "expired"}]
    /\ batch \in Seq(Event)
    /\ \A fd \in Fd : mainloop_list[fd] # None => file[fd] # "closed"

LEMMA InvSplit ==
    IndInv <=> /\ Table /\ Rest /\ DispatchRight /\ NoTimerLeaks
               /\ Batches /\ SignalHeld /\ TimersHeld
  BY DEF IndInv, Table, Rest, TypeOK, Entries

LEMMA InvSplitNext ==
    (Table /\ Rest /\ DispatchRight /\ NoTimerLeaks /\ Batches /\ SignalHeld /\ TimersHeld)'
       => IndInv'
  BY DEF IndInv, Table, Rest, TypeOK, Entries

\* An entry whose event is in hand is in the table.
LEMMA PendingListed ==
    ASSUME IndInv, NEW i \in 1 .. Len(batch)
    PROVE  /\ batch[i].fd \in Fd /\ batch[i].ptr \in Obj
           /\ mainloop_list[batch[i].fd] = batch[i].ptr
           /\ heap[batch[i].ptr] = batch[i].fd
           /\ file[batch[i].fd] # "closed"
<1>1. batch[i] \in Event
  BY DEF IndInv, TypeOK
<1> QED
  BY <1>1, NoneAssumption DEF IndInv, TableAgrees, DispatchRight, Event
----------------------------------------------------------------------------
LEMMA InitInv == Init => IndInv
<1> SUFFICES ASSUME Init PROVE IndInv
  OBVIOUS
<1>1. batch \in Seq(Event) /\ Len(batch) = 0
  BY DEF Init
<1>2. Table
  BY NoneAssumption DEF Init, Table, TableAgrees
<1>3. Rest
  BY <1>1 DEF Init, Rest, Kind
<1>4. DispatchRight /\ NoTimerLeaks /\ Batches /\ SignalHeld
  BY <1>1 DEF Init, DispatchRight, NoTimerLeaks, Batches, SignalHeld, IsTimer, Timer, Running, InBatch
<1>5. TimersHeld
  BY DEF Init, TimersHeld
<1> QED
  BY <1>2, <1>3, <1>4, <1>5, InvSplit

\* A step of a caller that leaves the loop where it is and fetches no event.
\* It suffices that what is pending, held or running is not disturbed.
LEMMA AddFdStep ==
    ASSUME IndInv, NEW fd \in Fd, AddFd(fd)
    PROVE  IndInv'
<1> USE DEF AddFd, loop
<1>1. Table' /\ mainloop_list[fd] = None /\ mainloop_list'[fd] # None
      /\ (\A g \in Fd \ {fd} : mainloop_list'[g] = mainloop_list[g])
      /\ (\A o \in Obj : heap[o] # None => heap'[o] = heap[o])
      /\ enabled' = enabled \cup {fd}
  BY TableOfInv, AddKeepsTable
<1>2. Rest'
  BY <1>1, InvSplit DEF Rest
<1>3. DispatchRight'
  <2> SUFFICES ASSUME NEW i \in 1 .. Len(batch)
               PROVE  heap'[batch[i].ptr] = batch[i].fd /\ file[batch[i].fd] # "closed"
    BY DEF DispatchRight
  <2> QED
    BY <1>1, PendingListed, NoneAssumption
<1>4. NoTimerLeaks'
  BY <1>1, InvSplit DEF NoTimerLeaks, IsTimer
<1>5. Batches'
  BY <1>1, InvSplit DEF Batches, InBatch, IsTimer
<1>6. SignalHeld'
  BY <1>1, InvSplit DEF SignalHeld, Running
<1>7. TimersHeld'
  BY <1>1, InvSplit DEF TimersHeld, Running, InBatch
<1> QED
  BY <1>1, <1>2, <1>3, <1>4, <1>5, <1>6, <1>7, InvSplitNext

LEMMA TimeoutAddStep ==
    ASSUME IndInv, NEW fd \in Fd, NEW kind \in Timer, timeout_add(fd, kind)
    PROVE  IndInv'
<1> USE DEF timeout_add, epoll_add_timeout, loop
<1>1. Table' /\ mainloop_list[fd] = None /\ mainloop_list'[fd] # None
      /\ (\A g \in Fd \ {fd} : mainloop_list'[g] = mainloop_list[g])
      /\ (\A o \in Obj : heap[o] # None => heap'[o] = heap[o])
      /\ enabled' = enabled \cup {fd}
  BY TableOfInv, AddKeepsTable
<1>0. Rest /\ DispatchRight /\ NoTimerLeaks /\ Batches /\ SignalHeld /\ TimersHeld
  BY InvSplit
<1>a. /\ file[fd] = "closed" /\ file' = [file EXCEPT ![fd] = kind]
      /\ clock' = [clock EXCEPT ![fd] = IF kind = "zero" THEN "idle" ELSE "ticking"]
      /\ file \in [Fd -> Kind] /\ clock \in [Fd -> {"idle", "ticking", "expired"}]
  BY <1>0 DEF Rest
<1>2. Rest'
  BY <1>0, <1>1, <1>a DEF Rest, Kind, Timer
<1>3. DispatchRight'
  <2> SUFFICES ASSUME NEW i \in 1 .. Len(batch)
               PROVE  heap'[batch[i].ptr] = batch[i].fd /\ file'[batch[i].fd] # "closed"
    BY DEF DispatchRight
  <2> QED
    BY <1>1, <1>a, PendingListed, NoneAssumption
<1>4. NoTimerLeaks'
  BY <1>0, <1>1, <1>a DEF NoTimerLeaks, IsTimer
<1>5. Batches'
  BY <1>0, <1>1, <1>a DEF Batches, InBatch, IsTimer
<1>6. SignalHeld'
  BY <1>0, <1>1, <1>a, NoneAssumption DEF SignalHeld, Running
<1>7. TimersHeld'
  BY <1>0, <1>1, <1>a DEF TimersHeld, Running, InBatch, Timer
<1> QED
  BY <1>1, <1>2, <1>3, <1>4, <1>5, <1>6, <1>7, InvSplitNext

LEMMA ModifyStep ==
    ASSUME IndInv, NEW fd \in Fd, NEW kind \in Timer, epoll_modify_timeout(fd, kind)
    PROVE  IndInv'
<1> USE DEF epoll_modify_timeout, epoll_modify_fd, loop, table
<1>0. Table /\ Rest /\ DispatchRight /\ NoTimerLeaks /\ Batches /\ SignalHeld /\ TimersHeld
  BY InvSplit
<1>1. Table'
  BY <1>0 DEF Table, TableAgrees, InRange
<1>2. /\ clock' \in [Fd -> {"idle", "ticking", "expired"}]
      /\ \A g \in Fd : g # fd => clock'[g] = clock[g]
      /\ clock'[fd] = clock[fd] \/ clock'[fd] = "ticking"
      /\ enabled' = enabled \cup {fd}
  BY <1>0 DEF timeout_set, Rest
<1>3. Rest'
  BY <1>0, <1>2 DEF Rest
<1>4. DispatchRight' /\ NoTimerLeaks' /\ Batches' /\ SignalHeld'
  BY <1>0 DEF DispatchRight, NoTimerLeaks, IsTimer, Batches, InBatch, SignalHeld, Running
<1>5. TimersHeld'
  BY <1>0, <1>2 DEF TimersHeld, Running, InBatch
<1> QED
  BY <1>1, <1>3, <1>4, <1>5, InvSplitNext

\* Opening a free number and closing one that is not in the table.
LEMMA FileStep ==
    ASSUME IndInv, NEW fd \in Fd, Open(fd) \/ Close(fd)
    PROVE  IndInv'
<1> USE DEF Open, Close, loop, table
<1>0. Table /\ Rest /\ DispatchRight /\ NoTimerLeaks /\ Batches /\ SignalHeld /\ TimersHeld
  BY InvSplit
<1>1. /\ mainloop_list[fd] = None /\ file[fd] \notin Timer
      /\ file' \in [Fd -> Kind] /\ file'[fd] \in {"plain", "closed"}
      /\ \A g \in Fd : g # fd => file'[g] = file[g]
  BY <1>0 DEF Rest, Kind, Timer
<1>2. Table'
  BY <1>0 DEF Table, TableAgrees, InRange
<1>3. Rest'
  BY <1>0, <1>1 DEF Rest
<1>4. DispatchRight'
  <2> SUFFICES ASSUME NEW i \in 1 .. Len(batch)
               PROVE  heap[batch[i].ptr] = batch[i].fd /\ file'[batch[i].fd] # "closed"
    BY DEF DispatchRight
  <2> QED
    BY <1>1, PendingListed, NoneAssumption
<1>5. NoTimerLeaks'
  BY <1>0, <1>1 DEF NoTimerLeaks, IsTimer, Timer
<1>6. Batches'
  BY <1>0, <1>1 DEF Batches, InBatch, IsTimer
<1>7. SignalHeld'
  BY <1>0, <1>1 DEF SignalHeld, Running
<1>8. TimersHeld'
  BY <1>0, <1>1 DEF TimersHeld, Running, InBatch, Timer
<1> QED
  BY <1>2, <1>3, <1>4, <1>5, <1>6, <1>7, <1>8, InvSplitNext

\* What removing an entry does to the parts of the invariant that hold in any
\* phase of the loop; nothing of the removed descriptor may be pending.
LEMMA RemoveEffect ==
    ASSUME IndInv, NEW fd \in Fd, ~InBatch(fd), epoll_remove_fd(fd), UNCHANGED batch
    PROVE  /\ Table' /\ DispatchRight' /\ NoTimerLeaks'
           /\ mainloop_list'[fd] = None
           /\ \A g \in Fd : g # fd => mainloop_list'[g] = mainloop_list[g] /\ file'[g] = file[g]
           /\ file' \in [Fd -> Kind] /\ ~(file'[fd] \in Timer)
           /\ enabled' = enabled \ {fd}
           /\ \A g \in Fd : mainloop_list'[g] # None => file'[g] # "closed"
<1>0. Table /\ Rest /\ DispatchRight /\ NoTimerLeaks
  BY InvSplit
<1>1. /\ Table' /\ mainloop_list'[fd] = None /\ enabled' = enabled \ {fd}
      /\ \A g \in Fd \ {fd} : mainloop_list'[g] = mainloop_list[g]
      /\ \A o \in Obj : heap[o] # fd => heap'[o] = heap[o]
  BY <1>0, RemoveKeepsTable DEF epoll_remove_fd
<1>2. /\ file' \in [Fd -> Kind] /\ ~(file'[fd] \in Timer)
      /\ \A g \in Fd : g # fd => file'[g] = file[g]
  BY <1>0 DEF epoll_remove_fd, timeout_destroy, Rest, Kind, Timer, IsTimer
<1>3. DispatchRight'
  <2> SUFFICES ASSUME NEW i \in 1 .. Len(batch)
               PROVE  heap'[batch[i].ptr] = batch[i].fd /\ file'[batch[i].fd] # "closed"
    BY DEF DispatchRight
  <2>1. batch[i].fd # fd
    BY DEF InBatch
  <2> QED
    BY <1>1, <1>2, <2>1, PendingListed
<1>4. NoTimerLeaks'
  BY <1>0, <1>1, <1>2 DEF NoTimerLeaks, IsTimer
<1>5. \A g \in Fd : mainloop_list'[g] # None => file'[g] # "closed"
  BY <1>0, <1>1, <1>2 DEF Rest
<1> QED
  BY <1>1, <1>2, <1>3, <1>4, <1>5

LEMMA RemoveStep ==
    ASSUME IndInv, NEW fd \in Fd, RemoveFd(fd) \/ timeout_remove(fd)
    PROVE  IndInv'
<1> USE DEF RemoveFd, timeout_remove, loop
<1>0. Table /\ Rest /\ DispatchRight /\ NoTimerLeaks /\ Batches /\ SignalHeld /\ TimersHeld
  BY InvSplit
<1>1. /\ pc = "setup" \/ (pc = "callback" /\ fd = current)
      /\ pc = "callback" => fd # sigfd
  <2>1. Removable(fd)
    OBVIOUS
  <2>2. CASE pc = "setup"
    BY <2>2
  <2>3. CASE pc = "callback"
    <3>1. current \in Fd
      BY <1>0, <2>3 DEF Batches
    <3> QED
      BY <2>1, <2>3, <3>1, RemovesOwn DEF Removable
  <2> QED
    BY <2>1, <2>2, <2>3 DEF Removable
<1>2. ~InBatch(fd)
  BY <1>0, <1>1 DEF Batches, InBatch
<1>3. /\ Table' /\ DispatchRight' /\ NoTimerLeaks'
      /\ mainloop_list'[fd] = None
      /\ \A g \in Fd : g # fd => mainloop_list'[g] = mainloop_list[g] /\ file'[g] = file[g]
      /\ file' \in [Fd -> Kind] /\ ~(file'[fd] \in Timer)
      /\ enabled' = enabled \ {fd}
      /\ \A g \in Fd : mainloop_list'[g] # None => file'[g] # "closed"
  BY <1>2, RemoveEffect
<1>4. Rest'
  BY <1>0, <1>3 DEF Rest
<1>5. Batches'
  BY <1>0, <1>1, <1>3 DEF Batches, InBatch
<1>6. SignalHeld'
  BY <1>0, <1>1, <1>3 DEF SignalHeld, Running
<1>7. TimersHeld'
  BY <1>0, <1>1, <1>3 DEF TimersHeld, Running, InBatch, Timer
<1> QED
  BY <1>3, <1>4, <1>5, <1>6, <1>7, InvSplitNext

LEMMA FlagStep ==
    ASSUME IndInv, epoll_set_signal \/ epoll_quit \/ RunFails
    PROVE  IndInv'
<1> USE DEF epoll_set_signal, epoll_quit, RunFails, CallerRuns, table
<1>0. Table /\ Rest /\ DispatchRight /\ NoTimerLeaks /\ Batches /\ SignalHeld /\ TimersHeld
  BY InvSplit
<1>1. Table' /\ DispatchRight' /\ NoTimerLeaks'
  BY <1>0 DEF Table, TableAgrees, InRange, DispatchRight, NoTimerLeaks, IsTimer
<1>2. Rest'
  BY <1>0 DEF Rest
<1>3. Batches' /\ SignalHeld'
  BY <1>0 DEF Batches, InBatch, IsTimer, SignalHeld, Running
<1>4. TimersHeld'
  BY <1>0 DEF TimersHeld, Running, InBatch
<1> QED
  BY <1>1, <1>2, <1>3, <1>4, InvSplitNext

LEMMA RunStartStep ==
    ASSUME IndInv, RunStart
    PROVE  IndInv'
<1> USE DEF RunStart, LoopHead
<1>0. Table /\ Rest /\ DispatchRight /\ NoTimerLeaks /\ Batches /\ SignalHeld /\ TimersHeld
  BY InvSplit
<1>1. /\ batch = <<>> /\ batch' = <<>> /\ pc' \in {"stop", "wait"} /\ clock' = clock
      /\ g_signal_data' = g_signal_data /\ current' = current /\ epoll_terminate' = epoll_terminate
  BY <1>0 DEF Batches
<1>2. DispatchRight' /\ Batches'
  BY <1>1 DEF DispatchRight, Batches, InBatch
<1>3. CASE g_signal_data
  <2>1. PICK fd \in Fd : /\ file[fd] = "closed" /\ epoll_add_fd(fd)
                         /\ file' = [file EXCEPT ![fd] = "signal"] /\ sigfd' = fd
    BY <1>3
  <2>2. /\ Table' /\ mainloop_list'[fd] # None /\ enabled' = enabled \cup {fd}
        /\ \A g \in Fd \ {fd} : mainloop_list'[g] = mainloop_list[g]
    BY <1>0, <2>1, AddKeepsTable
  <2>3. /\ file' \in [Fd -> Kind] /\ file'[fd] = "signal"
        /\ \A g \in Fd : g # fd => file'[g] = file[g]
    BY <1>0, <2>1 DEF Rest, Kind
  <2>4. Rest'
    BY <1>0, <1>1, <2>1, <2>2, <2>3 DEF Rest
  <2>5. NoTimerLeaks'
    BY <1>0, <2>2, <2>3 DEF NoTimerLeaks, IsTimer, Timer
  <2>6. SignalHeld'
    BY <1>1, <2>1, <2>2, <2>3 DEF SignalHeld, Running
  <2>7. TimersHeld'
    BY <1>0, <1>1, <2>2, <2>3 DEF TimersHeld, Running, InBatch
  <2> QED
    BY <1>2, <2>2, <2>4, <2>5, <2>6, <2>7, InvSplitNext
<1>4. CASE ~g_signal_data
  <2>1. UNCHANGED <<mainloop_list, heap, registered, enabled, file, sigfd>>
    BY <1>4 DEF table
  <2>2. Table' /\ NoTimerLeaks'
    BY <1>0, <2>1 DEF Table, TableAgrees, InRange, NoTimerLeaks, IsTimer
  <2>3. Rest'
    BY <1>0, <1>1, <2>1 DEF Rest
  <2>4. SignalHeld'
    BY <1>1, <1>4 DEF SignalHeld, Running
  <2>5. TimersHeld'
    BY <1>0, <1>1, <2>1 DEF TimersHeld, Running, InBatch
  <2> QED
    BY <1>2, <2>2, <2>3, <2>4, <2>5, InvSplitNext
<1> QED
  BY <1>3, <1>4

LEMMA ExpireStep ==
    ASSUME IndInv, NEW fd \in Fd, Expire(fd)
    PROVE  IndInv'
<1> USE DEF Expire, loop, table
<1>0. Table /\ Rest /\ DispatchRight /\ NoTimerLeaks /\ Batches /\ SignalHeld /\ TimersHeld
  BY InvSplit
<1>1. Table' /\ DispatchRight' /\ NoTimerLeaks' /\ Batches' /\ SignalHeld'
  BY <1>0 DEF Table, TableAgrees, InRange, DispatchRight, NoTimerLeaks, IsTimer,
              Batches, InBatch, SignalHeld, Running
<1>2. Rest'
  BY <1>0 DEF Rest
<1>3. TimersHeld'
  BY <1>0 DEF TimersHeld, Running, InBatch, Rest
<1> QED
  BY <1>1, <1>2, <1>3, InvSplitNext

LEMMA WaitStep ==
    ASSUME IndInv, Wait
    PROVE  IndInv'
<1>0. Table /\ Rest /\ DispatchRight /\ NoTimerLeaks /\ Batches /\ SignalHeld /\ TimersHeld
  BY InvSplit
<1>a. PICK n \in 1 .. MAX_EPOLL_EVENTS : \E fds \in [1 .. n -> Ready] :
          /\ \A i, j \in 1 .. n : fds[i] = fds[j] => i = j
          /\ batch' = [i \in 1 .. n |-> [fd |-> fds[i], ptr |-> registered[fds[i]]]]
          /\ enabled' = enabled \ {fd \in Fd : IsTimer(fd) /\ \E i \in 1 .. n : fds[i] = fd}
  BY DEF Wait
<1>1. PICK fds \in [1 .. n -> Ready] :
          /\ \A i, j \in 1 .. n : fds[i] = fds[j] => i = j
          /\ batch' = [i \in 1 .. n |-> [fd |-> fds[i], ptr |-> registered[fds[i]]]]
          /\ enabled' = enabled \ {fd \in Fd : IsTimer(fd) /\ \E i \in 1 .. n : fds[i] = fd}
  BY <1>a
<1>2. /\ pc = "wait" /\ pc' = "dispatch"
      /\ UNCHANGED <<epoll_terminate, g_signal_data, sigfd, current, file, clock,
                     mainloop_list, heap, registered>>
  BY DEF Wait, table
<1>3. n \in Nat \ {0}
  BY <1>a, BoundAssumption
<1>4. \A i \in 1 .. n :
          /\ fds[i] \in Fd /\ fds[i] \in enabled
          /\ IsTimer(fds[i]) => clock[fds[i]] = "expired"
          /\ mainloop_list[fds[i]] # None /\ registered[fds[i]] = mainloop_list[fds[i]]
          /\ registered[fds[i]] \in Obj /\ heap[registered[fds[i]]] = fds[i]
          /\ file[fds[i]] # "closed"
  <2> SUFFICES ASSUME NEW i \in 1 .. n
               PROVE  /\ fds[i] \in Fd /\ fds[i] \in enabled
                      /\ IsTimer(fds[i]) => clock[fds[i]] = "expired"
                      /\ mainloop_list[fds[i]] # None
                      /\ registered[fds[i]] = mainloop_list[fds[i]]
                      /\ registered[fds[i]] \in Obj /\ heap[registered[fds[i]]] = fds[i]
                      /\ file[fds[i]] # "closed"
    OBVIOUS
  <2>1. fds[i] \in Ready
    BY <1>1
  <2>2. fds[i] \in enabled /\ (IsTimer(fds[i]) => clock[fds[i]] = "expired")
    BY <2>1 DEF Ready
  <2>3. fds[i] \in Fd /\ mainloop_list[fds[i]] # None
    BY <1>0, <2>2 DEF Table
  <2> QED
    BY <1>0, <2>2, <2>3 DEF Table, TableAgrees, Rest
<1>5. batch' \in Seq(Event) /\ Len(batch') = n
      /\ \A i \in 1 .. n : batch'[i].fd = fds[i] /\ batch'[i].ptr = registered[fds[i]]
  <2>1. \A i \in 1 .. n : [fd |-> fds[i], ptr |-> registered[fds[i]]] \in Event
    BY <1>4 DEF Event
  <2>2. batch' \in [1 .. n -> Event]
    BY <1>1, <2>1
  <2>3. batch' \in Seq(Event) /\ Len(batch') = n
    BY <1>3, <2>2
  <2> QED
    BY <1>1, <2>3
<1>6. Table'
  BY <1>0, <1>1, <1>2 DEF Table, TableAgrees, InRange
<1>7. Rest'
  BY <1>0, <1>2, <1>5 DEF Rest
<1>8. DispatchRight'
  BY <1>2, <1>4, <1>5 DEF DispatchRight
<1>9. NoTimerLeaks' /\ SignalHeld'
  BY <1>0, <1>2 DEF NoTimerLeaks, IsTimer, SignalHeld, Running
<1>10. Batches'
  BY <1>1, <1>2, <1>3, <1>5 DEF Batches
<1>11. TimersHeld'
  <2> SUFFICES ASSUME NEW fd \in Fd, file[fd] = "timer"
               PROVE  /\ clock[fd] # "idle"
                      /\ fd \in enabled' \/ (clock[fd] = "expired" /\ InBatch(fd)')
    BY <1>2 DEF TimersHeld
  <2>1. clock[fd] # "idle" /\ fd \in enabled
    BY <1>0, <1>2 DEF TimersHeld, Running, InBatch, Batches
  <2>2. CASE \E i \in 1 .. n : fds[i] = fd
    BY <1>4, <1>5, <2>1, <2>2 DEF InBatch, IsTimer, Timer
  <2>3. CASE ~ \E i \in 1 .. n : fds[i] = fd
    BY <1>1, <2>1, <2>3
  <2> QED
    BY <2>1, <2>2, <2>3
<1> QED
  BY <1>6, <1>7, <1>8, <1>9, <1>10, <1>11, InvSplitNext

\* Taking the first event off the batch.
LEMMA TailFacts ==
    ASSUME IndInv, pc = "dispatch", batch' = Tail(batch)
    PROVE  /\ batch' \in Seq(Event) /\ Len(batch') = Len(batch) - 1 /\ Len(batch) \in Nat \ {0}
           /\ \A i \in 1 .. Len(batch') : i + 1 \in 1 .. Len(batch) /\ batch'[i] = batch[i + 1]
           /\ Head(batch) = batch[1] /\ heap[Head(batch).ptr] = batch[1].fd /\ batch[1].fd \in Fd
           /\ mainloop_list[batch[1].fd] # None
           /\ \A i \in 1 .. Len(batch') : batch'[i].fd # batch[1].fd
           /\ \A fd \in Fd : InBatch(fd) => fd = batch[1].fd \/ InBatch(fd)'
<1>1. batch \in Seq(Event) /\ batch # <<>>
  BY DEF IndInv, TypeOK, Batches
<1>2. /\ batch' \in Seq(Event) /\ Len(batch') = Len(batch) - 1 /\ Len(batch) \in Nat \ {0}
      /\ \A i \in 1 .. Len(batch') : i + 1 \in 1 .. Len(batch) /\ batch'[i] = batch[i + 1]
      /\ Head(batch) = batch[1] /\ 1 \in 1 .. Len(batch)
  BY <1>1
<1>3. heap[Head(batch).ptr] = batch[1].fd /\ batch[1].fd \in Fd /\ mainloop_list[batch[1].fd] # None
  BY <1>2, PendingListed, NoneAssumption
<1>4. \A i, j \in 1 .. Len(batch) : batch[i].fd = batch[j].fd => i = j
  BY DEF IndInv, Batches
<1>5. \A i \in 1 .. Len(batch') : batch'[i].fd # batch[1].fd
  <2> SUFFICES ASSUME NEW i \in 1 .. Len(batch'), batch'[i].fd = batch[1].fd
               PROVE  FALSE
    OBVIOUS
  <2>1. i + 1 \in 1 .. Len(batch) /\ batch[i + 1].fd = batch[1].fd /\ i + 1 # 1
    BY <1>2
  <2> QED
    BY <1>2, <1>4, <2>1
<1>6. \A fd \in Fd : InBatch(fd) => fd = batch[1].fd \/ InBatch(fd)'
  <2> SUFFICES ASSUME NEW fd \in Fd, NEW i \in 1 .. Len(batch), batch[i].fd = fd, i # 1
               PROVE  \E j \in 1 .. Len(batch') : batch'[j].fd = fd
    BY DEF InBatch
  <2>1. i - 1 \in 1 .. Len(batch') /\ batch'[i - 1] = batch[i]
    BY <1>1, <1>2
  <2> QED
    BY <2>1
<1> QED
  BY <1>2, <1>3, <1>5, <1>6

LEMMA DispatchStep ==
    ASSUME IndInv, Dispatch
    PROVE  IndInv'
<1>0. Table /\ Rest /\ DispatchRight /\ NoTimerLeaks /\ Batches /\ SignalHeld /\ TimersHeld
  BY InvSplit
<1>1. /\ pc = "dispatch" /\ batch' = Tail(batch)
      /\ UNCHANGED <<epoll_terminate, g_signal_data, sigfd, mainloop_list, heap, registered,
                     enabled, file>>
  BY DEF Dispatch, DispatchFd, DispatchTimer, DispatchStale, table
<1> DEFINE hd == batch[1].fd
<1>2. /\ batch' \in Seq(Event) /\ Len(batch') = Len(batch) - 1 /\ Len(batch) \in Nat \ {0}
      /\ \A i \in 1 .. Len(batch') : i + 1 \in 1 .. Len(batch) /\ batch'[i] = batch[i + 1]
      /\ heap[Head(batch).ptr] = hd /\ hd \in Fd /\ mainloop_list[hd] # None
      /\ \A i \in 1 .. Len(batch') : batch'[i].fd # hd
      /\ \A fd \in Fd : InBatch(fd) => fd = hd \/ InBatch(fd)'
  BY <1>1, TailFacts
<1>3. \/ pc' = "callback" /\ current' = hd /\ ~IsTimer(hd) /\ clock' = clock
      \/ /\ pc' = "func" /\ current' = hd /\ IsTimer(hd)
         /\ clock' = [clock EXCEPT ![hd] = "idle"]
      \/ /\ pc' = NextEvent(Tail(batch)) /\ current' = current /\ IsTimer(hd)
         /\ clock[hd] # "expired" /\ clock' = clock
  BY <1>1, <1>2 DEF Dispatch, DispatchFd, DispatchTimer, DispatchStale
<1>4. pc' \in {"callback", "func", "dispatch", "stop", "wait"}
      /\ (pc' = "dispatch" => batch' # <<>>) /\ (pc' \in {"stop", "wait"} => batch' = <<>>)
  BY <1>1, <1>3 DEF NextEvent, LoopHead
<1>5. \A i, j \in 1 .. Len(batch') : batch'[i].fd = batch'[j].fd => i = j
  <2> SUFFICES ASSUME NEW i \in 1 .. Len(batch'), NEW j \in 1 .. Len(batch'),
                      batch'[i].fd = batch'[j].fd
               PROVE  i = j
    OBVIOUS
  <2>1. batch[i + 1].fd = batch[j + 1].fd /\ i + 1 \in 1 .. Len(batch) /\ j + 1 \in 1 .. Len(batch)
    BY <1>2
  <2>2. i + 1 = j + 1
    BY <1>0, <2>1 DEF Batches
  <2> QED
    BY <1>2, <2>2
<1>6. Table'
  BY <1>0, <1>1 DEF Table, TableAgrees, InRange
<1>7. Rest'
  BY <1>0, <1>1, <1>2, <1>3, <1>4 DEF Rest
<1>8. DispatchRight'
  BY <1>0, <1>1, <1>2 DEF DispatchRight
<1>9. NoTimerLeaks' /\ SignalHeld'
  BY <1>0, <1>1, <1>4 DEF NoTimerLeaks, IsTimer, SignalHeld, Running
<1>10. Batches'
  <2>1. pc' \in {"callback", "func"} => current' = hd
    BY <1>1, <1>3 DEF NextEvent, LoopHead
  <2>2. pc' = "func" => file'[hd] \in Timer
    BY <1>1, <1>3 DEF NextEvent, LoopHead, IsTimer
  <2> HIDE DEF hd
  <2> QED
    BY <1>1, <1>2, <1>4, <1>5, <2>1, <2>2 DEF Batches, InBatch, IsTimer
<1>11. TimersHeld'
  <2> SUFFICES ASSUME NEW fd \in Fd, file[fd] = "timer", Running' 
               PROVE  \/ pc' = "func" /\ fd = current'
                      \/ /\ clock'[fd] # "idle"
                         /\ fd \in enabled \/ (clock'[fd] = "expired" /\ InBatch(fd)')
    BY <1>1, <1>4 DEF TimersHeld
  <2>1. clock[fd] # "idle" /\ (fd \in enabled \/ (clock[fd] = "expired" /\ InBatch(fd)))
    BY <1>0, <1>1 DEF TimersHeld, Running
  <2>2. IsTimer(fd)
    BY DEF IsTimer, Timer
  <2> HIDE DEF hd
  <2>3. CASE fd = hd
    BY <1>3, <2>1, <2>2, <2>3
  <2>4. CASE fd # hd
    <3>1. clock'[fd] = clock[fd]
      BY <1>0, <1>3, <2>4 DEF Rest
    <3> QED
      BY <1>2, <2>1, <2>4, <3>1
  <2> QED
    BY <2>3, <2>4
<1> QED
  BY <1>6, <1>7, <1>8, <1>9, <1>10, <1>11, InvSplitNext

LEMMA CallbackReturnsStep ==
    ASSUME IndInv, CallbackReturns
    PROVE  IndInv'
<1> USE DEF CallbackReturns, table, NextEvent, LoopHead
<1>0. Table /\ Rest /\ DispatchRight /\ NoTimerLeaks /\ Batches /\ SignalHeld /\ TimersHeld
  BY InvSplit
<1>1. Table' /\ DispatchRight' /\ NoTimerLeaks'
  BY <1>0 DEF Table, TableAgrees, InRange, DispatchRight, NoTimerLeaks, IsTimer
<1>2. Rest'
  BY <1>0 DEF Rest
<1>3. Batches' /\ SignalHeld'
  BY <1>0 DEF Batches, InBatch, SignalHeld, Running
<1>4. TimersHeld'
  BY <1>0 DEF TimersHeld, Running, InBatch
<1> QED
  BY <1>1, <1>2, <1>3, <1>4, InvSplitNext

LEMMA FuncAgainStep ==
    ASSUME IndInv, FuncAgain
    PROVE  IndInv'
<1> USE DEF FuncAgain, epoll_modify_fd, table, NextEvent, LoopHead
<1>0. Table /\ Rest /\ DispatchRight /\ NoTimerLeaks /\ Batches /\ SignalHeld /\ TimersHeld
  BY InvSplit
<1>1. current \in Fd /\ enabled' = enabled \cup {current} /\ pc = "func"
  BY <1>0 DEF Batches
<1>2. /\ clock' \in [Fd -> {"idle", "ticking", "expired"}]
      /\ \A g \in Fd : g # current => clock'[g] = clock[g]
      /\ file[current] = "timer" => clock'[current] = "ticking"
  BY <1>0, <1>1 DEF timeout_set, Rest
<1>3. Table' /\ DispatchRight' /\ NoTimerLeaks'
  BY <1>0, <1>1 DEF Table, TableAgrees, InRange, DispatchRight, NoTimerLeaks, IsTimer
<1>4. Rest'
  BY <1>0, <1>2 DEF Rest
<1>5. Batches' /\ SignalHeld'
  BY <1>0, <1>1 DEF Batches, InBatch, SignalHeld, Running
<1>6. TimersHeld'
  BY <1>0, <1>1, <1>2 DEF TimersHeld, Running, InBatch
<1> QED
  BY <1>3, <1>4, <1>5, <1>6, InvSplitNext

LEMMA FuncDoneStep ==
    ASSUME IndInv, FuncDone
    PROVE  IndInv'
<1> USE DEF FuncDone, NextEvent, LoopHead
<1>0. Table /\ Rest /\ DispatchRight /\ NoTimerLeaks /\ Batches /\ SignalHeld /\ TimersHeld
  BY InvSplit
<1>1. current \in Fd /\ ~InBatch(current) /\ pc = "func" /\ IsTimer(current)
  BY <1>0 DEF Batches
<1>2. /\ Table' /\ DispatchRight' /\ NoTimerLeaks'
      /\ mainloop_list'[current] = None
      /\ \A g \in Fd : g # current => mainloop_list'[g] = mainloop_list[g] /\ file'[g] = file[g]
      /\ file' \in [Fd -> Kind] /\ ~(file'[current] \in Timer)
      /\ enabled' = enabled \ {current}
      /\ \A g \in Fd : mainloop_list'[g] # None => file'[g] # "closed"
  BY <1>1, RemoveEffect
<1>3. Rest'
  BY <1>0, <1>2 DEF Rest
<1>4. Batches'
  BY <1>0, <1>1 DEF Batches, InBatch
<1>5. SignalHeld'
  <2>1. g_signal_data => sigfd # current /\ sigfd \in Fd
    BY <1>0, <1>1 DEF SignalHeld, Running, IsTimer, Timer
  <2> QED
    BY <1>0, <1>1, <1>2, <2>1 DEF SignalHeld, Running
<1>6. TimersHeld'
  BY <1>0, <1>1, <1>2 DEF TimersHeld, Running, InBatch, Timer
<1> QED
  BY <1>2, <1>3, <1>4, <1>5, <1>6, InvSplitNext

LEMMA StopStep ==
    ASSUME IndInv, Stop
    PROVE  IndInv'
<1> USE DEF Stop, table
<1>0. Table /\ Rest /\ DispatchRight /\ NoTimerLeaks /\ Batches /\ SignalHeld /\ TimersHeld
  BY InvSplit
<1>1. pc = "stop" /\ pc' = "sweep" /\ batch = <<>> /\ batch' = <<>>
  BY <1>0 DEF Batches
<1>2. DispatchRight' /\ Batches' /\ SignalHeld' /\ TimersHeld'
  BY <1>1 DEF DispatchRight, Batches, InBatch, SignalHeld, Running, TimersHeld
<1>3. CASE g_signal_data
  <2>1. sigfd \in Fd /\ mainloop_list[sigfd] # None /\ file[sigfd] = "signal"
    BY <1>0, <1>1, <1>3 DEF SignalHeld
  <2>2. /\ Table' /\ mainloop_list'[sigfd] = None
        /\ \A g \in Fd \ {sigfd} : mainloop_list'[g] = mainloop_list[g]
    BY <1>0, <1>3, <2>1, RemoveKeepsTable
  <2>3. file' = [file EXCEPT ![sigfd] = "closed"] /\ file \in [Fd -> Kind]
    BY <1>0, <1>3 DEF Rest
  <2>4. Rest' /\ NoTimerLeaks'
    BY <1>0, <1>1, <2>1, <2>2, <2>3 DEF Rest, Kind, NoTimerLeaks, IsTimer, Timer
  <2> QED
    BY <1>2, <2>2, <2>4, InvSplitNext
<1>4. CASE ~g_signal_data
  <2>1. Table' /\ Rest' /\ NoTimerLeaks'
    BY <1>0, <1>1, <1>4 DEF Table, TableAgrees, InRange, Rest, NoTimerLeaks, IsTimer
  <2> QED
    BY <1>2, <2>1, InvSplitNext
<1> QED
  BY <1>3, <1>4

LEMMA SweepStep ==
    ASSUME IndInv, SweepEnds \/ \E fd \in Fd : Sweep(fd)
    PROVE  IndInv'
<1>0. Table /\ Rest /\ DispatchRight /\ NoTimerLeaks /\ Batches /\ SignalHeld /\ TimersHeld
  BY InvSplit
<1>1. /\ pc = "sweep" /\ batch = <<>> /\ batch' = <<>> /\ pc' \in {"sweep", "done"}
      /\ UNCHANGED <<epoll_terminate, g_signal_data, sigfd, current, clock>>
  BY <1>0 DEF Batches, SweepEnds, Sweep, loop
<1>2. Batches' /\ SignalHeld' /\ TimersHeld'
  BY <1>1 DEF Batches, InBatch, SignalHeld, Running, TimersHeld
<1>3. CASE SweepEnds
  <2>1. Table' /\ Rest' /\ NoTimerLeaks' /\ DispatchRight'
    BY <1>0, <1>1, <1>3 DEF SweepEnds, table, Table, TableAgrees, InRange, Rest, NoTimerLeaks,
                            IsTimer, DispatchRight
  <2> QED
    BY <1>2, <2>1, InvSplitNext
<1>4. ASSUME NEW fd \in Fd, Sweep(fd) PROVE IndInv'
  <2>1. ~InBatch(fd) /\ epoll_remove_fd(fd)
    BY <1>1, <1>4 DEF InBatch, Sweep
  <2>2. /\ Table' /\ DispatchRight' /\ NoTimerLeaks' /\ file' \in [Fd -> Kind]
        /\ \A g \in Fd : mainloop_list'[g] # None => file'[g] # "closed"
    BY <1>1, <2>1, RemoveEffect
  <2>3. Rest'
    BY <1>0, <1>1, <2>2 DEF Rest
  <2> QED
    BY <1>2, <2>2, <2>3, InvSplitNext
<1> QED
  BY <1>3, <1>4

LEMMA StepInv == IndInv /\ [Next]_vars => IndInv'
<1> SUFFICES ASSUME IndInv, [Next]_vars PROVE IndInv'
  OBVIOUS
<1>1. ASSUME NEW fd \in Fd, Caller(fd) PROVE IndInv'
  BY <1>1, AddFdStep, RemoveStep, FileStep, TimeoutAddStep, ModifyStep DEF Caller
<1>2. ASSUME NEW fd \in Fd, Expire(fd) PROVE IndInv'
  BY <1>2, ExpireStep
<1>3. CASE epoll_set_signal \/ epoll_quit \/ RunStart \/ RunFails
  BY <1>3, FlagStep, RunStartStep
<1>4. CASE Wait \/ Dispatch
  BY <1>4, WaitStep, DispatchStep
<1>5. CASE Returns
  BY <1>5, CallbackReturnsStep, FuncAgainStep, FuncDoneStep DEF Returns
<1>6. CASE Shutdown
  BY <1>6, StopStep, SweepStep DEF Shutdown
<1>7. CASE UNCHANGED vars
  <2>1. UNCHANGED <<pc, epoll_terminate, g_signal_data, sigfd, batch, current, mainloop_list, heap,
                    registered, enabled, file, clock>>
    BY <1>7 DEF vars, loop, table
  <2> QED
    BY <2>1 DEF IndInv, TypeOK, TableAgrees, DispatchRight, NoTimerLeaks, Entries, Batches,
                SignalHeld, TimersHeld, InBatch, Running, IsTimer, InRange
<1> QED
  BY <1>1, <1>2, <1>3, <1>4, <1>5, <1>6, <1>7 DEF Next

--------------------------------------------------------------------------
\* The inductive invariant holds throughout.
THEOREM Invariance == Spec => []IndInv
  BY InitInv, StepInv, PTL DEF Spec

\* The loop's variables keep their types and the table is never indexed out of
\* range (epoll_add_fd), for any number of descriptors and entries.
THEOREM TypeCorrect == Spec => []TypeOK
<1>1. IndInv => TypeOK
  BY DEF IndInv
<1> QED
  BY <1>1, Invariance, PTL

\* epoll_run never follows a pointer to freed memory or calls back for a
\* descriptor other than the one that had the event.
THEOREM DispatchIsRight == Spec => []DispatchRight
<1>1. IndInv => DispatchRight
  BY DEF IndInv
<1> QED
  BY <1>1, Invariance, PTL

\* Table, heap and kernel agree, and no timerfd outlives its entry.
THEOREM NothingLeaks == Spec => []NothingLeaked
<1>1. IndInv => NothingLeaked
  BY DEF IndInv, NothingLeaked
<1> QED
  BY <1>1, Invariance, PTL

\* Whenever the loop waits, every repeating timer is armed and switched on.
THEOREM TimersNeverDie == Spec => []TimersKeepGoing
<1>1. IndInv => TimersKeepGoing
  BY DEF IndInv, TimersHeld, TimersKeepGoing, Running, InBatch
<1> QED
  BY <1>1, Invariance, PTL

--------------------------------------------------------------------------
(* The daemon *)

BeforeRun == {"main", "uart_open", "uart_add", "timer_add", "run", "aborted"}
InRun     == {"loop", "enter", "leave", "remove", "close"}

\* The number in g_uart_data is the serial line's, open or closed, and never
\* becomes another file's: nothing is opened once the loop runs, and before
\* that the line is open.  There is a timer only if there is a line.
UartHeld ==
    /\ uart \in Fd \cup {None}
    /\ uart = None => \A fd \in Fd : ~IsTimer(fd)
    /\ uart # None => file[uart] \in {"plain", "closed"}
    /\ uart # None /\ pc = "setup" => file[uart] = "plain"
    /\ stage \in {"main", "uart_open"} => uart = None
    /\ stage \in {"uart_add", "timer_add", "remove", "close"} => uart # None

Stages ==
    /\ stage \in BeforeRun \cup InRun
    /\ stage \in BeforeRun <=> pc = "setup"
    /\ stage = "main" <=> ~g_signal_data

DInv == UartHeld /\ Stages

LEMMA InitDInv == DInit => DInv
  BY NoneAssumption DEF DInit, Init, DInv, UartHeld, Stages, BeforeRun, InRun, IsTimer, Timer

\* Every step of the daemon is a step of the loop or leaves the loop alone.
LEMMA DaemonMaps ==
    ASSUME IndInv, DInv, [DNext]_allVars
    PROVE  [Next]_vars
<1> USE DEF DInv, UartHeld
<1>1. CASE Main
  <2>1. CASE MainSetsSignal
    BY <2>1 DEF MainSetsSignal, Next
  <2>2. CASE UartAdds
    BY <2>2 DEF UartAdds, Next, Caller
  <2>3. CASE MainRuns
    BY <2>3 DEF MainRuns, Next
  <2>4. ASSUME NEW fd \in Fd, uart_open(fd) PROVE [Next]_vars
    BY <2>4 DEF uart_open, Next, Caller
  <2>5. ASSUME NEW fd \in Fd, TimerAdds(fd) PROVE [Next]_vars
    BY <2>5 DEF TimerAdds, Next, Caller, Timer
  <2> QED
    BY <1>1, <2>1, <2>2, <2>3, <2>4, <2>5 DEF Main
<1>2. CASE DaemonWaits \/ Enter \/ Leave \/ DaemonStops \/ signal_callback
  BY <1>2 DEF DaemonWaits, Enter, Leave, DaemonStops, signal_callback, Next, Returns
<1>3. CASE UartRemoves \/ UartCloses
  BY <1>3 DEF UartRemoves, UartCloses, Next, Caller
<1>4. CASE Tick
  BY <1>4 DEF Tick, Next
<1>5. CASE uart_read_cb \/ uart_write \/ uart_timer \/ Failures \/ Line \/ Drain \/ Kill
  BY <1>5 DEF uart_read_cb, uart_write, uart_timer, Failures, OpenFails, UartInitGivesUp,
              Line, Drain, Kill, loopVars
<1>6. CASE UNCHANGED allVars
  BY <1>6 DEF allVars
<1> QED
  BY <1>1, <1>2, <1>3, <1>4, <1>5, <1>6 DEF DNext, Loop

LEMMA DaemonSetup ==
    ASSUME IndInv, DInv, Main \/ Failures
    PROVE  DInv'
<1> USE NoneAssumption DEF DInv, UartHeld, Stages, BeforeRun, InRun, loop, table, IsTimer, Timer, env
<1>0. file \in [Fd -> Kind] /\ g_signal_data \in BOOLEAN
  BY DEF IndInv, TypeOK
<1>1. CASE MainSetsSignal
  BY <1>1 DEF MainSetsSignal, epoll_set_signal
<1>2. CASE UartAdds
  BY <1>2 DEF UartAdds, AddFd
<1>3. CASE MainRuns
  <2>1. CASE RunFails
    BY <1>3, <2>1 DEF MainRuns, RunFails
  <2>2. CASE RunStart
    <3>1. \/ UNCHANGED file
          \/ \E fd \in Fd : file[fd] = "closed" /\ file' = [file EXCEPT ![fd] = "signal"]
      BY <2>2 DEF RunStart
    <3>2. pc = "setup" /\ pc' # "setup" /\ UNCHANGED <<g_signal_data, uart>> /\ stage = "run" /\ stage' = "loop"
      BY <1>3, <2>2 DEF RunStart, MainRuns, LoopHead
    <3>3. \A fd \in Fd : \/ file'[fd] = file[fd]
                         \/ file[fd] = "closed" /\ file'[fd] = "signal"
      BY <1>0, <3>1
    <3> QED
      BY <3>2, <3>3
  <2> QED
    BY <1>3, <2>1, <2>2 DEF MainRuns
<1>4. ASSUME NEW fd \in Fd, uart_open(fd) PROVE DInv'
  BY <1>0, <1>4 DEF uart_open, Open
<1>5. ASSUME NEW fd \in Fd, TimerAdds(fd) PROVE DInv'
  BY <1>0, <1>5 DEF TimerAdds, timeout_add, epoll_add_timeout, CallerRuns
<1>6. CASE Failures
  BY <1>6 DEF Failures, OpenFails, UartInitGivesUp, loopVars, vars
<1> QED
  BY <1>1, <1>2, <1>3, <1>4, <1>5, <1>6 DEF Main

LEMMA DaemonLoop ==
    ASSUME IndInv, DInv, Loop
    PROVE  DInv'
<1> USE NoneAssumption DEF DInv, UartHeld, Stages, BeforeRun, InRun, loop, table, IsTimer, Timer, env
<1>0. /\ file \in [Fd -> Kind] /\ g_signal_data \in BOOLEAN
      /\ pc \in {"callback", "func"} => current \in Fd
      /\ pc = "stop" /\ g_signal_data => sigfd \in Fd /\ file[sigfd] = "signal"
  BY DEF IndInv, TypeOK, Batches, SignalHeld
<1>1. CASE DaemonWaits
  BY <1>1 DEF DaemonWaits, Wait
<1>2. CASE Enter
  BY <1>2 DEF Enter, Dispatch, DispatchFd, DispatchTimer, DispatchStale, NextEvent, LoopHead
<1>3. CASE Leave
  BY <1>3 DEF Leave, CallbackReturns, FuncAgain, NextEvent, LoopHead
<1>4. CASE DaemonStops
  <2>1. CASE Stop
    <3>1. \A fd \in Fd : \/ file'[fd] = file[fd]
                         \/ file[fd] = "signal" /\ file'[fd] = "closed"
      BY <1>0, <2>1 DEF Stop
    <3>2. pc = "stop" /\ pc' = "sweep" /\ UNCHANGED <<g_signal_data, uart, stage>>
      BY <1>4, <2>1 DEF Stop, DaemonStops
    <3> QED
      BY <3>1, <3>2
  <2>2. CASE SweepEnds
    BY <1>4, <2>2 DEF SweepEnds, DaemonStops
  <2>3. ASSUME NEW g \in Fd, Sweep(g) PROVE DInv'
    <3>1. \A fd \in Fd : \/ file'[fd] = file[fd]
                         \/ IsTimer(fd) /\ file'[fd] = "closed"
      BY <1>0, <2>3 DEF Sweep, epoll_remove_fd, timeout_destroy
    <3>2. pc = "sweep" /\ UNCHANGED <<pc, g_signal_data, uart, stage>>
      BY <1>4, <2>3 DEF Sweep, DaemonStops
    <3> QED
      BY <3>1, <3>2
  <2> QED
    BY <1>4, <2>1, <2>2, <2>3 DEF DaemonStops, Shutdown
<1>5. CASE signal_callback \/ uart_read_cb
  BY <1>0, <1>5 DEF signal_callback, epoll_quit, uart_read_cb, loopVars, vars
<1>6. CASE UartRemoves
  BY <1>0, <1>6 DEF UartRemoves, RemoveFd, epoll_remove_fd, timeout_destroy
<1>7. CASE UartCloses
  <2>1. /\ uart \in Fd /\ file[uart] = "plain" /\ file' = [file EXCEPT ![uart] = "closed"]
        /\ UNCHANGED <<pc, g_signal_data, uart>> /\ stage' = "leave" /\ pc # "setup"
    BY <1>7 DEF UartCloses, Close
  <2> QED
    BY <1>0, <2>1
<1>8. CASE uart_write \/ uart_timer
  BY <1>8 DEF uart_write, uart_timer, loopVars, vars
<1> QED
  BY <1>1, <1>2, <1>3, <1>4, <1>5, <1>6, <1>7, <1>8 DEF Loop

LEMMA DaemonInvariance == DSpec => [](IndInv /\ DInv)
<1>1. DInit => IndInv /\ DInv
  BY InitInv, InitDInv DEF DInit
<1>2. IndInv /\ DInv /\ [DNext]_allVars => (IndInv /\ DInv)'
  <2> SUFFICES ASSUME IndInv, DInv, [DNext]_allVars PROVE IndInv' /\ DInv'
    OBVIOUS
  <2>1. IndInv'
    BY DaemonMaps, StepInv
  <2>2. CASE Tick \/ Line \/ Drain \/ Kill \/ UNCHANGED allVars
    <3>1. UNCHANGED <<pc, g_signal_data, file, uart, stage>>
      BY <2>2 DEF Tick, Expire, Line, Drain, Kill, allVars, loopVars, vars, loop, table, env
    <3> QED
      BY <2>1, <3>1 DEF DInv, UartHeld, Stages, IsTimer
  <2> QED
    BY <2>1, <2>2, DaemonSetup, DaemonLoop DEF DNext
<1> QED
  BY <1>1, <1>2, PTL DEF DSpec

\* The number that uart_timer writes through is never that of a timer, of the
\* signalfd or of any other open file, also after uart_read_cb has closed it.
THEOREM WritesStayOnUart == DSpec => []WritesGoToUart
<1>1. IndInv /\ DInv => WritesGoToUart
  <2> SUFFICES ASSUME IndInv, DInv, pc = "func"
               PROVE  file[uart] \in {"plain", "closed"} /\ uart # sigfd /\ uart # current
    BY DEF WritesGoToUart
  <2>1. current \in Fd /\ IsTimer(current)
    BY DEF IndInv, Batches
  <2>2. uart \in Fd /\ file[uart] \in {"plain", "closed"}
    BY <2>1 DEF DInv, UartHeld
  <2>3. g_signal_data
    BY DEF DInv, Stages, BeforeRun
  <2>4. file[sigfd] = "signal"
    BY <2>3 DEF IndInv, SignalHeld, Running
  <2> QED
    BY <2>1, <2>2, <2>4 DEF IsTimer, Timer
<1> QED
  BY <1>1, DaemonInvariance, PTL
============================================================================
