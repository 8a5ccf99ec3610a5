# Models, checks and proofs for IdearNiu

IdearNiu is a collection of Linux building blocks in C and C++: a ring buffer, an
epoll main loop with timers, a UART daemon, a DHCP client, process spawning and
signal handling, TCP and UDP servers, a netlink event manager, object threads with
reference counts, a hash table and a driver table, next to a large amount of
third-party code. `main.c` picks one of them at build time. This directory holds
TLA+ specifications of the parts whose correctness depends on order, concurrency,
failure or wrap-around, TLC configurations that check them on small instances, and
TLAPS proofs that hold for every value of the constants. Every definition that
models code has its source lines in `PROJECT.json` under `map`.

    tlc -config Kfifo.cfg Kfifo              # one run; PROJECT.json lists them all
    tlapm KfifoProofs.tla                    # one module of proofs

Paths below are relative to the repository.

## Inventory

| Component | State | Operations | What is hard about it |
|---|---|---|---|
| kfifo (`src/fifo/fifo.c`, `include/fifo.h`) | buffer, `in`, `out` | init, put, get, reset, len | two threads copy at once without a lock; unsigned indices wrap; lock macros that expand to nothing |
| DHCP client (`src/dhcpc`) | state, timeout, xid, info, raw socket | DISCOVER/REQUEST, retransmission, decode, validate, configure | loss, duplicates, reordering, replies to other hosts, timeouts |
| Epoll loop and timeouts (`src/epoll/epoll_loop.c`, `timeout.c`) | `mainloop_list`, heap entries, kernel registrations, timerfds | add, modify, remove, timeout add/modify/remove, quit, run | callbacks change the table while a batch of raw pointers is pending; one-shot timers must be re-armed |
| UART daemon (`src/epoll/main.c`, `src/uart/uart_linux.c`) | `g_uart_data.fd`, tty | init, read callback, timer write, signal callback | unplugging, a full output buffer, a saved descriptor that was closed |
| Spawning (`src/util/fork_util.c`) and SIGCHLD (`src/signal_handler.c`) | children, pending signal | spawn_and_wait, handler | two parties reap the same child; signals do not queue |
| TCP servers (`src/socket`) | connection objects, epoll set | accept, receive, clean up | ownership across threads, edge-triggered events |
| Driver table (`src/dm`) | `drivers[]` | open, read, write, ioctl, register, deregister | handles that outlive a registration |
| Netlink manager (`src/netlink_manager`) | client list, reference counts, control pipe | start, stop, run, broadcast, release | a listener thread against callers, references against deletion |
| Object threads (`src/objthread`) | thread state, strong and weak counts | run, requestExit, join, inc/dec | exit races, promotion of weak references |
| Hash table (`src/hash`) | cells, count | put, get, remove, grow, iterate | rehash on removal, growth at the load limit |
| Thread, mutex and semaphore wrappers, utilities | - | - | thin wrappers and formatting |
| Third-party trees (`src/bt`, `src/http`, `src/madplay`, `src/mbedtls`, `src/netlink`, `src/tinyalsa`, `src/wpa_supplicant_8`, cJSON, digests) | - | - | not this repository's logic |

How they interact: `main` installs the signal handler for the whole process, so its
`wait()` competes with `spawn_and_wait`, which the DHCP tool calls for its script
(module Spawn). The UART daemon and its timer are callbacks of the epoll loop
(UartDaemon on EpollLoop). `kfifo_put`/`kfifo_get` wrap the lock-free `__kfifo_*`
(KfifoCalls on Kfifo). Both TCP servers keep their clients in `connection_t` and free
them with `clean_connection` (TcpServer and TcpEpoll on Connection); the threaded one
creates its threads with `thread_create`. An object thread keeps itself alive with
the reference counts of RefBase, which ObjThread takes as the set of holders that
RefBase is shown to count.

`PROJECT.json` lists the hazards of all of these, at the line where each bites, with
the property that covers it or the reason none does.

## Modules

| Module | Models | Extends / uses |
|---|---|---|
| `ByteQueue` | what a byte queue promises: put a prefix, get a prefix, reset | abstract |
| `Kfifo` | `__kfifo_put`, `__kfifo_get`, one byte per step | refines ByteQueue |
| `KfifoCalls` | `kfifo_put`, `kfifo_get`, `kfifo_reset` as compiled, without a lock | Kfifo |
| `KfifoProofs` | proofs | Kfifo |
| `DhcpClient` (`MCDhcpClient`) | `do_dhcp`, `dhcp_init_ifc`, messages, packets; servers and link as environment | |
| `DhcpProofs` | proofs | DhcpClient |
| `EpollLoop` (`MCEpollLoop`) | the main loop and timers, with arbitrary callbacks | |
| `EpollProofs` | proofs for the loop and the daemon | UartDaemon |
| `UartDaemon` (`MCUartDaemon`) | main, UART and timer callbacks | composes with EpollLoop |
| `Spawn` | `spawn_and_wait` and the SIGCHLD handler | |
| `AssocMap` | what a table of keys and values promises | abstract |
| `HashTable` (`MCHashTable`) | the open-addressing table of `hash.c`, its loops step by step | refines AssocMap |
| `UtilityProofs` | proofs for the table and for spawning | HashTable, Spawn |
| `RefBase` (`MCRefBase`) | strong and weak counts of one object | |
| `RefBaseProofs` | proofs | RefBase |
| `ObjThread` | `Thread::run`, `requestExit(AndWait)`, `join`, `_threadLoop` | |
| `ObjThreadProofs` | proofs | ObjThread |
| `SocketListener` | the listener thread, broadcasts, releases, the stop, client references | |
| `SocketListenerProofs` | proofs | SocketListener |
| `Connection` | `connection_t`, `clean_connection`, sockets and their peers, and the queue of the listening socket | |
| `TcpServer` | the server with one thread per client, `thread_create` | Connection |
| `TcpEpoll` | the server on an edge-triggered epoll set | Connection |
| `TcpProofs` | proofs for both servers | TcpServer, TcpEpoll |

TcpServer and TcpEpoll, and HashTable and Spawn, are extended together by the module
of their proofs; TcpEpoll and Spawn therefore carry their name in `EpollInit`,
`EpollNext`, `EpollSpec`, `SpawnInit`, `SpawnNext`, `SpawnSpec`.

Definitions called "Mutant of ..." are wrong variants of the definition that
follows. No specification uses them; replacing the original by one must make TLC
report the property `PROJECT.json` pairs it with, which shows that the property
depends on that piece of code.

### Kfifo, KfifoCalls

`buffer`, `in`, `out` are the fields of `struct kfifo`. A put reads `out`, computes
the room, copies byte by byte (`PutCopy`, the two `memcpy`s as one indexed copy
through `CopySlot`) and stores `in`; a get mirrors it. Indices live in
`0 .. Modulus-1` and all arithmetic is modulo `Modulus`, which stands for 2^32.
`Modulus` is a multiple of `Size`, as 2^32 is of a power of two. Stores become
visible in program order: the code has no barrier and relies on x86 and an
unoptimised build; a weaker memory model is not covered.

`KfifoCalls` adds what `kfifo_get` and `kfifo_reset` do beyond that: the test for
empty and the two stores that zero the indices, each a step, because the lock macros
of `include/fifo.h` expand to nothing.

### DhcpClient

One run of `do_dhcp`. `Transmit`, `PollTimeout`, `Receive` and `SocketFails` are the
pieces of the loop in `dhcp_init_ifc` between two system calls; `decode_dhcp_msg`,
`is_valid_reply` and the message builders are operators. Data is abstracted to what
the client tells apart: a reply is full, bare or runt, has an xid, is for this
hardware address or another, and carries a type, an address and a server. Checksums
only decide whether a packet is dropped. Link and servers are external: they lose,
delay, reorder and duplicate.

### EpollLoop, UartDaemon

`heap` maps the address of a live `mainloop_data` to its `fd` field, `mainloop_list`
is the table, `registered` what the kernel keeps as `data.ptr`, `batch` the events
fetched but not dispatched. Between `DispatchFd`/`DispatchTimer` and the return of
the callback the caller may take any sequence of interface steps, so a callback is
arbitrary code, subject to one contract stated as an assumption: it removes only its
own descriptor (`RemovesOwn`), closes a descriptor after removing it, and a timer's
func does not remove its own timer. Addresses and descriptor numbers are reused at
once. A timer has a clock (idle, ticking, expired) that runs at any moment, so a
timer restarted after its event was fetched leads to the failing `read` of
`timeout_callback` (`DispatchStale`). Exit status and event masks are left out.

`UartDaemon` shows that the only program in the repository that uses the loop keeps
this contract. Each of its actions is written as a call of EpollLoop's interface, or
leaves the loop alone, so a call that the contract forbids could not be made and the
daemon would be stuck there, which `KillEndsLoop` and `Heartbeat` would show; the
invariant of the loop is proved of the daemon with the same lemmas. `uart_setup`
(termios) and the hex dump are not modelled; a failing `uart_setup` is the assertion
that aborts.

### Spawn

Each caller has one child: none, in vfork, running, zombie, reaped. `pending` is the
one bit of SIGCHLD. The handler runs on any thread that is not suspended in vfork and
blocks in `wait` while all children run. EINTR in `waitpid` is a retry and changes
nothing. Several callers generalise the program, in which only the DHCP tool spawns.

### HashTable

The cells, `count`, the size and the offset into the table of primes are those of
`struct hash_table_t`. The hash function is a variable that Init chooses, so one run
covers every function from the keys to `HashValues`, collisions and wrap-around
included. `find_cell` is the first free or equal cell from the hashed position on;
growing (`MoveOld`, one old cell per step) and the rehash after a removal (`Rehash`,
one cell per step) are loops of steps, so that they can fail to end or lose an entry.
`hash_table_for_each` calls its callback once per cell it meets and repeats a cell
that the callback emptied; the callback may update or remove its own entry, as the
comment at `hash.c:426-431` allows. It does so at most once per call in the model; the
comment also allows it to remove its key and put it back, which brings back a key that
has been seen and is left out. Between calls the table refines `AssocMap`, whose
`reply` makes results visible. The two primes 3 and 7 stand for the table of primes.

### RefBase, ObjThread

A pointer (sp or wp) is a process, since one pointer is used by one thread at a time,
and every atomic operation on a count is a step. `lifetime` is the normal or the
extended one. The raw pointer that `new` returned may be kept and turned into sps and
wps any number of times, beside any other pointers; the caller's duty is that another
pointer keeps the object meanwhile (`RawInUse`, `MayDrop`). So the two atomic steps of a
first `incStrong` race with the fix-up of a promotion, and `raced` records that the
fix-up came between them. The hook `onIncStrongAttempted` may refuse. `deletes` counts
deletions of the object and of its `weakref_impl`.

In ObjThread the object has a set of holders instead of a count. Sections under
`mLock` are one step, except `run()`, which creates the thread while it holds the
lock; `Condition::wait` is a release, a wake-up (possibly spurious) and the renewed
test. Creating the thread may fail for every caller, also for one that holds no
reference, as in `(new T)->run()`; the unlock at the end of that `run()` is the step of
`unlockFailed`, with the object alive or not (`LeftBehind`).

### SocketListener

The listener thread builds its set (`BuildSet`), selects, reads the control pipe,
accepts, makes its list of pending clients and takes them one by one; callers do the
same with the list of `sendBroadcast` or `runOnEachSocket`. A section under
`mClientsLock`, an `incRef` or a `decRef` is one step. `mListen` is chosen in Init:
FALSE is the netlink socket of NetlinkManager, with one client that is never
released. Descriptors are numbers that are given away again, some are taken by other
parts of the program, and `select` fails when one of its set has been closed.
`stopListener` may be called at any moment and takes no lock: it writes to the pipe,
joins the listener thread (`Joined`), and deletes and erases the clients one by one
(`DeleteClient`, `EraseClient`), whoever has them on a list; `killed` records them. What
a thread does with a deleted client is undefined: it finds the memory as it was and goes
on, or the process dies (`Crash`).

### Connection, TcpServer, TcpEpoll

A message is the number of its bytes. `heap` maps addresses to live connections,
`file` descriptors to what is open, `inbox` and `outbox` are the socket buffers.
`clean_connection` is the chain of else-ifs it is in the code: a connection with a
host string has its memory freed and its socket left open (`Releases`). Peers send,
read, shut down and reset at any moment, and need not read. `sock_write_bytes` spins
while the buffer is full, and for a peer that has reset it calls `error`, which is
`abort` (`sockets.c:270`, `log_util.h:55`): the whole process ends, with pc "aborted"
(`SendAborts`).

In TcpServer the accepting thread and the client threads interleave; `thread_create`
retries only if an earlier call left EAGAIN in `errno`, as `pthread_create` does not
set it, and after the last attempt returns as if it had succeeded. A signal may
interrupt a client's `select`, and `signalled` records it.

TcpEpoll keeps the array of events and the loop index `i` as they are, since the loop
that prints a message uses `i` too: after a message of n bytes dispatching goes on at
n + 1. Data is a union, so the lower half of an address is taken for a descriptor and
addresses in `Negative` are never read. An event whose data is the address of a freed
connection is dispatched like any other: reading or recycling it is `UseFreed`, after
which the behaviour is undefined (pc "wild"). `accept` aborts when no descriptor is left
and when the peer at the head of the queue has reset. `passed` is a history variable:
the descriptors of which the loop has passed over something since their last edge.

## Runs

| Run | Instance | Distinct states | Shows |
|---|---|---|---|
| kfifo | Size 2, 2 laps, requests up to 3, 2 byte values | 79,520 | no shared byte, ring invariant, refinement of the queue |
| kfifo_no_lock | Size 2, requests up to 2 | violation | bytes lost when `kfifo_get` zeroes the indices |
| dhcp | 2 servers, 1 duplicate, 1 foreign reply, xid wraps | 947,204 | ACKed address is leased, back-off schedule, termination |
| epoll | 4 numbers, 3 in the table, 2 addresses, batches of 2 | 321,312 | no dangling pointer, no leak, timers live, quitting ends the loop and frees everything |
| uart_daemon | 4 numbers, batches of 3, 2-byte message | 34,032 | SIGTERM ends the loop, heartbeat after unplugging, writes go to the line or nowhere |
| spawn | 3 threads, 2 exit codes, 1 signal | 115,055 | no zombie, calls return |
| hash | 3 keys, 2 values, 27 hash functions, 3 cells growing to 7 | 190,017 | the table is a map, probes and calls end, `for_each` misses nothing |
| refbase | 3 pointers, both lifetimes | 119,769 | exact counts but for the first-incStrong race, nothing dangles, late promotions fail, the repository's assertions, everything is reclaimed |
| objthread | 3 callers, 2 threads created | 21,658 | the one use after deletion is a failed `(new T)->run()`, one loop at a time, no self-wait, waits end and not early |
| listener | 2 connections or a netlink socket, 1 caller, 2 descriptors | 93,284 | exact references, only the stop deletes a client in use, sockets stay apart, data is read, the stop returns |
| tcp_server | 2 peers, 2 addresses, up to 3 descriptors, 2 attempts | 107,930 | own connection, every byte counted, clients given up and the process aborted only for cause, everyone accepted, threads end |
| tcp_epoll | 2 peers, 2 addresses (one negative), up to 3 descriptors, batches of 3 | 286,559 | every byte counted, events of a live peer reach its connection, only what the loop passes over is forgotten, nothing dropped unread |

Type correctness is proved for Kfifo, DhcpClient, EpollLoop and Spawn as a conjunct of
the inductive invariant; in the other modules it is a conjunct of the invariant that a
run checks and a theorem states (`TableInv`, `CountsInv`, `ThreadInv`, `ClientsInv`,
`ServerInv`, `EpollServerInv`).

Bounds. With Size 2 and two laps both indices wrap, the ring fills, and every
request size below, at and above Size occurs. In dhcp the first xid is the largest
one, so the increment wraps; two servers are enough for a late OFFER of one to meet
the ACK of the other; the time-outs 1 and 2 give two transmissions per state. In
epoll a callback acts while another descriptor's event is pending, numbers and
addresses are reused, the heap can be full, and one number lies beyond the table;
three entries at once occur in uart_daemon, whose batches have room for all three
descriptors, as 10 events do in the code. Three callers in spawn allow one signal for
two children while a third still runs. In hash two entries fill the small table, the
third makes it grow, and the hash values 4, 5 and 6 fall on every cell of 3 and on the
last cells of 7, so that chains of probes wrap. Three pointers in refbase let two
promotions race each other and the release of the last sp. In objthread two threads
allow a restart beside a waiter of the first. In listener one client can be read while
another is released and its number given to a new one. In the TCP runs a message is
longer than the buffer or not, an address is given out twice, and descriptors taken
by other parts of the program let accept fail. In tcp_epoll freed memory is used
after a reset; to use it after an orderly shutdown takes more events in a batch than the
instance has, which the theorem `EventsOfOwnPeer` covers.

CHECK_DEADLOCK is off where a system may really stop: the client has finished, the
loop waits for events that never come or has returned, all calls have returned, all
peers are gone.

Fairness. DHCP: the client thread goes on and a poll with nothing to read times out; the link may lose
everything, and duplicates and foreign packets are finite, since each packet restarts
the wait. EpollLoop: callbacks return, events need not come. UartDaemon: also clocks
tick and the tty driver drains; without the last assumption `uart_write` spins on
EAGAIN and no signal is handled. Spawn: threads go on
and children end; nobody need call. HashTable, RefBase: an operation that has begun
goes on. ObjThread: threads that are not blocked are scheduled, and `threadLoop()`
returns. SocketListener: the listener thread, a caller and a stop that have begun go on;
nobody need connect, send or stop. TcpServer: every thread is scheduled; no signal,
connection or message need come, and peers need not read: `ThreadEnds` excepts exactly
the thread that spins in `sock_write_bytes` for ever (`Spins`). All is weak fairness of the code's own steps; Kfifo, KfifoCalls and
TcpEpoll state none: a kfifo call waits for nobody, and the epoll server can miss an
edge for ever (see below).

## Findings

`kfifo_get` tests for empty and zeroes both indices under a lock that compiles to
nothing; a put in between is lost (run kfifo_no_lock).

Other disagreements between the code and its comments came up while modelling. They
are behaviours the models have, not runs of their own:

* `dhcp_init_ifc` decodes into `info` before it validates, so "configuring with
  offered parameters" may use a reply that was meant for another host.
* `spawn_and_wait` returns -1 for a program that ran if the SIGCHLD handler's
  `wait()` is first, where `fork_util.c:20` promises the program's return value.
* A callback of `hash_table_for_each` that removes its own entry can be called twice
  for another one, which the rehash moves from cell 0 to the end of the array.
* A `run()` that overtakes a waiter woken by the exit withdraws the request to exit,
  and the waiter waits for the new thread; `ExitWaitReturns` therefore speaks of a
  request that stays.
* `Thread.cpp:134-135` documents `(new T)->run()`. When its thread cannot be created,
  `mHoldSelf.clear()` deletes the object, as `Thread.cpp:93` warns, and the Autolock of
  `run()` then unlocks the mutex of the deleted object.
  `OnlyFailedRunTouchesDeleted` says that this always happens then, and nothing else of
  the kind.
* `SocketClient.h:65-68` says that clients are released with `decRef`; `stopListener`
  deletes them, also those that a broadcast has on its list (`FreedOnlyByStop` says that
  only it does). A descriptor reported by `select` and then reused makes
  `onDataAvailable` run for a client that sent nothing.
* After `pthread_create` has failed the connection stays open with nobody to handle
  it, and no connection that has a host string ever has its socket closed: both TCP
  servers run out of descriptors.
* A peer that resets between its message and the answer makes both TCP servers abort
  (`sockets.c:270`, `log_util.h:55`), and with them every other client;
  `signal_handler.c:253` handles SIGPIPE and says "don't exit when socket closeed".
* In the epoll server a recycled connection's socket stays in the set with the freed
  address as its data, and a later event of it uses freed memory (`OwnEvents` says that
  its peer has gone); the shared loop index skips and repeats events; and edge-triggered
  accepting leaves the second of two simultaneous connections waiting for a third
  (`NothingForgotten` says that nothing is forgotten otherwise).
* A promotion between the two atomic steps of a first `incStrong` from a raw pointer
  takes the initial value off twice (`RefBase.cpp:470-471`, 519). It needs a wp made
  before the first sp while the raw pointer is kept. The strong count is then too small
  by the initial value, promotions are refused, and an object with the normal lifetime is
  never deleted; nothing is deleted too early.

## Proofs

All are safety results for every value of the constants, under the ASSUMEs of the
modules and the hypotheses named here. Every invariant and every action property that
a passing run checks, except `NothingForgotten`, and the refinements (Kfifo of ByteQueue,
HashTable of AssocMap), are theorems; what the runs add is liveness, and the mutants. An inductive invariant was checked with TLC on the instance of the
component's run before it was proved. Each proof has one lemma per action.

* **Kfifo** (`KfifoProofs`): `Spec => [](TypeOK /\ RingInv)`, `Spec => []NoDataRace`,
  `Spec => QueueSpec`. RingInv is inductive: besides `in - out <= Size` it says how far
  the writer's pending slots reach beyond `in` and the reader's beyond `out`; the bare
  bound is not inductive because a put computes its room once and commits later, while
  the reader moves `out`. The refinement maps the queue to the bytes between `out` and
  `in`. Facts on remainders are lemmas at the start. Assumed: Size is a power of two,
  the index range is at least two laps.
* **DHCP** (`DhcpProofs`): `TypeOK`, `AckedLease`, `Backoff`. For the lease the
  strengthening says every ACK for this client on the link or in the socket is backed
  by a lease. For the schedule it is `Schedule`: before a transmission the time-out is
  the initial one doubled once per transmission so far, while waiting once less, and it
  never reaches twice the largest, which is what makes giving up as late as claimed.
  Assumed: foreign replies are not well-formed replies to this client. `BacksOff` has
  the hypothesis `PowersOfTwo`, the defining equations of powers of 2: the backends
  know them for literals only.
* **Epoll loop and UART daemon** (`EpollProofs`): type correctness, `DispatchRight`,
  `NothingLeaked`, `TimersKeepGoing`. IndInv adds that a descriptor has at most one
  event in a batch and none while its callback runs (so removing it leaves no dangling
  pointer), that what is listed is open and in range, that the signalfd stays listed
  until the loop stops, and that a timer that is not switched on has an expiration in
  the batch that nobody has read (so the failing read is always of a timer that is
  switched on again). Assumed: `RemovesOwn`. `DaemonInvariance` proves the same
  invariant of the daemon, and `WritesStayOnUart` that the number the timer writes through is the UART's or closed.
  The strengthening is `UartHeld` (`g_uart_data.fd` is an ordinary file or closed, never
  a timer or the signalfd, and there is no timer before it is set) and `Stages` (how far
  main and the callbacks have come).
* **Spawning** (`UtilityProofs`): `NoZombieLeft` for any number of threads; SpawnInd relates a thread's place to its child's state.
* **Hash table** (`UtilityProofs`): `TableInv`, `EachSeesAll`, and `ImplementsMap`, for
  every hash function and every increasing sequence of sizes. That probes find their
  entry is not inductive, because it fails during a removal. `Repair` says how: there
  is one hole, all cells from it to the loop's cell are occupied, and it lies in the
  way only of entries that the loop has not come to (`Hole`). `Unique` (a key is in one
  cell, of the new or of the old array), `Reached` (no probe is cut off otherwise) and
  `Counting` make a free cell exist and `find_cell` find the one cell it must.
  `EachSeesAll` needs `Behind`: the repair of a callback's removal comes to an empty
  cell before it has gone around to the callback's cell, so it moves no entry from a cell
  not yet visited to one already visited. The refinement maps the
  entries of the table, and of the part of the old array not yet moved, to the map;
  lemmas give the set of entries after each action.
* **RefBase** (`RefBaseProofs`): `CountsInv` (exact counts, the repository's
  assertions, no second deletion), `NothingDangles`, `PromotionFailsLate`, with the raw
  pointer used at any time; after the race (`raced`) the strong count lacks exactly the
  initial value. The strengthening says that a pointer being copied or promoted stays
  what it is (`Sources`), that something keeps the object while the raw pointer is used
  (`RawSafe`), that whoever gives back the last weak reference is alone and that there is
  one first `incStrong` (`Alones`), what a count that was read says of the present one
  (`Reads`), and that one pointer deletes the object, after the last strong reference
  (`Deleting`). Assumed: finitely many pointers, fewer than `INITIAL_STRONG_VALUE`.
* **ObjThread** (`ObjThreadProofs`): `ThreadInv`, `ReturnsAfterExit`, and
  `OnlyFailedRunTouchesDeleted`, without a hypothesis on who may fail. The strengthening says who holds `mLock` across steps
  (`LockHeld`), that a running loop is that of `mThread` (`LoopOwned`), that
  wherever somebody relies on the object somebody holds it, but for the failed `run()` of
  a caller without a reference (`Kept`, `UnlockSafe`), and that such a caller is the only
  one who knows the object until then (`RawAlone`).
* **SocketListener** (`SocketListenerProofs`): `ClientsInv` and
  `FreedOnlyByStop`, with the stop at any moment. `Refs` counts the references of a client as its place in the
  list plus the threads that use it plus those that took it off the list and have not
  given that reference back; `Lists`, `Fresh`, `Ended` and `Control` say when a thread
  has clients on its list, that a connection not yet accepted has no client, and what the
  stop has deleted and left behind at each of its stages. Assumed:
  finitely many callers.
* **TCP servers** (`TcpProofs`): `ServerInv`, `DiesWithPeer` (with the abort for a peer
  that has reset), `EpollServerInv`, `OwnEvents`, `KeepsUntilRead`. `Conn`, shared by both, says that a live connection has an open
  socket of its own and a host string (`Sockets`), that a peer in the queue has no
  socket yet (`Waiting`), and that the bytes read and those in the socket buffer add up to
  those sent unless the peer has reset (`Bytes`). `Owners` gives each client thread its
  connection; `Index` bounds the loop index that two loops of the epoll server share.
  `OwnEvents` rests on `Registered`: the data of a socket in the set is the connection
  that has this socket, or its peer has gone, and an event carries the data of its
  socket.

Only model-checked: liveness (`Terminates`, `QuitStops`,
`KillEndsLoop`, `Heartbeat`, `CallReturns`, HashTable's `CallsReturn`, `Reclaimed`, `EntersThreadLoop`,
`ExitWaitReturns`, `DataIsRead`, `StopReturns`, `EveryoneAccepted`, `ThreadEnds`),
which needs fairness and ENABLED, and `NothingForgotten`.

## Plan

1. `NothingForgotten` as a theorem.
2. The safety halves of the liveness properties: that a call under way always has a
   step it can take (no deadlock), and measures that its loops decrease.
3. The Internet checksum of `packet.c` against its definition, with the case of a sum
   of 0 that the receiver maps and the sender does not.

## Not modelled

Third-party trees: `src/bt`, `src/http`, `src/madplay`, `src/mbedtls`, `src/netlink`,
`src/tinyalsa`, `src/wpa_supplicant_8`, cJSON and the digests make up nearly all of
the lines under `src/` and are other projects' logic, copied in. Of the repository's
own code: the TCP client (one sequential connection with a timeout), the driver table
(register, deregister and look-up from one thread), UDP and socket helpers, the
wrappers of threads, mutexes and semaphores; device, framebuffer, ALSA and input event
I/O and the command-line tools (no state beyond the kernel's); TLS examples (straight
calls into OpenSSL); formatting, logging, base64 and file helpers; parsing of netlink
events; branches of the signal handler that only exit. `kfifo_alloc`, `kfifo_free`
and `hash_table_destroy` allocate and free; `kfifo_len` only reads. `dhcp_main`
returns before it calls `do_dhcp`; the model starts at `do_dhcp`.

Hazards seen and left without a property: `kfifo_len` reads two indices one after the
other; the DHCP socket stays open on some error paths; a timer func that removes its
own timer (`timeout.c:26`) and a timer that gets descriptor 0 (`timeout.c:62`), neither
of which the repository does; a listener destroyed before it was started closes an
uninitialised descriptor (`SocketListener.cpp:63`); `receive_packet` copies as many bytes
as the UDP header of a packet says, without a check (`packet.c:286`, 305), where the model
takes packets whose length is right.
