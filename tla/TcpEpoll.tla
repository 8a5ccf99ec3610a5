---------------------------- MODULE TcpEpoll ----------------------------
(***************************************************************************)
(* src/socket/sock_tcp_server_epoll.c: one thread, an edge-triggered epoll *)
(* set, and connections whose addresses are the data of their events.  The *)
(* array events and the loop index i are modelled as they are, because the *)
(* loop that prints a message uses i as well.  EAGAIN of recv changes      *)
(* nothing but i.                                                          *)
(***************************************************************************)
EXTENDS Connection, FiniteSets

CONSTANTS MAX_EPOLL_FDS,
          Negative         \* addresses whose lower 32 bits are not positive as an int

ASSUME EventsAssumption  == MAX_EPOLL_FDS \in Nat \ {0}
ASSUME NegativeAddresses == Negative \subseteq Addr /\ "listen" \notin Addr

VARIABLES
    events,     \* the array: data of each event, an address, "listen" or None, and
                \* the descriptor it is about, which the program does not see
    nready_fds,
    i,
    interest,   \* the epoll set: descriptor -> its data, or None
    ready,      \* epoll's ready list: descriptors with an edge not yet reported
    passed      \* the descriptors of which the loop has passed over something since their
                \* last edge (history)

local     == <<pc, events, nready_fds, i, con>>
kernel    == <<interest, ready, backlog>>
EpollVars == <<objects, network, local, kernel, passed>>

Data == Addr \cup {"listen", None}

Slot == 0 .. MAX_EPOLL_FDS - 1

\* pc is "send" inside the dispatch of an event, while its message is answered.
EpollTypeOK ==
    /\ ConnectionTypeOK
    /\ pc \in {"wait", "dispatch", "send", "aborted", "wild"}
    /\ events \in [Slot -> [fd : Fd \cup {None}, data : Data]]
    /\ nready_fds \in 0 .. MAX_EPOLL_FDS
    /\ i \in 0 .. MAX_EPOLL_FDS + BUFSIZE + 1
    /\ con \in Addr \cup {None}
    /\ backlog \in Seq(Link) /\ ready \in Seq(Fd)
    /\ interest \in [Fd -> Data] /\ passed \subseteq Fd \cup {None}

\* The thread up to its loop: the listening socket is open and in the set.
\* Other parts of the program may have descriptors open.
EpollInit ==
    /\ heap = [a \in Addr |-> None]
    /\ \E others \in SUBSET Fd :
          file = [fd \in Fd |-> IF fd \in others THEN "other"
                                ELSE IF fd = Least(Fd \ others) THEN "listen" ELSE None]
    /\ \E fd \in Fd : file[fd] = "listen"
    /\ peer = [l \in Link |-> "none"]
    /\ sent = [l \in Link |-> 0] /\ inbox = [l \in Link |-> 0] /\ outbox = [l \in Link |-> 0]
    /\ pc = "wait" /\ nready_fds = 0 /\ i = 0 /\ con = None
    /\ events = [s \in Slot |-> [fd |-> None, data |-> None]]
    /\ backlog = <<>> /\ ready = <<>> /\ passed = {}
    /\ interest = [fd \in Fd |-> IF file[fd] = "listen" THEN "listen" ELSE None]

--------------------------------------------------------------------------
(* epoll *)

ListenFd == CHOOSE fd \in Fd : file[fd] = "listen"
FdOf(l)  == {fd \in Fd : file[fd] = l}

InReady(fd) == \E k \in DOMAIN ready : ready[k] = fd

\* An edge on fd, unless one is waiting to be reported already.
Edge(fd) == IF InReady(fd) THEN ready ELSE Append(ready, fd)

EdgeOn(l) ==
    ready' = IF \E fd \in FdOf(l) : interest[fd] # None
               THEN Edge(CHOOSE fd \in FdOf(l) : TRUE) ELSE ready

StillReady(fd) == IF file[fd] = "listen" THEN backlog # <<>> ELSE Readable(file[fd])

\* The places in the list of what is ready still, and, as the only element, the
\* enumeration of them in order.
Kept == {k \in DOMAIN ready : StillReady(ready[k])}

KeptInOrder == {f \in [1 .. Cardinality(Kept) -> Kept] : \A j, k \in DOMAIN f : j < k => f[j] < f[k]}

\* What is ready still is reported, as far as there is room, and leaves the list.
epoll_wait ==
    /\ pc = "wait"
    /\ \E f \in KeptInOrder :
         LET now == [j \in DOMAIN f |-> ready[f[j]]]
             n   == IF Len(now) < MAX_EPOLL_FDS THEN Len(now) ELSE MAX_EPOLL_FDS
         IN  /\ n > 0
             /\ events' = [s \in Slot |->
                  IF s < n THEN [fd |-> now[s + 1], data |-> interest[now[s + 1]]] ELSE events[s]]
             /\ nready_fds' = n
             /\ ready' = SubSeq(now, n + 1, Len(now))
    /\ pc' = "dispatch" /\ i' = 0
    /\ UNCHANGED <<objects, network, con, interest, backlog, passed>>

--------------------------------------------------------------------------
(* The dispatch of events[i] *)

\* Mutant of NextEvent: one event is left out.
NextEventSkips(j) ==
    /\ i' = j + 2
    /\ pc' = IF j + 2 < nready_fds THEN "dispatch" ELSE "wait"

\* i++ and the test of the loop, from the value j of the index.
NextEvent(j) ==
    /\ i' = j + 1
    /\ pc' = IF j + 1 < nready_fds THEN "dispatch" ELSE "wait"

Dispatching(d) == pc = "dispatch" /\ events[i].data = d

Passes(S) == passed' = passed \cup S

\* assert_return(sockfd >= 0) aborts when accept fails: there is nothing to
\* accept, no descriptor, or a peer that reset before it was accepted.
AcceptAborts ==
    /\ Dispatching("listen")
    /\ backlog = <<>> \/ FreeFds = {} \/ peer[Head(backlog)] = "reset"
    /\ pc' = "aborted"
    /\ UNCHANGED <<objects, network, kernel, events, nready_fds, i, con, passed>>

\* One connection is accepted, whatever the edge stood for.  A socket that is
\* readable when it is added is reported at once.
epoll_get_connection ==
    /\ Dispatching("listen") /\ backlog # <<>> /\ FreeFds # {}
    /\ LET fd == Least(FreeFds) l == Head(backlog) IN
         \E a \in FreeAddrs :
           /\ heap' = [heap EXCEPT ![a] =
                [create_connection EXCEPT !.sock = fd, !.sin = TRUE, !.host = TRUE]]
           /\ file' = [file EXCEPT ![fd] = l]
           /\ interest' = [interest EXCEPT ![fd] = a]
           /\ con' = a
           /\ ready' = IF Readable(l) THEN Append(ready, fd) ELSE ready
    /\ backlog' = Tail(backlog)
    /\ Passes(IF Tail(backlog) # <<>> THEN {ListenFd} ELSE {})
    /\ NextEvent(i)
    /\ UNCHANGED <<network, events, nready_fds>>

\* EPOLL_CTL_ADD fails, and clean_connection frees the connection again.
AddFails ==
    /\ Dispatching("listen") /\ backlog # <<>> /\ FreeFds # {}
    /\ file' = [file EXCEPT ![Least(FreeFds)] = Head(backlog)]
    /\ backlog' = Tail(backlog)
    /\ con' = None
    /\ Passes(IF Tail(backlog) # <<>> THEN {ListenFd} ELSE {})
    /\ NextEvent(i)
    /\ UNCHANGED <<heap, network, events, nready_fds, interest, ready>>

\* The lower half of the pointer is read as a descriptor and must be positive.
SkipEvent ==
    /\ pc = "dispatch" /\ events[i].data \in Negative \cup {None}
    /\ Passes(IF events[i].data = None THEN {} ELSE {events[i].fd})
    /\ NextEvent(i)
    /\ UNCHANGED <<objects, network, kernel, events, nready_fds, con>>

\* What a message of n bytes from l leaves behind: the rest of what l has sent,
\* and the events that the index, now n, has jumped over.
LeftAfter(l, n) ==
    {events[s].fd : s \in {r \in Slot : i < r /\ r <= n /\ r < nready_fds}}
        \cup {fd \in FdOf(l) : inbox[l] > n \/ Gone(l)}

\* Mutant of ReceiveData: the bytes of the last message only are counted.
CountLast(a) ==
    /\ Dispatching(a) /\ a \notin Negative /\ heap[a] # None /\ con' = a
    /\ LET l == LinkOf(a) n == Received(l) IN
         /\ n > 0
         /\ heap' = [heap EXCEPT ![a].read_statistics = n]
         /\ inbox' = [inbox EXCEPT ![l] = @ - n]
         /\ i' = n /\ pc' = "send" /\ Passes(LeftAfter(l, n))
    /\ UNCHANGED <<file, peer, sent, outbox, kernel, events, nready_fds>>

\* A message, or EAGAIN, which a spurious or repeated event gives.
ReceiveData(a) ==
    /\ Dispatching(a) /\ a \notin Negative /\ heap[a] # None
    /\ con' = a
    /\ LET l == LinkOf(a) n == Received(l) IN
         \/ /\ n > 0
            /\ heap' = [heap EXCEPT ![a].read_statistics = @ + n]
            /\ inbox' = [inbox EXCEPT ![l] = @ - n]
            /\ i' = n /\ pc' = "send" /\ Passes(LeftAfter(l, n))
         \/ /\ ~Readable(l)
            /\ NextEvent(i) /\ UNCHANGED <<heap, inbox, passed>>
    /\ UNCHANGED <<file, peer, sent, outbox, kernel, events, nready_fds>>

\* Mutant of StreamOver: a message shorter than the buffer is taken for the end.
StreamOverShort(l) == Readable(l) /\ Received(l) <= BUFSIZE

StreamOver(l) == Readable(l) /\ Received(l) <= 0

\* The end of the stream or an error: the connection is recycled.
Recycle(a) ==
    /\ Dispatching(a) /\ a \notin Negative /\ heap[a] # None
    /\ StreamOver(LinkOf(a))
    /\ clean_connection(a)
    /\ con' = None
    /\ events' = [events EXCEPT ![i].data = None]
    /\ NextEvent(i)
    /\ UNCHANGED <<network, kernel, nready_fds, passed>>

\* Nobody checks that the connection of an event is still allocated: recv gets
\* whatever the freed memory holds as a socket, and what follows is undefined.
UseFreed(a) ==
    /\ Dispatching(a) /\ a \notin Negative /\ heap[a] = None
    /\ pc' = "wild" /\ con' = a
    /\ UNCHANGED <<objects, network, kernel, events, nready_fds, i, passed>>

\* The answer.
EpollReply ==
    /\ pc = "send"
    /\ \/ sock_write_bytes(LinkOf(con)) /\ NextEvent(i)
       \/ SendAborts(LinkOf(con)) /\ UNCHANGED i
    /\ UNCHANGED <<objects, peer, sent, inbox, kernel, events, nready_fds, con, passed>>

--------------------------------------------------------------------------
EpollPeerConnects(l) ==
    /\ peer[l] = "none"
    /\ peer' = [peer EXCEPT ![l] = "up"]
    /\ backlog' = Append(backlog, l)
    /\ ready' = Edge(ListenFd)
    /\ passed' = passed \ {ListenFd}
    /\ UNCHANGED <<sent, inbox, outbox>>

\* Every arrival on a registered socket is an edge.
Arrival(l) ==
    /\ PeerSends(l) \/ PeerShuts(l) \/ PeerResets(l)
    /\ EdgeOn(l)
    /\ passed' = passed \ FdOf(l)

EpollPeer(l) ==
    /\ pc \notin {"aborted", "wild"}
    /\ \/ EpollPeerConnects(l)
       \/ Arrival(l) /\ UNCHANGED backlog
       \/ PeerReads(l) /\ UNCHANGED <<ready, backlog, passed>>
    /\ UNCHANGED <<objects, local, interest>>

Server ==
    \/ epoll_wait \/ AcceptAborts \/ epoll_get_connection \/ AddFails \/ SkipEvent \/ EpollReply
    \/ \E a \in Addr : ReceiveData(a) \/ Recycle(a) \/ UseFreed(a)

EpollNext == Server \/ \E l \in Link : EpollPeer(l)

EpollSpec == EpollInit /\ [][EpollNext]_EpollVars

--------------------------------------------------------------------------
(* What the server says it has received is what this peer has sent and is  *)
(* no longer on its way, even though events are skipped and repeated       *)
(* (sock_tcp_server_epoll.c:147-156).                                      *)
EpollCountsBytes ==
    \A a \in Addr : heap[a] # None /\ peer[LinkOf(a)] # "reset" =>
        heap[a].read_statistics + inbox[LinkOf(a)] = sent[LinkOf(a)]

\* The data of fd is an allocated connection, and it has this socket.
OwnSocket(fd) == heap[interest[fd]] # None /\ heap[interest[fd]].sock = fd

(* An event of a peer that is there leads to the connection of that peer,  *)
(* allocated and with its socket, although recycled connections leave      *)
(* their sockets in the set and their addresses are given away again.  So  *)
(* freed memory is used for an event of a socket whose peer has gone       *)
(* (sock_tcp_server_epoll.c:140-147, 163-181).                             *)
OwnEvents ==
    /\ \A fd \in Fd : interest[fd] \in Addr /\ ~Gone(file[fd]) => OwnSocket(fd)
    /\ pc = "wild" => Gone(file[events[i].fd])

\* The server is to attend to fd: the listening socket, or that of a connection.
Awaited(fd) ==
    \/ interest[fd] = "listen"
    \/ interest[fd] \in Addr /\ OwnSocket(fd)

\* The events that epoll_wait has returned and the loop is still to come to.
Ahead ==
    LET first == IF pc = "dispatch" THEN i ELSE IF pc = "send" THEN i + 1 ELSE nready_fds
    IN  {events[s].fd : s \in {r \in Slot : first <= r /\ r < nready_fds}}

(* Nothing that the server should attend to is forgotten, unless the loop  *)
(* has passed over it since its last edge: what is ready has an edge in    *)
(* the list or an event ahead.  The loop passes over the connections       *)
(* behind the first in the backlog, the data behind the first buffer, the  *)
(* events its index jumps over and those at negative addresses             *)
(* (sock_tcp_server_epoll.c:112-162).                                      *)
NothingForgotten ==
    pc \in {"wait", "dispatch", "send"} =>
        \A fd \in Fd \ passed : Awaited(fd) /\ StillReady(fd) => InReady(fd) \/ fd \in Ahead

(* The counts stay right, and the index i inside the bounds it can reach.  *)
EpollServerInv == EpollTypeOK /\ EpollCountsBytes

(* A connection is recycled only after its peer has gone and everything it *)
(* sent before an orderly shutdown has been read (sock_tcp_server_epoll.c  *)
(* :163-181).                                                              *)
KeepsUntilRead ==
    [][\A a \in Addr : heap[a] # None /\ heap'[a] = None =>
          Gone(LinkOf(a)) /\ inbox[LinkOf(a)] = 0]_EpollVars
==========================================================================
