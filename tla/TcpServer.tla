---------------------------- MODULE TcpServer ----------------------------
(***************************************************************************)
(* src/socket/sock_tcp_server.c: one thread accepts, and hands every       *)
(* connection over to a thread of its own with thread_create of            *)
(* src/thread/threads.c.  A client thread is named by the address of the   *)
(* connection it was given.  A select that times out, and an EAGAIN of     *)
(* recv, change nothing and are not steps.                                 *)
(***************************************************************************)
EXTENDS Connection

CONSTANT MaxTries       \* attempts thread_create makes (10)

ASSUME TriesAssumption == MaxTries \in Nat \ {0}

VARIABLES
    errno,     \* of the accepting thread; pthread_create does not set it
    tries,     \* the loop index of thread_create
    thread,    \* address -> "none", or what the client thread does next
    signalled  \* the Links whose client thread was interrupted by a signal in select

acceptor == <<pc, con, errno, tries>>
vars == <<objects, network, acceptor, backlog, thread, signalled>>

Errno == {"0", "EAGAIN", "EMFILE"}

Init ==
    /\ ConnectionInit
    /\ pc = "setup" /\ con = None /\ errno = "0" /\ tries = 0
    /\ backlog = <<>>
    /\ thread = [a \in Addr |-> "none"] /\ signalled = {}

TypeOK ==
    /\ ConnectionTypeOK
    /\ pc \in {"setup", "accept", "create", "ended", "aborted"} /\ con \in Addr \cup {None}
    /\ errno \in Errno /\ tries \in 0 .. MaxTries - 1
    /\ backlog \in Seq(Link)
    /\ thread \in [Addr -> {"none", "start", "recv", "send"}] /\ signalled \subseteq Link

--------------------------------------------------------------------------
(* The accepting thread *)

\* When a call fails tcp_running stays SERVER_INITIALIZING, and the thread ends.
setup_tcp_listeners ==
    /\ pc = "setup"
    /\ \/ pc' = "accept" /\ FreeFds # {} /\ file' = [file EXCEPT ![Least(FreeFds)] = "listen"]
       \/ pc' = "ended" /\ UNCHANGED file
    /\ UNCHANGED <<heap, con, errno, tries, network, backlog, thread>>

\* Mutant of AcceptFails: the loop is left when accept fails.
AcceptFailsEnds ==
    /\ pc = "accept" /\ backlog # <<>> /\ peer[Head(backlog)] = "reset"
    /\ pc' = "ended" /\ con' = None /\ errno' = "EAGAIN" /\ backlog' = Tail(backlog)
    /\ UNCHANGED <<objects, network, tries, thread>>

\* accept finds no descriptor, or the peer has gone before it was accepted.
AcceptFails ==
    /\ pc = "accept" /\ con' = None
    /\ \/ FreeFds = {} /\ backlog # <<>> /\ errno' = "EMFILE" /\ UNCHANGED backlog
       \/ /\ backlog # <<>> /\ peer[Head(backlog)] = "reset"
          /\ errno' = "EAGAIN" /\ backlog' = Tail(backlog)
    /\ UNCHANGED <<objects, network, pc, tries, thread>>

get_connection ==
    /\ pc = "accept" /\ backlog # <<>> /\ FreeFds # {}
    /\ LET fd == Least(FreeFds) IN
         \E a \in FreeAddrs :
           /\ heap' = [heap EXCEPT ![a] =
                [create_connection EXCEPT !.sock = fd, !.sin = TRUE, !.host = TRUE]]
           /\ file' = [file EXCEPT ![fd] = Head(backlog)]
           /\ con' = a
    /\ backlog' = Tail(backlog)
    /\ pc' = "create" /\ tries' = 0
    /\ UNCHANGED <<network, errno, thread>>

\* Mutant of HandedOver: the accepting thread drops what it has handed over.
HandedOverClean == pc' = "accept" /\ tries' = 0 /\ clean_connection(con)

\* The result of thread_create is not looked at, and con is left as it is.
HandedOver == pc' = "accept" /\ tries' = 0 /\ UNCHANGED objects

thread_create ==
    /\ pc = "create"
    /\ thread' = [thread EXCEPT ![con] = "start"]
    /\ HandedOver
    /\ UNCHANGED <<network, con, errno, backlog>>

\* pthread_create fails: errno is what an earlier call left there.  After ten
\* attempts thread_create returns 0 as if there were a thread.
CreateFails ==
    /\ pc = "create"
    /\ IF errno = "EAGAIN" /\ tries + 1 < MaxTries
         THEN tries' = tries + 1 /\ UNCHANGED <<objects, pc>>
         ELSE HandedOver
    /\ UNCHANGED <<network, con, errno, backlog, thread>>

--------------------------------------------------------------------------
(* A client thread *)

SetRunning(a, r) == heap' = [heap EXCEPT ![a].running = r]

handle_connection(a) ==
    /\ thread[a] = "start"
    /\ SetRunning(a, "CLIENT_RUNNING")
    /\ thread' = [thread EXCEPT ![a] = "recv"]
    /\ UNCHANGED <<file, network, acceptor, backlog>>

Count(a, n) == heap' = [heap EXCEPT ![a].read_statistics = @ + n]

\* Mutant of StreamEnds: the end of the stream is taken for EAGAIN.
StreamEndsNot(a, l) == FALSE

\* Mutant of StreamEnds: a short message is taken for the end of the stream.
StreamEndsShort(a, l) ==
    /\ Received(l) <= BUFSIZE
    /\ SetRunning(a, "CLIENT_DYING")
    /\ UNCHANGED <<inbox, thread>>

StreamEnds(a, l) ==
    /\ Received(l) <= 0
    /\ SetRunning(a, "CLIENT_DYING")
    /\ UNCHANGED <<inbox, thread>>

handle_recv(a) ==
    /\ thread[a] = "recv" /\ heap[a].running = "CLIENT_RUNNING"
    /\ Readable(LinkOf(a))
    /\ LET l == LinkOf(a) n == Received(l) IN
         \/ /\ n > 0
            /\ Count(a, n)
            /\ inbox' = [inbox EXCEPT ![l] = @ - n]
            /\ thread' = [thread EXCEPT ![a] = "send"]
         \/ StreamEnds(a, l)
    /\ UNCHANGED <<file, peer, sent, outbox, acceptor, backlog>>

\* Only EAGAIN is forgiven: EINTR ends the connection.
SelectFails(a) ==
    /\ pc # "aborted" /\ thread[a] = "recv" /\ heap[a].running = "CLIENT_RUNNING"
    /\ SetRunning(a, "CLIENT_DYING")
    /\ signalled' = signalled \cup {LinkOf(a)}
    /\ UNCHANGED <<file, network, acceptor, backlog, thread>>

\* "data received".  sock_write_bytes does not come back with an error, so the
\* branch that lets only this client die is never taken.
Reply(a) ==
    /\ thread[a] = "send"
    /\ \/ /\ sock_write_bytes(LinkOf(a))
          /\ thread' = [thread EXCEPT ![a] = "recv"] /\ UNCHANGED pc
       \/ SendAborts(LinkOf(a)) /\ UNCHANGED thread
    /\ UNCHANGED <<objects, peer, sent, inbox, con, errno, tries, backlog>>

ClientEnds(a) ==
    /\ thread[a] = "recv" /\ heap[a].running = "CLIENT_DYING"
    /\ clean_connection(a)
    /\ thread' = [thread EXCEPT ![a] = "none"]
    /\ UNCHANGED <<network, acceptor, backlog>>

--------------------------------------------------------------------------
PeerConnects(l) ==
    /\ pc \notin {"setup", "ended"} /\ peer[l] = "none"
    /\ peer' = [peer EXCEPT ![l] = "up"]
    /\ backlog' = Append(backlog, l)
    /\ UNCHANGED <<sent, inbox, outbox>>

Peer(l) ==
    /\ pc # "aborted"
    /\ \/ PeerConnects(l)
       \/ (PeerSends(l) \/ PeerReads(l) \/ PeerShuts(l) \/ PeerResets(l)) /\ UNCHANGED backlog
    /\ UNCHANGED <<objects, acceptor, thread, signalled>>

Acceptor ==
    /\ setup_tcp_listeners \/ AcceptFails \/ get_connection \/ thread_create \/ CreateFails
    /\ UNCHANGED signalled

Client(a) ==
    /\ pc # "aborted"
    /\ handle_connection(a) \/ handle_recv(a) \/ Reply(a) \/ ClientEnds(a)
    /\ UNCHANGED signalled

Next == Acceptor \/ (\E a \in Addr : Client(a) \/ SelectFails(a)) \/ (\E l \in Link : Peer(l))

Spec == Init /\ [][Next]_vars

\* The scheduler runs every thread again and again; nothing is asked of the
\* peers, and no signal need come.
Fairness ==
    /\ WF_vars(Acceptor)
    /\ \A a \in Addr : WF_vars(Client(a))

LiveSpec == Spec /\ Fairness

--------------------------------------------------------------------------
Serving == {a \in Addr : thread[a] # "none"}

(* A client thread uses a connection that is allocated and whose socket is *)
(* its own, although the accepting thread keeps a pointer to it and has    *)
(* handed out the same address before (sock_tcp_server.c:155-174, 262-268).*)
OwnConnection ==
    /\ \A a \in Serving : heap[a] # None /\ LinkOf(a) \in Link
    /\ \A a, b \in Serving : a # b => LinkOf(a) # LinkOf(b)

(* The answer "data received" counts every byte the peer has sent and that *)
(* is no longer on its way, and no byte of another peer (sock_tcp_server.c *)
(* :110-119).                                                              *)
CountsEveryByte ==
    \A a \in Serving :
        LinkOf(a) \in Link /\ peer[LinkOf(a)] # "reset" =>
            heap[a].read_statistics + inbox[LinkOf(a)] = sent[LinkOf(a)]

(* Every client thread serves its own peer and counts that peer's bytes,   *)
(* whatever the accepting thread and the other threads do meanwhile.       *)
ServerInv == TypeOK /\ OwnConnection /\ CountsEveryByte

\* A peer that sent something, had it received, and reset before the answer.
ResetBeforeReply(a) == thread[a] = "send" /\ peer[LinkOf(a)] = "reset"

(* The ways in which a client that is being served is given up.  Alone: its *)
(* peer has gone and, after an orderly shutdown, everything it sent has     *)
(* been read, or a signal has interrupted its select (sock_tcp_server.c     *)
(* :110-147).  With all others: the answer to one peer that has reset       *)
(* aborts the process (sockets.c:270).                                      *)
DiesWithPeer ==
    [][\A a \in Serving : heap[a].running = "CLIENT_RUNNING" =>
          /\ heap'[a] # None /\ heap'[a].running = "CLIENT_DYING" =>
                (Gone(LinkOf(a)) /\ inbox[LinkOf(a)] = 0) \/ LinkOf(a) \in signalled'
          /\ pc' = "aborted" => \E b \in Serving : ResetBeforeReply(b)]_vars

(* A peer that waits to be accepted does not wait forever, whether threads *)
(* can be created or not, and whether peers read their answers or not,     *)
(* unless the descriptors run out, which no client thread gives back, or   *)
(* the process aborts because some peer reset before its answer            *)
(* (sock_tcp_server.c:70-83, 261-269; sockets.c:270).                      *)
EveryoneAccepted ==
    \A l \in Link : (\E i \in DOMAIN backlog : backlog[i] = l)
                    ~> \/ ~(\E i \in DOMAIN backlog : backlog[i] = l)
                       \/ FreeFds = {}
                       \/ pc = "aborted" /\ \E a \in Serving : ResetBeforeReply(a)

\* The thread of l tries to send, again and again, to a peer that does not read.
Spins(l) == \E a \in Serving : /\ thread[a] = "send" /\ LinkOf(a) = l
                              /\ peer[l] # "reset" /\ outbox[l] = Window

(* The thread of a peer that is gone comes to its end and frees the        *)
(* connection, unless it spins for ever in sock_write_bytes because the    *)
(* peer shut down its side only and does not read, or a peer that reset    *)
(* before its answer ends the process (sock_tcp_server.c:120-137, 167-172; *)
(* sockets.c:265-272).                                                     *)
ThreadEnds ==
    \A l \in Link : []<>~Spins(l) =>
        ((\E a \in Serving : LinkOf(a) = l /\ Gone(l))
         ~> \/ ~(\E a \in Serving : LinkOf(a) = l)
            \/ pc = "aborted" /\ \E a \in Serving : ResetBeforeReply(a))
==========================================================================
