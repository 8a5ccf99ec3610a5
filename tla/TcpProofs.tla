---------------------------- MODULE TcpProofs ----------------------------
(***************************************************************************)
(* Both TCP servers count the bytes of every peer right, and what makes    *)
(* them give up a client, abort, or use freed memory is bounded, for any   *)
(* number of peers, descriptors and addresses and any size of buffers and  *)
(* of the array of events.  What concerns the connections of Connection,   *)
(* whichever of the servers uses them, is proved once.                     *)
(***************************************************************************)
EXTENDS TcpServer, TcpEpoll, WellFoundedInduction, FiniteSetTheorems, SequenceTheorems, TLAPS

LiveAddrs == {a \in Addr : heap[a] # None}

\* A connection has a socket, which no other connection has, and a host name,
\* which keeps clean_connection from closing the socket.
Sockets ==
    /\ \A a \in LiveAddrs : heap[a].sock \in Fd /\ heap[a].host /\ LinkOf(a) \in Link
    /\ \A a, b \in LiveAddrs : heap[a].sock = heap[b].sock => a = b
    /\ \A f, g \in Fd : file[f] \in Link /\ file[f] = file[g] => f = g

\* What waits to be accepted has no descriptor yet and waits once.
Waiting ==
    /\ \A m \in 1 .. Len(backlog) :
          /\ peer[backlog[m]] # "none"
          /\ \A f \in Fd : file[f] # backlog[m]
          /\ peer[backlog[m]] # "reset" => inbox[backlog[m]] = sent[backlog[m]]
    /\ \A m, j \in 1 .. Len(backlog) : backlog[m] = backlog[j] => m = j

\* Bytes are not lost on the way, except by a reset.
Bytes ==
    /\ \A l \in Link : inbox[l] <= sent[l]
    /\ \A l \in Link : peer[l] = "reset" => inbox[l] = 0
    /\ \A l \in Link : peer[l] = "none" => sent[l] = 0 /\ \A f \in Fd : file[f] # l
    /\ \A a \in LiveAddrs : peer[LinkOf(a)] # "reset" =>
          heap[a].read_statistics + inbox[LinkOf(a)] = sent[LinkOf(a)]

\* What both servers keep of their connections.
Conn == ConnectionTypeOK /\ backlog \in Seq(Link) /\ Sockets /\ Waiting /\ Bytes

--------------------------------------------------------------------------
(* Lemmas on descriptors, on the queue of the kernel and on recv *)

LEMMA Consts ==
    /\ None \notin Link /\ None \notin Fd /\ None \notin Addr /\ None \notin connection_t
    /\ "listen" \notin Link /\ "other" \notin Link /\ None \notin {"listen", "other"}
    /\ BUFSIZE \in Nat /\ BUFSIZE > 0 /\ Window \in Nat /\ MaxSent \in Nat
    /\ MAX_EPOLL_FDS \in Nat \ {0}
BY DistinctNames, SizeAssumption, NullIsNoConnection, EventsAssumption

\* The kernel's choice, the lowest free descriptor, exists.
LEMMA LeastFree ==
    ASSUME FreeFds # {}
    PROVE  Least(FreeFds) \in Fd /\ file[Least(FreeFds)] = None
<1> DEFINE R == OpToRel(<, Nat)
<1>0. IsWellFoundedOn(R, Nat)
  BY NatLessThanWellFounded, Zenon
<1>1. \A x, y \in Nat : y < x => <<y, x>> \in R
  BY DEF OpToRel
<1> HIDE DEF R
<1>2. FreeFds \subseteq Nat
  BY FdAssumption DEF FreeFds
<1>3. \E x \in FreeFds : \A y \in FreeFds : ~(<<y, x>> \in R)
  BY <1>0, <1>2, WFMin
<1>4. PICK x \in FreeFds : \A y \in FreeFds : ~(<<y, x>> \in R)
  BY <1>3
<1>5. \A y \in FreeFds : x <= y
  <2> TAKE y \in FreeFds
  <2>1. ~(y < x)
    BY <1>1, <1>2, <1>4, Zenon
  <2> QED
    BY <1>2, <2>1
<1>6. Least(FreeFds) \in FreeFds
  BY <1>5 DEF Least
<1> QED
  BY <1>6 DEF FreeFds

LEMMA HeadOfBacklog ==
    ASSUME backlog \in Seq(Link), backlog # <<>>
    PROVE  /\ Len(backlog) \in Nat /\ 1 \in 1 .. Len(backlog)
           /\ Head(backlog) = backlog[1] /\ Head(backlog) \in Link
           /\ Tail(backlog) \in Seq(Link) /\ Len(Tail(backlog)) = Len(backlog) - 1
           /\ \A m \in 1 .. Len(Tail(backlog)) :
                 m + 1 \in 1 .. Len(backlog) /\ Tail(backlog)[m] = backlog[m + 1]
<1>1. Len(backlog) \in Nat \ {0}
  BY EmptySeq
<1>2. Head(backlog) = backlog[1]
  BY <1>1
<1> QED
  BY <1>1, <1>2, HeadTailProperties

\* A step that leaves the waiting connections alone, or takes the first one.
LEMMA WaitingTail ==
    ASSUME backlog \in Seq(Link), Waiting, backlog # <<>>, backlog' = Tail(backlog),
           UNCHANGED <<peer, sent, inbox>>,
           \A f \in Fd : file'[f] = file[f] \/ file'[f] = Head(backlog)
    PROVE  Waiting'
<1>2. \A m, j \in 1 .. Len(backlog') :
         /\ m + 1 \in 1 .. Len(backlog) /\ backlog'[m] = backlog[m + 1]
         /\ m + 1 # 1 /\ (m + 1 = j + 1 => m = j) /\ backlog'[m] # Head(backlog)
  <2>1. Len(backlog') \in Nat
    BY HeadOfBacklog
  <2> QED
    BY <2>1, HeadOfBacklog DEF Waiting
<1>3. \A m \in 1 .. Len(backlog') :
         /\ peer'[backlog'[m]] # "none"
         /\ \A f \in Fd : file'[f] # backlog'[m]
         /\ peer'[backlog'[m]] # "reset" => inbox'[backlog'[m]] = sent'[backlog'[m]]
  BY <1>2 DEF Waiting
<1>4. \A m, j \in 1 .. Len(backlog') : backlog'[m] = backlog'[j] => m = j
  BY <1>2 DEF Waiting
<1> QED
  BY <1>3, <1>4 DEF Waiting

\* What recv answers.
LEMMA RecvFacts ==
    ASSUME Conn, NEW l \in Link
    PROVE  /\ Received(l) > 0 => /\ peer[l] # "reset" /\ Received(l) \in 1 .. inbox[l]
           /\ Received(l) <= 0 /\ Readable(l) => Gone(l) /\ inbox[l] = 0
<1>1. inbox[l] \in 0 .. MaxSent
  BY DEF Conn, ConnectionTypeOK
<1> QED
  BY <1>1, Consts DEF Conn, Bytes, Received, Readable, Gone

--------------------------------------------------------------------------
(* The connections, in the steps both servers make *)

LEMMA InitConn ==
    ASSUME heap = [a \in Addr |-> None], file \in [Fd -> {"listen", "other", None}],
           peer = [l \in Link |-> "none"], backlog = <<>>,
           sent = [l \in Link |-> 0], inbox = [l \in Link |-> 0], outbox = [l \in Link |-> 0]
    PROVE  Conn
<1> USE Consts
<1>1. ConnectionTypeOK /\ backlog \in Seq(Link)
  BY EmptySeq DEF ConnectionTypeOK
<1>2. Sockets
  BY DEF Sockets, LiveAddrs
<1>3. Waiting
  BY DEF Waiting
<1>4. Bytes
  BY DEF Bytes, LiveAddrs
<1> QED
  BY <1>1, <1>2, <1>3, <1>4 DEF Conn

\* accept gives a free descriptor to the first connection that waits, ...
LEMMA AcceptedFacts ==
    ASSUME Conn, backlog # <<>>, FreeFds # {},
           file' = [file EXCEPT ![Least(FreeFds)] = Head(backlog)]
    PROVE  LET fd == Least(FreeFds) l == Head(backlog) IN
           /\ fd \in Fd /\ file[fd] = None /\ l \in Link /\ file'[fd] = l
           /\ file' \in [Fd -> Link \cup {"listen", "other", None}]
           /\ \A f \in Fd : f # fd => file'[f] = file[f]
           /\ \A f \in Fd : file[f] # l
           /\ peer[l] # "none" /\ (peer[l] # "reset" => inbox[l] = sent[l])
           /\ Tail(backlog) \in Seq(Link)
           /\ \A b \in LiveAddrs : heap[b].sock \in Fd /\ heap[b].sock # fd
                                   /\ file'[heap[b].sock] = LinkOf(b)
<1> DEFINE fd == Least(FreeFds)
           l  == Head(backlog)
<1> USE Consts
<1>1. fd \in Fd /\ file[fd] = None /\ l \in Link /\ Tail(backlog) \in Seq(Link)
      /\ 1 \in 1 .. Len(backlog) /\ l = backlog[1] /\ file' = [file EXCEPT ![fd] = l]
  BY LeastFree, HeadOfBacklog DEF Conn
<1> HIDE DEF fd, l
<1>2. /\ file' \in [Fd -> Link \cup {"listen", "other", None}] /\ file'[fd] = l
      /\ \A f \in Fd : f # fd => file'[f] = file[f]
      /\ \A f \in Fd : file[f] # l
      /\ peer[l] # "none" /\ (peer[l] # "reset" => inbox[l] = sent[l])
  BY <1>1 DEF Conn, ConnectionTypeOK, Waiting
<1>3. \A b \in LiveAddrs : heap[b].sock \in Fd /\ heap[b].sock # fd
  BY <1>1 DEF Conn, Sockets, LinkOf
<1>4. \A b \in LiveAddrs : file'[heap[b].sock] = LinkOf(b)
  BY <1>2, <1>3 DEF LinkOf
<1> QED
  BY <1>1, <1>2, <1>3, <1>4 DEF fd, l

\* ... and get_connection puts it in a new connection at a.
LEMMA AcceptConn ==
    ASSUME Conn, backlog # <<>>, FreeFds # {}, NEW a \in Addr, heap[a] = None,
           heap' = [heap EXCEPT ![a] =
                [create_connection EXCEPT !.sock = Least(FreeFds), !.sin = TRUE, !.host = TRUE]],
           file' = [file EXCEPT ![Least(FreeFds)] = Head(backlog)], backlog' = Tail(backlog),
           UNCHANGED network
    PROVE  Conn' /\ LiveAddrs' = LiveAddrs \cup {a} /\ a \notin LiveAddrs
<1> DEFINE fd == Least(FreeFds)
           l  == Head(backlog)
           c  == [create_connection EXCEPT !.sock = fd, !.sin = TRUE, !.host = TRUE]
<1> USE Consts DEF network
<1>1. heap' = [heap EXCEPT ![a] = c]
  OBVIOUS
<1>2. /\ c \in connection_t /\ c # None /\ c.sock = fd /\ c.host /\ c.read_statistics = 0
  <2>0. fd \in Fd
    BY LeastFree
  <2> HIDE DEF fd
  <2>1. 0 \in 0 .. MaxSent /\ create_connection.read_statistics = 0
    BY DEF create_connection
  <2>2. create_connection \in connection_t
    BY <2>1, Zenon DEF create_connection, connection_t, Running
  <2> QED
    BY <2>0, <2>1, <2>2 DEF connection_t
<1>3. /\ fd \in Fd /\ file[fd] = None /\ l \in Link /\ file'[fd] = l
      /\ file' \in [Fd -> Link \cup {"listen", "other", None}]
      /\ \A f \in Fd : f # fd => file'[f] = file[f]
      /\ \A f \in Fd : file[f] # l
      /\ peer[l] # "none" /\ (peer[l] # "reset" => inbox[l] = sent[l])
      /\ Tail(backlog) \in Seq(Link)
      /\ \A b \in LiveAddrs : heap[b].sock \in Fd /\ heap[b].sock # fd
                              /\ file'[heap[b].sock] = LinkOf(b)
  BY AcceptedFacts
<1> HIDE DEF fd, l, c
<1>4. /\ heap' \in [Addr -> connection_t \cup {None}]
      /\ \A b \in Addr : b # a => heap'[b] = heap[b]
      /\ heap'[a] = c /\ LiveAddrs' = LiveAddrs \cup {a} /\ a \notin LiveAddrs
  BY <1>1, <1>2 DEF Conn, ConnectionTypeOK, LiveAddrs
<1>5. /\ \A b \in LiveAddrs : heap'[b] = heap[b] /\ LinkOf(b)' = LinkOf(b) /\ LinkOf(b) # l
      /\ LinkOf(a)' = l
  BY <1>2, <1>3, <1>4 DEF LinkOf, LiveAddrs
<1>6. ConnectionTypeOK' /\ (backlog \in Seq(Link))'
  BY <1>3, <1>4 DEF Conn, ConnectionTypeOK
<1>7. Sockets'
  BY <1>2, <1>3, <1>4, <1>5 DEF Conn, Sockets
<1>8. Waiting'
  BY <1>3, WaitingTail DEF Conn, l
<1>9. Bytes'
  <2>1. sent[l] \in Nat /\ inbox[l] \in Nat /\ UNCHANGED <<peer, sent, inbox>>
    BY <1>3 DEF Conn, ConnectionTypeOK
  <2>2. \A k \in Link : peer[k] = "none" => sent[k] = 0 /\ \A f \in Fd : file'[f] # k
    BY <1>3 DEF Conn, Bytes
  <2>3. \A b \in LiveAddrs' : peer[LinkOf(b)'] # "reset" =>
           heap'[b].read_statistics + inbox[LinkOf(b)'] = sent[LinkOf(b)']
    <3>1. peer[LinkOf(a)'] # "reset" => heap'[a].read_statistics + inbox[LinkOf(a)'] = sent[LinkOf(a)']
      <4>1. heap'[a].read_statistics = 0 /\ LinkOf(a)' = l
        BY <1>2, <1>4, <1>5
      <4>2. peer[l] # "reset" => inbox[l] = sent[l]
        BY <1>3
      <4> QED
        BY <2>1, <4>1, <4>2
    <3>2. \A b \in LiveAddrs : peer[LinkOf(b)'] # "reset" =>
             heap'[b].read_statistics + inbox[LinkOf(b)'] = sent[LinkOf(b)']
      BY <1>5 DEF Conn, Bytes
    <3> QED
      BY <1>4, <3>1, <3>2
  <2> QED
    BY <2>1, <2>2, <2>3 DEF Conn, Bytes
<1> QED
  BY <1>4, <1>6, <1>7, <1>8, <1>9 DEF Conn

\* What a connection in use has.
LEMMA Mine ==
    ASSUME Conn, NEW a \in LiveAddrs
    PROVE  /\ a \in Addr /\ heap[a] \in connection_t /\ heap[a] # None
           /\ LinkOf(a) \in Link /\ heap[a].host
           /\ heap[a].sock \in Fd /\ heap[a].read_statistics \in 0 .. MaxSent
           /\ inbox[LinkOf(a)] \in 0 .. MaxSent
           /\ \A b \in LiveAddrs : b # a => LinkOf(b) # LinkOf(a)
<1>1. a \in Addr /\ heap[a] # None
  BY DEF LiveAddrs
<1>2. heap[a] \in connection_t
  BY <1>1 DEF Conn, ConnectionTypeOK
<1>3. heap[a].read_statistics \in 0 .. MaxSent
  BY <1>2 DEF connection_t
<1>4. LinkOf(a) \in Link /\ heap[a].host /\ heap[a].sock \in Fd
  BY DEF Conn, Sockets
<1>5. inbox[LinkOf(a)] \in 0 .. MaxSent
  BY <1>4 DEF Conn, ConnectionTypeOK
<1>6. \A b \in LiveAddrs : b # a => LinkOf(b) # LinkOf(a)
  BY DEF Conn, Sockets, LinkOf
<1> QED
  BY <1>1, <1>2, <1>3, <1>4, <1>5, <1>6

\* A step that changes the connection at a to c, and takes from its inbox what
\* it adds to the count.
LEMMA UseConn ==
    ASSUME Conn, NEW a \in LiveAddrs,
           NEW c \in connection_t, c.sock = heap[a].sock, c.host = heap[a].host,
           heap' = [heap EXCEPT ![a] = c],
           UNCHANGED <<file, peer, sent, backlog>>,
           inbox' \in [Link -> 0 .. MaxSent], outbox' \in [Link -> 0 .. Window],
           \A l \in Link : l # LinkOf(a) => inbox'[l] = inbox[l],
           inbox'[LinkOf(a)] <= inbox[LinkOf(a)],
           peer[LinkOf(a)] # "reset" => c.read_statistics + inbox'[LinkOf(a)]
                                        = heap[a].read_statistics + inbox[LinkOf(a)]
    PROVE  Conn' /\ LiveAddrs' = LiveAddrs
<1> USE Consts, Mine
<1>1. /\ heap' \in [Addr -> connection_t \cup {None}] /\ heap'[a] = c /\ c # None
      /\ \A b \in Addr : b # a => heap'[b] = heap[b]
  BY DEF Conn, ConnectionTypeOK
<1>2. LiveAddrs' = LiveAddrs
  BY <1>1 DEF LiveAddrs
<1>3. \A b \in LiveAddrs : heap'[b].sock = heap[b].sock /\ heap'[b].host = heap[b].host
  BY <1>1 DEF LiveAddrs
<1>4. \A b \in LiveAddrs : LinkOf(b)' = LinkOf(b)
  BY <1>3 DEF LinkOf
<1>5. ConnectionTypeOK' /\ (backlog \in Seq(Link))'
  BY <1>1 DEF Conn, ConnectionTypeOK
<1>6. Sockets'
  BY <1>2, <1>3, <1>4 DEF Conn, Sockets
<1>7. Waiting'
  <2>1. \A k \in 1 .. Len(backlog) : backlog[k] \in Link /\ backlog[k] # LinkOf(a)
    BY ElementOfSeq DEF Conn, Waiting, LinkOf
  <2> QED
    BY <2>1 DEF Conn, Waiting
<1>8. Bytes'
  <2>1. \A l \in Link : inbox[l] \in Nat /\ inbox'[l] \in Nat /\ inbox'[l] <= inbox[l] /\ sent[l] \in Nat
    <3> TAKE l \in Link
    <3>1. inbox[l] \in 0 .. MaxSent /\ inbox'[l] \in 0 .. MaxSent /\ sent[l] \in 0 .. MaxSent
      BY DEF Conn, ConnectionTypeOK
    <3> HIDE Mine
    <3> QED
      BY <3>1
  <2>2. (\A l \in Link : inbox'[l] <= sent'[l])
        /\ (\A l \in Link : peer'[l] = "reset" => inbox'[l] = 0)
    <3> HIDE Mine
    <3>1. \A l \in Link : inbox[l] <= sent[l] /\ (peer[l] = "reset" => inbox[l] = 0)
      BY DEF Conn, Bytes
    <3> QED
      BY <2>1, <3>1
  <2>3. \A b \in LiveAddrs : peer[LinkOf(b)] # "reset" =>
           heap'[b].read_statistics + inbox'[LinkOf(b)] = sent[LinkOf(b)]
    <3>1. \A b \in LiveAddrs : LinkOf(b) \in Link /\ b \in Addr
      BY DEF Conn, Sockets, LiveAddrs
    <3> QED
      BY <1>1, <3>1 DEF Conn, Bytes
  <2>4. \A l \in Link : peer'[l] = "none" => sent'[l] = 0 /\ \A f \in Fd : file'[f] # l
    BY DEF Conn, Bytes
  <2> QED
    BY <1>2, <1>4, <2>2, <2>3, <2>4 DEF Bytes
<1> QED
  BY <1>2, <1>5, <1>6, <1>7, <1>8 DEF Conn

\* clean_connection frees the connection and, because it has a host name, does
\* not close its socket.
LEMMA CleanConn ==
    ASSUME Conn, NEW a \in LiveAddrs, clean_connection(a), UNCHANGED <<network, backlog>>
    PROVE  Conn' /\ UNCHANGED file /\ LiveAddrs' = LiveAddrs \ {a}
<1> USE Consts DEF network
<1>0. a \in Addr /\ UNCHANGED file /\ heap' = [heap EXCEPT ![a] = None]
  BY Mine DEF clean_connection, Releases
<1>1. ConnectionTypeOK' /\ (backlog \in Seq(Link))'
  BY <1>0 DEF Conn, ConnectionTypeOK
<1>2. LiveAddrs' = LiveAddrs \ {a} /\ \A b \in LiveAddrs' : heap'[b] = heap[b] /\ LinkOf(b)' = LinkOf(b)
  BY <1>0 DEF Conn, ConnectionTypeOK, LiveAddrs, LinkOf
<1>3. Sockets'
  BY <1>0, <1>2 DEF Conn, Sockets
<1>4. Waiting'
  BY <1>0 DEF Conn, Waiting
<1>5. Bytes'
  BY <1>0, <1>2 DEF Conn, Bytes
<1> QED
  BY <1>0, <1>1, <1>2, <1>3, <1>4, <1>5 DEF Conn

LEMMA SameConn == ASSUME Conn, UNCHANGED <<objects, network, backlog>> PROVE Conn'
  BY DEF objects, network, Conn, ConnectionTypeOK, Sockets, Waiting, Bytes, LiveAddrs, LinkOf

LEMMA ConnectConn ==
    ASSUME Conn, NEW l \in Link, peer[l] = "none", peer' = [peer EXCEPT ![l] = "up"],
           backlog' = Append(backlog, l), UNCHANGED <<sent, inbox, outbox>>, UNCHANGED objects
    PROVE  Conn'
<1> USE Consts DEF objects
<1>0. backlog \in Seq(Link) /\ Len(backlog) \in Nat /\ peer[l] = "none"
      /\ backlog' \in Seq(Link) /\ Len(backlog') = Len(backlog) + 1
      /\ backlog'[Len(backlog) + 1] = l
      /\ \A k \in 1 .. Len(backlog) : backlog'[k] = backlog[k]
  BY DEF Conn
<1>1. ConnectionTypeOK' /\ (backlog \in Seq(Link))'
  BY <1>0 DEF Conn, ConnectionTypeOK
<1>2. Sockets'
  BY DEF Conn, Sockets, LiveAddrs, LinkOf
<1>a. \A k \in 1 .. Len(backlog') :
         \/ k \in 1 .. Len(backlog) /\ backlog'[k] = backlog[k] /\ backlog[k] \in Link /\ backlog[k] # l
         \/ k = Len(backlog) + 1 /\ backlog'[k] = l
  BY <1>0, ElementOfSeq DEF Conn, Waiting
<1>b. /\ peer'[l] = "up" /\ \A k \in Link : k # l => peer'[k] = peer[k]
      /\ inbox[l] = 0 /\ sent[l] = 0 /\ \A f \in Fd : file[f] # l
  BY <1>0 DEF Conn, ConnectionTypeOK, Bytes
<1>3. Waiting'
  BY <1>a, <1>b DEF Conn, Waiting
<1>4. Bytes'
  <2>1. \A a \in LiveAddrs : LinkOf(a) \in Link /\ LinkOf(a) # l
    BY <1>b DEF Conn, Sockets, LinkOf
  <2> QED
    BY <1>b, <2>1 DEF Conn, Bytes, LiveAddrs, LinkOf
<1> QED
  BY <1>1, <1>2, <1>3, <1>4 DEF Conn

\* A connected peer does something: as long as the connection is not reset,
\* what it sends and what waits for the program grow by the same amount.
LEMMA PeerStep ==
    ASSUME Conn, NEW l \in Link, UNCHANGED <<objects, backlog>>,
           peer[l] # "none", peer'[l] # "none", peer[l] # "reset",
           ConnectionTypeOK',
           \A k \in Link : k # l => peer'[k] = peer[k] /\ sent'[k] = sent[k] /\ inbox'[k] = inbox[k],
           inbox'[l] <= sent'[l], peer'[l] = "reset" => inbox'[l] = 0,
           peer'[l] # "reset" => sent'[l] - inbox'[l] = sent[l] - inbox[l]
    PROVE  Conn'
<1> USE Consts DEF objects
<1>2. Sockets'
  BY DEF Conn, Sockets, LiveAddrs, LinkOf
<1>a. \A k \in Link : /\ sent[k] \in Int /\ inbox[k] \in Int /\ sent'[k] \in Int /\ inbox'[k] \in Int
                      /\ peer'[k] # "reset" => /\ peer[k] # "reset"
                                               /\ sent'[k] - inbox'[k] = sent[k] - inbox[k]
                      /\ peer'[k] = "none" <=> peer[k] = "none"
  BY DEF Conn, ConnectionTypeOK
<1>3. Waiting'
  <2>1. \A k \in 1 .. Len(backlog) : backlog[k] \in Link
    BY ElementOfSeq DEF Conn
  <2> QED
    BY <1>a, <2>1 DEF Conn, Waiting
<1>4. Bytes'
  <2>1. /\ \A k \in Link : inbox'[k] <= sent'[k]
        /\ \A k \in Link : peer'[k] = "reset" => inbox'[k] = 0
        /\ \A k \in Link : peer'[k] = "none" => sent'[k] = 0 /\ \A f \in Fd : file[f] # k
    BY <1>a DEF Conn, Bytes
  <2>2. \A a \in LiveAddrs : peer'[LinkOf(a)] # "reset" =>
           heap[a].read_statistics + inbox'[LinkOf(a)] = sent'[LinkOf(a)]
    <3> TAKE a \in LiveAddrs
    <3>1. LinkOf(a) \in Link /\ heap[a].read_statistics \in Int
      BY Mine
    <3> QED
      BY <1>a, <3>1 DEF Conn, Bytes
  <2> QED
    BY <2>1, <2>2 DEF Bytes, LiveAddrs, LinkOf
<1> QED
  BY <1>2, <1>3, <1>4 DEF Conn

LEMMA PeerConn ==
    ASSUME Conn, NEW l \in Link, UNCHANGED <<objects, backlog>>,
           PeerSends(l) \/ PeerReads(l) \/ PeerShuts(l) \/ PeerResets(l)
    PROVE  Conn'
<1> USE Consts
<1>0. /\ sent[l] \in 0 .. MaxSent /\ inbox[l] \in 0 .. sent[l] /\ outbox[l] \in 0 .. Window
      /\ ConnectionTypeOK /\ UNCHANGED <<heap, file>>
  BY DEF Conn, ConnectionTypeOK, Bytes, objects
<1>2. CASE PeerSends(l)
  <2>1. PICK n \in 1 .. MaxSent - sent[l] :
           sent' = [sent EXCEPT ![l] = @ + n] /\ inbox' = [inbox EXCEPT ![l] = @ + n]
    BY <1>2 DEF PeerSends
  <2>2. /\ UNCHANGED <<peer, outbox>> /\ peer[l] = "up"
        /\ sent[l] + n \in 0 .. MaxSent /\ inbox[l] + n \in 0 .. MaxSent
    BY <1>0, <1>2 DEF PeerSends
  <2>3. sent' \in [Link -> 0 .. MaxSent] /\ inbox' \in [Link -> 0 .. MaxSent]
        /\ sent'[l] = sent[l] + n /\ inbox'[l] = inbox[l] + n
        /\ \A k \in Link : k # l => sent'[k] = sent[k] /\ inbox'[k] = inbox[k]
    BY <1>0, <2>1, <2>2 DEF ConnectionTypeOK
  <2>4. ConnectionTypeOK'
    BY <1>0, <2>2, <2>3 DEF ConnectionTypeOK
  <2>5. inbox'[l] <= sent'[l] /\ sent'[l] - inbox'[l] = sent[l] - inbox[l]
    BY <1>0, <2>3
  <2> QED
    BY <1>0, <2>2, <2>3, <2>4, <2>5, PeerStep
<1>3. CASE PeerReads(l)
  <2>1. UNCHANGED <<peer, sent, inbox>> /\ peer[l] \in {"up", "shut"} /\ outbox[l] - 1 \in 0 .. Window
    BY <1>0, <1>3 DEF PeerReads
  <2>2. outbox' \in [Link -> 0 .. Window]
    BY <1>0, <1>3, <2>1 DEF PeerReads, ConnectionTypeOK
  <2>3. ConnectionTypeOK'
    BY <1>0, <2>1, <2>2 DEF ConnectionTypeOK
  <2> QED
    BY <1>0, <2>1, <2>3, PeerStep
<1>4. CASE PeerShuts(l)
  <2>1. UNCHANGED <<sent, inbox, outbox>> /\ peer[l] = "up" /\ peer'[l] = "shut"
        /\ \A k \in Link : k # l => peer'[k] = peer[k]
    BY <1>0, <1>4 DEF PeerShuts, ConnectionTypeOK
  <2>2. ConnectionTypeOK'
    BY <1>0, <1>4 DEF PeerShuts, ConnectionTypeOK
  <2> QED
    BY <1>0, <2>1, <2>2, PeerStep
<1>5. CASE PeerResets(l)
  <2>1. UNCHANGED sent /\ peer[l] \in {"up", "shut"} /\ peer'[l] = "reset" /\ inbox'[l] = 0
        /\ \A k \in Link : k # l => peer'[k] = peer[k] /\ inbox'[k] = inbox[k]
    BY <1>0, <1>5 DEF PeerResets, ConnectionTypeOK
  <2>2. ConnectionTypeOK'
    BY <1>0, <1>5 DEF PeerResets, ConnectionTypeOK
  <2>3. inbox'[l] <= sent'[l]
    BY <1>0, <2>1
  <2> QED
    BY <1>0, <2>1, <2>2, <2>3, PeerStep
<1> QED
  BY <1>2, <1>3, <1>4, <1>5

\* A message of Received(l) bytes is read and counted, in a new value d of the
\* connection at a, and the reply takes its place in the send buffer.
LEMMA CountConn ==
    ASSUME Conn, NEW a \in LiveAddrs, Received(LinkOf(a)) > 0,
           heap' = [heap EXCEPT ![a].read_statistics = @ + Received(LinkOf(a))],
           inbox' = [inbox EXCEPT ![LinkOf(a)] = @ - Received(LinkOf(a))],
           UNCHANGED <<file, peer, sent, outbox, backlog>>
    PROVE  Conn' /\ LiveAddrs' = LiveAddrs
<1> DEFINE l == LinkOf(a)
           n == Received(l)
           d == [heap[a] EXCEPT !.read_statistics = @ + n]
<1> USE Consts
<1>0. l \in Link /\ inbox[l] \in Nat /\ heap[a].read_statistics \in Nat /\ sent[l] \in 0 .. MaxSent
  BY Mine DEF Conn, ConnectionTypeOK
<1>1. peer[l] # "reset" /\ n \in 1 .. inbox[l]
  BY <1>0, RecvFacts
<1>2. heap[a].read_statistics + inbox[l] = sent[l]
  BY <1>1 DEF Conn, Bytes
<1>3. heap' = [heap EXCEPT ![a] = d] /\ inbox' = [inbox EXCEPT ![l] = @ - n]
  OBVIOUS
<1> HIDE DEF n, l
<1>4. d \in connection_t /\ d.sock = heap[a].sock /\ d.host = heap[a].host
      /\ d.read_statistics = heap[a].read_statistics + n
  BY <1>0, <1>1, <1>2, Mine DEF connection_t
<1> HIDE DEF d
<1>5. inbox' \in [Link -> 0 .. MaxSent] /\ inbox'[l] = inbox[l] - n
      /\ \A k \in Link : k # l => inbox'[k] = inbox[k]
  BY <1>0, <1>1, <1>3 DEF Conn, ConnectionTypeOK
<1>6. d.read_statistics + inbox'[l] = heap[a].read_statistics + inbox[l] /\ inbox'[l] <= inbox[l]
  BY <1>0, <1>1, <1>4, <1>5
<1>7. outbox' \in [Link -> 0 .. Window]
  BY DEF Conn, ConnectionTypeOK
<1> QED
  BY <1>3, <1>4, <1>5, <1>6, <1>7, UseConn DEF l

\* An answer is put in the send buffer.
LEMMA AnswerConn ==
    ASSUME Conn, NEW l \in Link, sock_write_bytes(l) \/ UNCHANGED outbox,
           UNCHANGED <<objects, peer, sent, inbox, backlog>>
    PROVE  Conn'
<1> USE Consts
<1>1. outbox' \in [Link -> 0 .. Window]
  <2>1. CASE sock_write_bytes(l)
    <3>1. outbox \in [Link -> 0 .. Window] /\ outbox[l] + 1 \in 0 .. Window
      BY <2>1 DEF sock_write_bytes, Conn, ConnectionTypeOK
    <3> QED
      BY <2>1, <3>1 DEF sock_write_bytes
  <2> QED
    BY <2>1 DEF Conn, ConnectionTypeOK
<1> QED
  BY <1>1 DEF objects, Conn, ConnectionTypeOK, Sockets, Waiting, Bytes, LiveAddrs, LinkOf

--------------------------------------------------------------------------
(* The server with a thread per client *)

\* A thread works on a connection that is allocated, and the connection the
\* accepting thread is about to hand over has no thread yet.
Owners ==
    /\ \A a \in Addr : thread[a] # "none" => heap[a] # None
    /\ pc = "create" => con \in LiveAddrs /\ thread[con] = "none"

IndInv == TypeOK /\ Conn /\ Owners

LEMMA InitInv == Init => IndInv
<1> SUFFICES ASSUME Init PROVE IndInv
  OBVIOUS
<1>1. file \in [Fd -> {"listen", "other", None}]
  BY DEF Init, ConnectionInit
<1>2. Conn
  BY <1>1, InitConn DEF Init, ConnectionInit
<1>3. TypeOK
  BY <1>2, TriesAssumption DEF Conn, Init, TypeOK, Errno
<1>4. Owners
  BY DEF Init, Owners
<1> QED
  BY <1>2, <1>3, <1>4 DEF IndInv

LEMMA SetupInv == ASSUME IndInv, setup_tcp_listeners, UNCHANGED signalled PROVE IndInv'
<1> USE Consts DEF setup_tcp_listeners, network
<1>0. \/ UNCHANGED file
      \/ \E f \in Fd : file[f] = None /\ file' = [file EXCEPT ![f] = "listen"]
  BY LeastFree
<1>1. TypeOK'
  BY <1>0 DEF IndInv, TypeOK, ConnectionTypeOK
<1>a. \A f \in Fd : \/ file'[f] = file[f]
                    \/ file[f] = None /\ file'[f] = "listen"
  BY <1>0 DEF IndInv, TypeOK, ConnectionTypeOK
<1>b. \A a \in Addr : LinkOf(a) \in Link /\ heap[a].sock \in Fd => LinkOf(a)' = LinkOf(a)
  BY <1>a DEF LinkOf
<1>2. Sockets'
  BY <1>a, <1>b DEF IndInv, Conn, Sockets, LiveAddrs
<1>3. Waiting'
  <2>1. \A k \in 1 .. Len(backlog) : backlog[k] \in Link
    BY ElementOfSeq DEF IndInv, TypeOK
  <2> QED
    BY <1>a, <2>1 DEF IndInv, Conn, Waiting
<1>4. Bytes'
  BY <1>a, <1>b DEF IndInv, Conn, Sockets, Bytes, LiveAddrs
<1>5. Owners'
  BY DEF IndInv, Owners, LiveAddrs
<1> QED
  BY <1>1, <1>2, <1>3, <1>4, <1>5 DEF IndInv, Conn, TypeOK

LEMMA AcceptFailsInv == ASSUME IndInv, AcceptFails, UNCHANGED signalled PROVE IndInv'
<1> USE Consts DEF AcceptFails, objects, network
<1>1. TypeOK'
  BY HeadOfBacklog DEF IndInv, TypeOK, ConnectionTypeOK, Errno
<1>2. Sockets'
  BY DEF IndInv, Conn, Sockets, LiveAddrs, LinkOf
<1>3. Waiting'
  BY WaitingTail DEF IndInv, Conn, Waiting
<1>4. Bytes'
  BY DEF IndInv, Conn, Bytes, LiveAddrs, LinkOf
<1>5. Owners'
  BY DEF IndInv, Owners, LiveAddrs
<1> QED
  BY <1>1, <1>2, <1>3, <1>4, <1>5 DEF IndInv, Conn, TypeOK

LEMMA GetInv == ASSUME IndInv, get_connection, UNCHANGED signalled PROVE IndInv'
<1>1. PICK a \in Addr :
         /\ heap[a] = None /\ con' = a
         /\ heap' = [heap EXCEPT ![a] =
               [create_connection EXCEPT !.sock = Least(FreeFds), !.sin = TRUE, !.host = TRUE]]
  BY DEF get_connection, FreeAddrs
<1>2. /\ UNCHANGED <<network, errno, thread>> /\ pc' = "create" /\ tries' = 0
      /\ backlog # <<>> /\ FreeFds # {} /\ backlog' = Tail(backlog)
      /\ file' = [file EXCEPT ![Least(FreeFds)] = Head(backlog)]
  BY DEF get_connection
<1>3. Conn' /\ LiveAddrs' = LiveAddrs \cup {a} /\ a \notin LiveAddrs
  BY <1>1, <1>2, AcceptConn DEF IndInv
<1>4. TypeOK'
  BY <1>1, <1>2, <1>3, TriesAssumption DEF IndInv, Conn, TypeOK
<1>5. Owners'
  BY <1>1, <1>2, <1>3 DEF IndInv, Owners, LiveAddrs
<1> QED
  BY <1>3, <1>4, <1>5 DEF IndInv

LEMMA CreateInv ==
    ASSUME IndInv, thread_create \/ CreateFails, UNCHANGED signalled PROVE IndInv'
<1> USE Consts, TriesAssumption DEF thread_create, CreateFails, HandedOver
<1>0. UNCHANGED <<heap, file>> /\ UNCHANGED <<objects, network, con, errno, backlog>>
  BY DEF objects
<1>1. Conn'
  BY <1>0, SameConn DEF IndInv
<1>2. TypeOK'
  BY <1>0, <1>1 DEF IndInv, TypeOK, Conn
<1>3. Owners'
  BY <1>0 DEF IndInv, Owners, LiveAddrs, TypeOK
<1> QED
  BY <1>1, <1>2, <1>3 DEF IndInv

LEMMA Threads == ASSUME IndInv, NEW a \in Addr, thread[a] # "none" PROVE a \in LiveAddrs
  BY DEF IndInv, Owners, LiveAddrs

\* What is left to show of a step of a client thread that keeps Conn.
LEMMA ThreadStep ==
    ASSUME IndInv, NEW a \in Addr, thread[a] # "none",
           Conn', LiveAddrs' = LiveAddrs, UNCHANGED acceptor, signalled' \subseteq Link,
           \E t \in {"start", "recv", "send"} : thread' = [thread EXCEPT ![a] = t]
    PROVE  IndInv'
<1>1. TypeOK'
  BY DEF IndInv, TypeOK, Conn, acceptor
<1>2. \A b \in Addr : thread'[b] = "none" <=> thread[b] = "none"
  BY DEF IndInv, TypeOK
<1>3. Owners'
  BY <1>2 DEF IndInv, Owners, acceptor, LiveAddrs, Conn, ConnectionTypeOK
<1> QED
  BY <1>1, <1>3 DEF IndInv

\* SetRunning changes nothing that concerns the peer or the socket.
LEMMA RunningConn ==
    ASSUME Conn, NEW a \in LiveAddrs, NEW r \in Running, SetRunning(a, r),
           UNCHANGED <<file, network, backlog>>
    PROVE  Conn' /\ LiveAddrs' = LiveAddrs
<1> DEFINE c == [heap[a] EXCEPT !.running = r]
<1>1. heap' = [heap EXCEPT ![a] = c]
  BY DEF SetRunning
<1>2. c \in connection_t /\ c.sock = heap[a].sock /\ c.host = heap[a].host
      /\ c.read_statistics = heap[a].read_statistics
  BY Mine DEF connection_t
<1> HIDE DEF c
<1>3. /\ UNCHANGED <<file, peer, sent, backlog>> /\ inbox' = inbox
      /\ inbox' \in [Link -> 0 .. MaxSent] /\ outbox' \in [Link -> 0 .. Window]
  BY DEF Conn, ConnectionTypeOK, network
<1>4. inbox'[LinkOf(a)] <= inbox[LinkOf(a)]
  BY <1>3, Mine
<1> QED
  BY <1>1, <1>2, <1>3, <1>4, UseConn

LEMMA ClientInv ==
    ASSUME IndInv, NEW a \in Addr, UNCHANGED signalled,
           handle_connection(a) \/ handle_recv(a) \/ Reply(a) PROVE IndInv'
<1>0. thread[a] # "none" /\ a \in LiveAddrs /\ LinkOf(a) \in Link /\ signalled' \subseteq Link
  BY Threads, Mine DEF handle_connection, handle_recv, Reply, IndInv, TypeOK
<1>1. CASE handle_connection(a)
  <2>1. Conn' /\ LiveAddrs' = LiveAddrs
    BY <1>0, <1>1, RunningConn DEF IndInv, handle_connection, Running
  <2> QED
    BY <1>0, <1>1, <2>1, ThreadStep DEF handle_connection
<1>2. CASE handle_recv(a)
  <2> DEFINE l == LinkOf(a)
  <2>0. UNCHANGED <<file, peer, sent, outbox, acceptor, backlog>>
    BY <1>2 DEF handle_recv
  <2>1. CASE /\ Received(l) > 0 /\ Count(a, Received(l))
             /\ inbox' = [inbox EXCEPT ![l] = @ - Received(l)]
             /\ thread' = [thread EXCEPT ![a] = "send"]
    <3>1. Conn' /\ LiveAddrs' = LiveAddrs
      BY <1>0, <2>0, <2>1, CountConn DEF IndInv, Count
    <3> QED
      BY <1>0, <2>0, <2>1, <3>1, ThreadStep
  <2>2. CASE StreamEnds(a, l)
    <3>1. Conn' /\ LiveAddrs' = LiveAddrs
      BY <1>0, <2>0, <2>2, RunningConn DEF IndInv, StreamEnds, Running, network
    <3>2. thread' = [thread EXCEPT ![a] = "recv"]
      BY <1>2, <2>2 DEF StreamEnds, handle_recv, IndInv, TypeOK
    <3> QED
      BY <1>0, <2>0, <3>1, <3>2, ThreadStep
  <2> QED
    BY <1>2, <2>1, <2>2 DEF handle_recv
<1>3. CASE Reply(a)
  <2>0. UNCHANGED <<objects, peer, sent, inbox, backlog>> /\ UNCHANGED <<con, errno, tries>>
    BY <1>3 DEF Reply, objects
  <2>a. sock_write_bytes(LinkOf(a)) \/ UNCHANGED outbox
    BY <1>3 DEF Reply, SendAborts
  <2>b. Conn' /\ LiveAddrs' = LiveAddrs
    BY <1>0, <2>0, <2>a, AnswerConn DEF IndInv, objects, LiveAddrs
  <2>1. CASE thread' = [thread EXCEPT ![a] = "recv"] /\ UNCHANGED pc
    BY <1>0, <2>0, <2>1, <2>b, ThreadStep DEF acceptor
  <2>2. CASE SendAborts(LinkOf(a)) /\ UNCHANGED thread
    <3>1. TypeOK'
      BY <2>0, <2>2, <2>b DEF IndInv, TypeOK, Conn, SendAborts
    <3>2. Owners'
      BY <2>0, <2>2 DEF IndInv, Owners, SendAborts, objects
    <3> QED
      BY <2>b, <3>1, <3>2 DEF IndInv
  <2> QED
    BY <1>3, <2>1, <2>2 DEF Reply
<1> QED
  BY <1>1, <1>2, <1>3

LEMMA SelectFailsInv == ASSUME IndInv, NEW a \in Addr, SelectFails(a) PROVE IndInv'
<1>1. thread[a] = "recv" /\ a \in LiveAddrs /\ LinkOf(a) \in Link
      /\ UNCHANGED <<file, network, acceptor, backlog, thread>>
  BY Threads, Mine DEF SelectFails, IndInv
<1>2. signalled' \subseteq Link /\ thread' = [thread EXCEPT ![a] = "recv"]
  BY <1>1 DEF SelectFails, IndInv, TypeOK
<1>3. Conn' /\ LiveAddrs' = LiveAddrs
  BY <1>1, RunningConn DEF IndInv, SelectFails, Running
<1> QED
  BY <1>1, <1>2, <1>3, ThreadStep

LEMMA EndsInv ==
    ASSUME IndInv, NEW a \in Addr, ClientEnds(a), UNCHANGED signalled PROVE IndInv'
<1>1. /\ thread[a] = "recv" /\ a \in LiveAddrs /\ clean_connection(a)
      /\ UNCHANGED <<network, backlog, pc, con, errno, tries>>
      /\ thread' = [thread EXCEPT ![a] = "none"]
  BY Threads DEF ClientEnds, acceptor
<1>2. Conn' /\ LiveAddrs' = LiveAddrs \ {a}
  BY <1>1, CleanConn DEF IndInv
<1>3. TypeOK'
  BY <1>1, <1>2 DEF IndInv, TypeOK, Conn
<1>4. \A b \in Addr : thread'[b] = IF b = a THEN "none" ELSE thread[b]
  BY <1>1 DEF IndInv, TypeOK
<1>5. Owners'
  BY <1>1, <1>2, <1>4 DEF IndInv, Owners, LiveAddrs, TypeOK
<1> QED
  BY <1>2, <1>3, <1>5 DEF IndInv

LEMMA PeerInv == ASSUME IndInv, NEW l \in Link, Peer(l) PROVE IndInv'
<1>1. UNCHANGED <<objects, acceptor, thread, signalled>>
  BY DEF Peer
<1>2. Conn'
  <2>1. CASE PeerConnects(l)
    BY <1>1, <2>1, ConnectConn DEF IndInv, PeerConnects
  <2> QED
    BY <1>1, <2>1, PeerConn DEF IndInv, Peer
<1> QED
  BY <1>1, <1>2 DEF objects, acceptor, IndInv, TypeOK, Conn, Owners, LiveAddrs

--------------------------------------------------------------------------
LEMMA StepInv == IndInv /\ [Next]_vars => IndInv'
<1> SUFFICES ASSUME IndInv, [Next]_vars PROVE IndInv'
  OBVIOUS
<1>1. CASE UNCHANGED vars
  <2>1. Conn'
    BY <1>1, SameConn DEF IndInv, vars
  <2> QED
    BY <1>1, <2>1 DEF vars, objects, acceptor, IndInv, TypeOK, Conn, Owners, LiveAddrs
<1>2. CASE Acceptor
  BY <1>2, SetupInv, AcceptFailsInv, GetInv, CreateInv DEF Acceptor
<1>3. CASE \E a \in Addr : Client(a) \/ SelectFails(a)
  BY <1>3, ClientInv, EndsInv, SelectFailsInv DEF Client
<1>4. CASE \E l \in Link : Peer(l)
  BY <1>4, PeerInv
<1> QED
  BY <1>1, <1>2, <1>3, <1>4 DEF Next

LEMMA AlwaysInd == Spec => []IndInv
BY InitInv, StepInv, PTL DEF Spec

(* Every client thread serves its own peer through a connection and a      *)
(* socket of its own and counts that peer's bytes, whatever the accepting  *)
(* thread and the other threads do (sock_tcp_server.c:110-174, 262-268).   *)
THEOREM ServerCorrect == Spec => []ServerInv
<1>1. IndInv => ServerInv
  <2> SUFFICES ASSUME IndInv PROVE ServerInv
    OBVIOUS
  <2>1. \A a \in Serving : a \in LiveAddrs
    BY Threads DEF Serving
  <2>2. OwnConnection
    BY <2>1, Mine DEF OwnConnection, IndInv
  <2>3. CountsEveryByte
    BY <2>1 DEF CountsEveryByte, IndInv, Conn, Bytes
  <2> QED
    BY <2>2, <2>3 DEF ServerInv, IndInv
<1> QED
  BY AlwaysInd, <1>1, PTL

\* A step that makes the thread of a die.
LEMMA Dies ==
    ASSUME IndInv, Next, NEW a \in Serving, heap[a].running = "CLIENT_RUNNING",
           heap'[a] # None, heap'[a].running = "CLIENT_DYING"
    PROVE  (Gone(LinkOf(a)) /\ inbox[LinkOf(a)] = 0) \/ LinkOf(a) \in signalled'
<1>0. a \in Addr /\ thread[a] # "none" /\ a \in LiveAddrs /\ LinkOf(a) \in Link /\ heap[a] # None /\ heap[a] \in connection_t
      /\ heap \in [Addr -> connection_t \cup {None}]
      /\ heap'[a] # heap[a]
  BY Threads, Mine DEF Serving, IndInv, TypeOK, ConnectionTypeOK
<1>1. CASE \E b \in Addr : Client(b) \/ SelectFails(b)
  <2>1. PICK b \in Addr : Client(b) \/ SelectFails(b)
    BY <1>1
  <2>2. b = a
    <3>1. \A c : heap' = [heap EXCEPT ![b] = c] => b = a
      BY <1>0
    <3>2. \/ \E c : heap' = [heap EXCEPT ![b] = c]
          \/ heap' = heap
      BY <2>1 DEF Client, SelectFails, handle_connection, handle_recv, Reply, ClientEnds, StreamEnds,
                  Count, SetRunning, clean_connection, objects
    <3> QED
      BY <1>0, <3>1, <3>2
  <2>3. CASE SelectFails(a)
    BY <2>3 DEF SelectFails
  <2>4. CASE handle_connection(a)
    <3>1. heap'[a].running = "CLIENT_RUNNING"
      BY <2>4, <1>0 DEF handle_connection, SetRunning, connection_t
    <3> QED
      BY <3>1
  <2>5. CASE handle_recv(a)
    <3>1. CASE Count(a, Received(LinkOf(a)))
      <4>1. heap'[a].running = heap[a].running
        BY <1>0, <3>1 DEF Count, connection_t
      <4> QED
        BY <4>1
    <3>2. CASE StreamEnds(a, LinkOf(a))
      BY <1>0, <2>5, <3>2, RecvFacts DEF StreamEnds, handle_recv, IndInv
    <3> QED
      BY <2>5, <3>1, <3>2 DEF handle_recv
  <2>6. CASE Reply(a)
    BY <1>0, <2>6 DEF Reply, objects
  <2>7. CASE ClientEnds(a)
    BY <1>0, <2>7 DEF ClientEnds, clean_connection
  <2> QED
    BY <2>1, <2>2, <2>3, <2>4, <2>5, <2>6, <2>7 DEF Client
<1>2. CASE get_connection
  <2>1. PICK b \in Addr : heap[b] = None /\
           \E c : heap' = [heap EXCEPT ![b] = c]
    BY <1>2 DEF get_connection, FreeAddrs
  <2> QED
    BY <1>0, <2>1
<1>3. CASE Acceptor /\ ~get_connection
  BY <1>0, <1>3 DEF Acceptor, setup_tcp_listeners, AcceptFails, thread_create, CreateFails, HandedOver, objects
<1>4. CASE \E l \in Link : Peer(l)
  BY <1>0, <1>4 DEF Peer, objects
<1> QED
  BY <1>1, <1>2, <1>3, <1>4 DEF Next

\* Only an answer to a peer that has reset aborts the process.
LEMMA Aborts ==
    ASSUME IndInv, Next, pc' = "aborted"
    PROVE  \E b \in Serving : ResetBeforeReply(b)
<1>1. ~Acceptor
  BY DEF Acceptor, setup_tcp_listeners, AcceptFails, get_connection, thread_create, CreateFails, HandedOver
<1>2. \A l \in Link : ~Peer(l)
  BY DEF Peer, acceptor
<1>3. PICK b \in Addr : Reply(b) /\ pc # "aborted"
  <2>1. \A b \in Addr : ~SelectFails(b) /\ (Client(b) => Reply(b) /\ pc # "aborted")
    BY DEF SelectFails, Client, handle_connection, handle_recv, ClientEnds, acceptor
  <2> QED
    BY <1>1, <1>2, <2>1 DEF Next
<1>4. thread[b] = "send" /\ peer[LinkOf(b)] = "reset"
  BY <1>3 DEF Reply, SendAborts
<1> QED
  BY <1>4 DEF Serving, ResetBeforeReply

(* The server gives up one client only after its peer has gone and all it  *)
(* sent before an orderly shutdown has been read, or when a signal has     *)
(* interrupted the client's select (sock_tcp_server.c:110-147), and all of *)
(* them only when a peer has reset between its message and the answer      *)
(* (sockets.c:270).                                                        *)
THEOREM GivesUpLate == Spec => DiesWithPeer
<1>1. IndInv /\ [Next]_vars =>
        [\A a \in Serving : heap[a].running = "CLIENT_RUNNING" =>
          /\ heap'[a] # None /\ heap'[a].running = "CLIENT_DYING" =>
                (Gone(LinkOf(a)) /\ inbox[LinkOf(a)] = 0) \/ LinkOf(a) \in signalled'
          /\ pc' = "aborted" => \E b \in Serving : ResetBeforeReply(b)]_vars
  BY Dies, Aborts
<1> QED
  BY AlwaysInd, <1>1, PTL DEF Spec, DiesWithPeer

--------------------------------------------------------------------------
(* The server on epoll *)

\* The index is inside the events reported, or the number of bytes received by
\* the connection con, which is answered next.
Index ==
    /\ pc = "dispatch" => i < nready_fds
    /\ pc = "send" => i \in 1 .. BUFSIZE /\ con \in LiveAddrs

EpollInv == EpollTypeOK /\ Conn /\ Index /\ \E fd \in Fd : file[fd] = "listen"

LEMMA EpollStart == EpollInit => EpollInv
<1> SUFFICES ASSUME EpollInit PROVE EpollInv
  OBVIOUS
<1>1. file \in [Fd -> {"listen", "other", None}] /\ \E fd \in Fd : file[fd] = "listen"
  BY DEF EpollInit
<1>2. Conn
  BY <1>1, InitConn DEF EpollInit
<1>3. ready \in Seq(Fd) /\ events \in [Slot -> [fd : Fd \cup {None}, data : Data]]
      /\ interest \in [Fd -> Data] /\ passed \subseteq Fd \cup {None}
  BY EmptySeq DEF EpollInit, Data
<1>4. pc = "wait" /\ con = None /\ nready_fds \in 0 .. MAX_EPOLL_FDS
      /\ i \in 0 .. MAX_EPOLL_FDS + BUFSIZE + 1
  BY Consts DEF EpollInit
<1>5. ConnectionTypeOK
  BY <1>2 DEF Conn
<1>6. EpollTypeOK
  BY <1>2, <1>3, <1>4, <1>5 DEF EpollTypeOK, Conn
<1> QED
  BY <1>1, <1>2, <1>4, <1>6 DEF EpollInv, Index

\* i++ and the test of the loop.
LEMMA NextEventOK ==
    ASSUME EpollTypeOK, NEW j \in 0 .. MAX_EPOLL_FDS + BUFSIZE, NextEvent(j),
           UNCHANGED nready_fds
    PROVE  /\ pc' \in {"dispatch", "wait"} /\ i' \in 0 .. MAX_EPOLL_FDS + BUFSIZE + 1
           /\ pc' = "dispatch" => i' < nready_fds'
  BY Consts DEF NextEvent, EpollTypeOK

\* The event that is dispatched.
LEMMA Dispatched ==
    ASSUME EpollInv, pc \in {"dispatch", "send"}
    PROVE  /\ i \in 0 .. MAX_EPOLL_FDS + BUFSIZE
           /\ pc = "dispatch" => i \in Slot
  BY Consts DEF EpollInv, Index, EpollTypeOK, Slot

\* A step of the dispatch that keeps Conn and goes on to the next event.
LEMMA EventDone ==
    ASSUME EpollInv, pc \in {"dispatch", "send"}, NextEvent(i), Conn',
           \A fd \in Fd : file[fd] = "listen" => file'[fd] = "listen",
           con' \in Addr \cup {None}, ready' \in Seq(Fd), interest' \in [Fd -> Data],
           events' \in [Slot -> [fd : Fd \cup {None}, data : Data]], UNCHANGED nready_fds,
           passed' \subseteq Fd \cup {None}
    PROVE  EpollInv'
<1>1. /\ pc' \in {"dispatch", "wait"} /\ i' \in 0 .. MAX_EPOLL_FDS + BUFSIZE + 1
      /\ pc' = "dispatch" => i' < nready_fds'
  BY Dispatched, NextEventOK DEF EpollInv
<1>2. ConnectionTypeOK'
  BY DEF Conn
<1>3. EpollTypeOK'
  BY <1>1, <1>2 DEF EpollInv, EpollTypeOK, Conn, Slot
<1> QED
  BY <1>1, <1>3 DEF EpollInv, Index

LEMMA WaitInv == ASSUME EpollInv, epoll_wait PROVE EpollInv'
<1> USE Consts DEF epoll_wait
<1>0. ready \in Seq(Fd) /\ Len(ready) \in Nat /\ DOMAIN ready = 1 .. Len(ready)
  BY DEF EpollInv, EpollTypeOK
<1>1. Cardinality(Kept) \in Nat /\ Kept \subseteq 1 .. Len(ready)
  <2>1. Kept \subseteq 1 .. Len(ready) /\ IsFiniteSet(1 .. Len(ready))
    BY <1>0, FS_Interval DEF Kept
  <2> QED
    BY <2>1, FS_Subset, FS_CardinalityType
<1>2. PICK f \in KeptInOrder :
         LET now == [j \in DOMAIN f |-> ready[f[j]]]
             n   == IF Len(now) < MAX_EPOLL_FDS THEN Len(now) ELSE MAX_EPOLL_FDS
         IN  /\ events' = [s \in Slot |->
                  IF s < n THEN [fd |-> now[s + 1], data |-> interest[now[s + 1]]] ELSE events[s]]
             /\ nready_fds' = n /\ n > 0
             /\ ready' = SubSeq(now, n + 1, Len(now))
  OBVIOUS
<1> DEFINE now == [j \in DOMAIN f |-> ready[f[j]]]
<1>3. now \in Seq(Fd)
  <2>1. f \in [1 .. Cardinality(Kept) -> Kept]
    BY DEF KeptInOrder
  <2>2. now \in [1 .. Cardinality(Kept) -> Fd]
    <3>1. \A k \in Kept : ready[k] \in Fd
      BY <1>0, <1>1
    <3> QED
      BY <2>1, <3>1
  <2> QED
    BY <1>1, <2>2, SeqDef
<1> HIDE DEF now
<1> DEFINE n == IF Len(now) < MAX_EPOLL_FDS THEN Len(now) ELSE MAX_EPOLL_FDS
<1>4. Len(now) \in Nat /\ n \in 1 .. MAX_EPOLL_FDS /\ n <= Len(now) /\ nready_fds' = n
  BY <1>2, <1>3 DEF now
<1>5. ready' \in Seq(Fd)
  <2>1. \A k \in n + 1 .. Len(now) : now[k] \in Fd
    BY <1>3, <1>4, ElementOfSeq
  <2>2. ready' = SubSeq(now, n + 1, Len(now))
    BY <1>2 DEF now
  <2>3. n + 1 \in Int /\ Len(now) \in Int
    BY <1>4
  <2> HIDE DEF n
  <2>4. SubSeq(now, n + 1, Len(now)) \in Seq(Fd)
    BY <2>1, <2>3, SubSeqProperties
  <2> QED
    BY <2>2, <2>4 DEF n
<1>6. events' \in [Slot -> [fd : Fd \cup {None}, data : Data]]
  <2>1. \A s \in Slot : s < n => now[s + 1] \in Fd
    BY <1>3, <1>4, ElementOfSeq DEF Slot
  <2>2. interest \in [Fd -> Data] /\ events \in [Slot -> [fd : Fd \cup {None}, data : Data]]
    BY DEF EpollInv, EpollTypeOK
  <2> HIDE DEF n
  <2> QED
    BY <1>2, <2>1, <2>2 DEF n, now
<1>7. Conn' /\ UNCHANGED file /\ LiveAddrs' = LiveAddrs
  BY SameConn DEF EpollInv, objects, network, LiveAddrs
<1>8. ConnectionTypeOK'
  BY <1>7 DEF Conn
<1>9. pc' = "dispatch" /\ i' = 0 /\ UNCHANGED <<con, interest, passed>>
  OBVIOUS
<1> HIDE DEF n, epoll_wait
<1>10. EpollTypeOK'
  BY <1>4, <1>5, <1>6, <1>7, <1>8, <1>9 DEF EpollInv, EpollTypeOK, Conn, Slot
<1> QED
  BY <1>4, <1>7, <1>9, <1>10 DEF EpollInv, Index

LEMMA AcceptInv ==
    ASSUME EpollInv, AcceptAborts \/ epoll_get_connection \/ AddFails \/ SkipEvent
    PROVE  EpollInv'
<1> USE Consts DEF Dispatching
<1>0. /\ pc \in {"dispatch", "send"}
      /\ events \in [Slot -> [fd : Fd \cup {None}, data : Data]]
      /\ con \in Addr \cup {None} /\ ready \in Seq(Fd) /\ interest \in [Fd -> Data]
      /\ passed \subseteq Fd \cup {None}
  BY DEF AcceptAborts, epoll_get_connection, AddFails, SkipEvent, EpollInv, EpollTypeOK
<1>a. ListenFd \in Fd
  BY DEF EpollInv, ListenFd
<1>b. epoll_get_connection \/ AddFails => passed' \subseteq Fd \cup {None}
  BY <1>0, <1>a DEF epoll_get_connection, AddFails, Passes
<1>1. CASE AcceptAborts
  <2>1. pc' = "aborted" /\ UNCHANGED <<objects, network, backlog, interest, ready, events, nready_fds, i, con, passed>>
    BY <1>1 DEF AcceptAborts, kernel, objects, network
  <2>2. Conn' /\ UNCHANGED file
    BY <2>1, SameConn DEF EpollInv, objects
  <2>3. ConnectionTypeOK'
    BY <2>2 DEF Conn
  <2>4. EpollTypeOK'
    BY <2>1, <2>2, <2>3 DEF EpollInv, EpollTypeOK, Conn, Slot
  <2> QED
    BY <2>1, <2>2, <2>4 DEF EpollInv, Index
<1>2. CASE epoll_get_connection
  <2>1. PICK a \in Addr :
           /\ heap[a] = None /\ con' = a
           /\ heap' = [heap EXCEPT ![a] =
                 [create_connection EXCEPT !.sock = Least(FreeFds), !.sin = TRUE, !.host = TRUE]]
           /\ file' = [file EXCEPT ![Least(FreeFds)] = Head(backlog)]
           /\ interest' = [interest EXCEPT ![Least(FreeFds)] = a]
           /\ ready' = Append(ready, Least(FreeFds)) \/ ready' = ready
    BY <1>2 DEF epoll_get_connection, FreeAddrs
  <2>2. /\ backlog # <<>> /\ FreeFds # {} /\ backlog' = Tail(backlog) /\ NextEvent(i)
        /\ UNCHANGED network /\ UNCHANGED <<events, nready_fds>>
    BY <1>2 DEF epoll_get_connection, network
  <2>3. Conn' /\ \A fd \in Fd : file[fd] = "listen" => file'[fd] = "listen"
    BY <2>1, <2>2, AcceptConn, AcceptedFacts DEF EpollInv
  <2>4. ready' \in Seq(Fd) /\ interest' \in [Fd -> Data]
    <3>1. Least(FreeFds) \in Fd /\ a \in Data
      BY <2>2, LeastFree DEF Data
    <3>2. Append(ready, Least(FreeFds)) \in Seq(Fd)
      BY <1>0, <3>1
    <3> QED
      BY <1>0, <2>1, <3>1, <3>2
  <2> QED
    BY <1>0, <1>2, <1>b, <2>1, <2>2, <2>3, <2>4, EventDone
<1>3. CASE AddFails
  <2>1. /\ backlog # <<>> /\ FreeFds # {} /\ backlog' = Tail(backlog) /\ con' = None
        /\ file' = [file EXCEPT ![Least(FreeFds)] = Head(backlog)]
        /\ NextEvent(i) /\ UNCHANGED network /\ UNCHANGED <<heap, events, nready_fds, interest, ready>>
    BY <1>3 DEF AddFails, network
  <2>2. LET fd == Least(FreeFds) l == Head(backlog) IN
           /\ fd \in Fd /\ file[fd] = None /\ l \in Link /\ file'[fd] = l
           /\ file' \in [Fd -> Link \cup {"listen", "other", None}]
           /\ \A f \in Fd : f # fd => file'[f] = file[f]
           /\ \A f \in Fd : file[f] # l
           /\ peer[l] # "none" /\ (peer[l] # "reset" => inbox[l] = sent[l])
           /\ Tail(backlog) \in Seq(Link)
           /\ \A b \in LiveAddrs : heap[b].sock \in Fd /\ heap[b].sock # fd
                                   /\ file'[heap[b].sock] = LinkOf(b)
    BY <2>1, AcceptedFacts DEF EpollInv
  <2>3. LiveAddrs' = LiveAddrs /\ \A b \in LiveAddrs : LinkOf(b)' = LinkOf(b)
    BY <2>1, <2>2 DEF LiveAddrs, LinkOf
  <2>4. ConnectionTypeOK' /\ (backlog \in Seq(Link))'
    BY <2>1, <2>2 DEF EpollInv, Conn, ConnectionTypeOK, network
  <2>5. Sockets'
    BY <2>1, <2>2, <2>3 DEF EpollInv, Conn, Sockets
  <2>6. Waiting'
    BY <2>1, <2>2, WaitingTail DEF EpollInv, Conn, network
  <2>7. Bytes'
    BY <2>1, <2>2, <2>3 DEF EpollInv, Conn, Bytes, network
  <2>8. Conn' /\ \A fd \in Fd : file[fd] = "listen" => file'[fd] = "listen"
    BY <2>2, <2>4, <2>5, <2>6, <2>7 DEF Conn
  <2> QED
    BY <1>0, <1>3, <1>b, <2>1, <2>8, EventDone
<1>4. CASE SkipEvent
  <2>1. NextEvent(i) /\ UNCHANGED <<objects, network, backlog, interest, ready, events, nready_fds, con>>
    BY <1>4 DEF SkipEvent, kernel, objects, network
  <2>2. Conn' /\ UNCHANGED file
    BY <2>1, SameConn DEF EpollInv, objects
  <2>3. passed' \subseteq Fd \cup {None}
    <3>1. i \in Slot
      BY <1>4, Dispatched DEF SkipEvent
    <3>2. events[i].fd \in Fd \cup {None}
      BY <1>0, <3>1
    <3> QED
      BY <1>0, <1>4, <3>2 DEF SkipEvent, Passes
  <2> QED
    BY <1>0, <2>1, <2>2, <2>3, EventDone
<1> QED
  BY <1>1, <1>2, <1>3, <1>4

LEMMA ReceiveInv ==
    ASSUME EpollInv, NEW a \in Addr, ReceiveData(a)
    PROVE  EpollInv'
<1> USE Consts DEF Dispatching
<1>0. /\ pc = "dispatch" /\ a \in LiveAddrs /\ con' = a
      /\ ready' \in Seq(Fd) /\ interest' \in [Fd -> Data] /\ UNCHANGED <<file, peer, sent, outbox>>
      /\ UNCHANGED <<backlog, events, nready_fds, interest>>
      /\ events' \in [Slot -> [fd : Fd \cup {None}, data : Data]]
  BY DEF ReceiveData, LiveAddrs, kernel, EpollInv, EpollTypeOK
<1>1. CASE /\ Received(LinkOf(a)) > 0
           /\ heap' = [heap EXCEPT ![a].read_statistics = @ + Received(LinkOf(a))]
           /\ inbox' = [inbox EXCEPT ![LinkOf(a)] = @ - Received(LinkOf(a))]
           /\ i' = Received(LinkOf(a)) /\ pc' = "send"
           /\ Passes(LeftAfter(LinkOf(a), Received(LinkOf(a))))
  <2>1. Conn' /\ LiveAddrs' = LiveAddrs
    BY <1>0, <1>1, CountConn DEF EpollInv
  <2>2. i' \in 1 .. BUFSIZE
    <3>1. inbox[LinkOf(a)] \in 0 .. MaxSent
      BY <1>0, Mine DEF EpollInv
    <3> QED
      BY <1>1, <3>1 DEF Received
  <2>3. ConnectionTypeOK'
    BY <2>1 DEF Conn
  <2>4. i' \in 0 .. MAX_EPOLL_FDS + BUFSIZE + 1
    BY <2>2
  <2>a. passed' \subseteq Fd \cup {None}
    BY <1>1 DEF Passes, LeftAfter, FdOf, EpollInv, EpollTypeOK
  <2>5. EpollTypeOK'
    BY <1>0, <1>1, <2>1, <2>3, <2>4, <2>a DEF EpollInv, EpollTypeOK, Conn, Slot
  <2> QED
    BY <1>0, <1>1, <2>1, <2>2, <2>5 DEF EpollInv, Index
<1>2. CASE NextEvent(i) /\ UNCHANGED <<heap, inbox, passed>>
  <2>1. Conn' /\ passed' \subseteq Fd \cup {None}
    BY <1>0, <1>2, SameConn DEF EpollInv, EpollTypeOK, objects, network
  <2> QED
    BY <1>0, <1>2, <2>1, EventDone
<1> QED
  BY <1>1, <1>2 DEF ReceiveData

LEMMA RecycleInv ==
    ASSUME EpollInv, NEW a \in Addr, Recycle(a)
    PROVE  EpollInv'
<1> USE Consts DEF Dispatching
<1>0. /\ pc = "dispatch" /\ a \in LiveAddrs /\ con' = None /\ clean_connection(a)
      /\ ready' \in Seq(Fd) /\ interest' \in [Fd -> Data] /\ UNCHANGED network
      /\ UNCHANGED <<backlog, nready_fds>> /\ NextEvent(i)
      /\ events' = [events EXCEPT ![i].data = None] /\ passed' \subseteq Fd \cup {None}
  BY DEF Recycle, LiveAddrs, kernel, network, EpollInv, EpollTypeOK
<1>1. events' \in [Slot -> [fd : Fd \cup {None}, data : Data]]
  <2>1. events \in [Slot -> [fd : Fd \cup {None}, data : Data]] /\ None \in Data
    BY DEF EpollInv, EpollTypeOK, Data
  <2> QED
    BY <1>0, <2>1
<1>2. Conn' /\ UNCHANGED file
  BY <1>0, CleanConn DEF EpollInv
<1> QED
  BY <1>0, <1>1, <1>2, EventDone

LEMMA UseFreedInv == ASSUME EpollInv, NEW a \in Addr, UseFreed(a) PROVE EpollInv'
<1>1. pc' = "wild" /\ con' = a /\ UNCHANGED <<objects, network, backlog, interest, ready>>
      /\ UNCHANGED <<events, nready_fds, i, passed>>
  BY DEF UseFreed, kernel, objects, network
<1>2. Conn' /\ UNCHANGED file
  BY <1>1, SameConn DEF EpollInv, objects
<1>3. ConnectionTypeOK'
  BY <1>2 DEF Conn
<1>4. EpollTypeOK'
  BY <1>1, <1>2, <1>3 DEF EpollInv, EpollTypeOK, Conn, Slot
<1> QED
  BY <1>1, <1>2, <1>4 DEF EpollInv, Index

LEMMA ReplyInv == ASSUME EpollInv, EpollReply PROVE EpollInv'
<1>0. /\ pc = "send" /\ con \in LiveAddrs /\ UNCHANGED objects /\ UNCHANGED <<peer, sent, inbox, backlog>>
      /\ UNCHANGED <<events, nready_fds, con, ready, interest, passed>>
      /\ (sock_write_bytes(LinkOf(con)) \/ UNCHANGED outbox)
  BY DEF EpollReply, SendAborts, kernel, objects, EpollInv, Index
<1>1. Conn' /\ UNCHANGED file
  BY <1>0, AnswerConn, Mine DEF EpollInv, objects
<1>2. CASE NextEvent(i)
  BY <1>0, <1>1, <1>2, EventDone DEF EpollInv, EpollTypeOK
<1>3. CASE pc' = "aborted" /\ UNCHANGED i
  <2>1. ConnectionTypeOK'
    BY <1>1 DEF Conn
  <2>2. EpollTypeOK'
    BY <1>0, <1>1, <1>3, <2>1 DEF EpollInv, EpollTypeOK, Conn, Slot
  <2> QED
    BY <1>1, <1>3, <2>2 DEF EpollInv, Index
<1> QED
  BY <1>2, <1>3 DEF EpollReply, SendAborts

LEMMA EpollPeerInv ==
    ASSUME EpollInv, NEW l \in Link, EpollPeer(l)
    PROVE  EpollInv'
<1> USE Consts
<1>0. UNCHANGED objects /\ UNCHANGED <<pc, events, nready_fds, i, con, interest>> /\ UNCHANGED <<file, heap>>
  BY DEF EpollPeer, objects, local
<1>1. \A fd \in Fd : Edge(fd) \in Seq(Fd)
  BY DEF Edge, EpollInv, EpollTypeOK
<1>2. Conn' /\ ready' \in Seq(Fd) /\ passed' \subseteq Fd \cup {None}
  <2>0. passed \subseteq Fd \cup {None}
    BY DEF EpollInv, EpollTypeOK
  <2>1. CASE EpollPeerConnects(l)
    <3>1. Conn'
      BY <1>0, <2>1, ConnectConn DEF EpollPeerConnects, EpollInv
    <3>2. ListenFd \in Fd
      BY DEF EpollInv, ListenFd
    <3> QED
      BY <1>1, <2>0, <2>1, <3>1, <3>2 DEF EpollPeerConnects
  <2>2. CASE Arrival(l) /\ UNCHANGED backlog
    <3>1. Conn'
      BY <1>0, <2>2, PeerConn DEF Arrival, EpollInv
    <3>2. (\E fd \in FdOf(l) : interest[fd] # None) => (CHOOSE fd \in FdOf(l) : TRUE) \in Fd
      BY DEF FdOf
    <3> QED
      BY <1>1, <2>0, <2>2, <3>1, <3>2 DEF Arrival, EdgeOn, EpollInv, EpollTypeOK
  <2>3. CASE PeerReads(l) /\ UNCHANGED <<ready, backlog, passed>>
    <3>1. Conn'
      BY <1>0, <2>3, PeerConn DEF EpollInv
    <3> QED
      BY <2>0, <2>3, <3>1 DEF EpollInv, EpollTypeOK
  <2> QED
    BY <2>1, <2>2, <2>3 DEF EpollPeer
<1>3. ConnectionTypeOK'
  BY <1>2 DEF Conn
<1>4. EpollTypeOK'
  BY <1>0, <1>2, <1>3 DEF EpollInv, EpollTypeOK, Conn, Slot
<1>5. LiveAddrs' = LiveAddrs
  BY <1>0 DEF LiveAddrs
<1> QED
  BY <1>0, <1>2, <1>4, <1>5 DEF EpollInv, Index

LEMMA EpollStep == ASSUME EpollInv, [EpollNext]_EpollVars PROVE EpollInv'
<1>1. CASE UNCHANGED EpollVars
  <2>1. UNCHANGED <<heap, file, peer, sent, inbox, outbox, backlog>>
        /\ UNCHANGED <<pc, events, nready_fds, i, con, interest, ready, passed>>
    BY <1>1 DEF EpollVars, objects, network, local, kernel
  <2>2. Conn' /\ LiveAddrs' = LiveAddrs
    BY <2>1, SameConn DEF EpollInv, objects, network, LiveAddrs
  <2>3. ConnectionTypeOK'
    BY <2>2 DEF Conn
  <2>4. EpollTypeOK'
    BY <2>1, <2>2, <2>3 DEF EpollInv, EpollTypeOK, Conn, Slot
  <2> QED
    BY <2>1, <2>2, <2>4 DEF EpollInv, Index
<1>2. CASE Server
  BY <1>2, WaitInv, AcceptInv, ReplyInv, ReceiveInv, RecycleInv, UseFreedInv DEF Server
<1>3. CASE \E l \in Link : EpollPeer(l)
  BY <1>3, EpollPeerInv
<1> QED
  BY <1>1, <1>2, <1>3 DEF EpollNext

LEMMA AlwaysEpollInv == EpollSpec => []EpollInv
<1>1. EpollInit => EpollInv
  BY EpollStart
<1>2. EpollInv /\ [EpollNext]_EpollVars => EpollInv'
  BY EpollStep
<1> QED
  BY <1>1, <1>2, PTL DEF EpollSpec

(* What the server on epoll says it has received from a peer is what that  *)
(* peer sent and is no longer on its way, and its index stays within the   *)
(* bounds of the loops that share it, for every size of the array, also    *)
(* when events are skipped because of their address or repeated            *)
(* (sock_tcp_server_epoll.c:112-182).                                      *)
THEOREM EpollServerCorrect == EpollSpec => []EpollServerInv
<1>1. EpollInv => EpollServerInv
  <2> SUFFICES ASSUME EpollInv PROVE EpollServerInv
    OBVIOUS
  <2>1. EpollCountsBytes
    BY DEF EpollCountsBytes, EpollInv, Conn, Bytes, LiveAddrs
  <2> QED
    BY <2>1 DEF EpollServerInv, EpollInv
<1> QED
  BY AlwaysEpollInv, <1>1, PTL

\* A step that frees the connection at a.
LEMMA Frees ==
    ASSUME EpollInv, EpollNext, NEW a \in Addr, heap[a] # None, heap'[a] = None
    PROVE  Gone(LinkOf(a)) /\ inbox[LinkOf(a)] = 0
<1>0. heap \in [Addr -> connection_t \cup {None}] /\ heap[a] \in connection_t /\ None \notin connection_t
      /\ a \in LiveAddrs
  BY Consts DEF EpollInv, Conn, ConnectionTypeOK, LiveAddrs
<1>1. PICK b \in Addr : ReceiveData(b) \/ Recycle(b) \/ epoll_get_connection
  <2>1. ~epoll_wait /\ ~AcceptAborts /\ ~AddFails /\ ~SkipEvent /\ ~EpollReply
    BY <1>0 DEF epoll_wait, AcceptAborts, AddFails, SkipEvent, EpollReply, objects
  <2>2. (\A l \in Link : ~EpollPeer(l)) /\ \A b \in Addr : ~UseFreed(b)
    BY <1>0 DEF EpollPeer, UseFreed, objects
  <2> QED
    BY <2>1, <2>2 DEF EpollNext, Server
<1>2. CASE epoll_get_connection
  <2>1. PICK c \in Addr : heap[c] = None /\ \E d : heap' = [heap EXCEPT ![c] = d]
    BY <1>2 DEF epoll_get_connection, FreeAddrs
  <2> QED
    BY <1>0, <2>1
<1>3. CASE ReceiveData(b)
  <2>0. b \in LiveAddrs /\ UNCHANGED <<file, peer, sent, outbox, backlog>>
    BY <1>3 DEF ReceiveData, kernel, LiveAddrs
  <2>1. \/ UNCHANGED heap
        \/ /\ Received(LinkOf(b)) > 0
           /\ heap' = [heap EXCEPT ![b].read_statistics = @ + Received(LinkOf(b))]
           /\ inbox' = [inbox EXCEPT ![LinkOf(b)] = @ - Received(LinkOf(b))]
    BY <1>3 DEF ReceiveData
  <2>2. UNCHANGED heap \/ LiveAddrs' = LiveAddrs
    BY <2>0, <2>1, CountConn DEF EpollInv
  <2>3. a \notin LiveAddrs'
    BY DEF LiveAddrs
  <2> QED
    BY <1>0, <2>2, <2>3
<1>4. CASE Recycle(b)
  <2>1. b = a
    BY <1>0, <1>4 DEF Recycle, clean_connection
  <2>2. Readable(LinkOf(a)) /\ Received(LinkOf(a)) <= 0
    BY <1>4, <2>1 DEF Recycle, StreamOver
  <2>3. LinkOf(a) \in Link
    BY <1>0, Mine DEF EpollInv
  <2> QED
    BY <2>2, <2>3, RecvFacts DEF EpollInv
<1> QED
  BY <1>1, <1>2, <1>3, <1>4

(* The server on epoll recycles a connection only after its peer has gone  *)
(* and all it sent before an orderly shutdown has been read                *)
(* (sock_tcp_server_epoll.c:163-181).                                      *)
THEOREM RecyclesLate == EpollSpec => KeepsUntilRead
<1>1. EpollInv /\ [EpollNext]_EpollVars =>
        [\A a \in Addr : heap[a] # None /\ heap'[a] = None =>
           Gone(LinkOf(a)) /\ inbox[LinkOf(a)] = 0]_EpollVars
  BY Frees
<1> QED
  BY AlwaysEpollInv, <1>1, PTL DEF EpollSpec, KeepsUntilRead
--------------------------------------------------------------------------
(* The events of the server on epoll *)

\* What the data of a registered socket and of an event stand for.
Registered ==
    /\ \A fd \in Fd : interest[fd] \in Addr =>
          file[fd] \in Link /\ (OwnSocket(fd) \/ Gone(file[fd]))
    /\ \A s \in Slot : events[s].data \in Addr =>
          events[s].fd \in Fd /\ interest[events[s].fd] = events[s].data
    /\ pc = "wild" => Gone(file[events[i].fd])

LEMMA RegisteredStart == EpollInit => Registered
<1> SUFFICES ASSUME EpollInit PROVE Registered
  OBVIOUS
<1> QED
  BY Consts, NegativeAddresses DEF EpollInit, Registered

\* A step that changes neither the set nor what it refers to, and that does not
\* bring back a peer that has gone.
LEMMA RegisteredSame ==
    ASSUME EpollInv, Registered, UNCHANGED <<interest, events, file>>, pc' # "wild",
           \A a \in Addr : heap[a] # None => heap'[a] # None /\ heap'[a].sock = heap[a].sock,
           \A l \in Link : Gone(l) => Gone(l)'
    PROVE  Registered'
<1>1. \A fd \in Fd : interest[fd] \in Addr /\ OwnSocket(fd) => OwnSocket(fd)'
  BY DEF OwnSocket
<1>2. \A fd \in Fd : file[fd] \in Link /\ Gone(file[fd]) => Gone(file[fd])'
  BY DEF Gone
<1> QED
  BY <1>1, <1>2 DEF Registered

LEMMA RegisteredWait == ASSUME EpollInv, Registered, epoll_wait PROVE Registered'
<1>0. /\ UNCHANGED <<interest, file, heap, peer>> /\ pc' = "dispatch"
      /\ ready \in Seq(Fd)
  BY DEF epoll_wait, objects, network, EpollInv, EpollTypeOK
<1>1. PICK f \in KeptInOrder :
         LET now == [j \in DOMAIN f |-> ready[f[j]]]
             n   == IF Len(now) < MAX_EPOLL_FDS THEN Len(now) ELSE MAX_EPOLL_FDS
         IN  events' = [s \in Slot |->
                  IF s < n THEN [fd |-> now[s + 1], data |-> interest[now[s + 1]]] ELSE events[s]]
  BY DEF epoll_wait
<1> DEFINE now == [j \in DOMAIN f |-> ready[f[j]]]
           n   == IF Len(now) < MAX_EPOLL_FDS THEN Len(now) ELSE MAX_EPOLL_FDS
<1>2. \A s \in Slot : s < n => now[s + 1] \in Fd
  <2>1. Cardinality(Kept) \in Nat /\ Kept \subseteq 1 .. Len(ready) /\ Len(ready) \in Nat
    <3>1. Kept \subseteq 1 .. Len(ready) /\ IsFiniteSet(1 .. Len(ready)) /\ Len(ready) \in Nat
      BY <1>0, FS_Interval DEF Kept
    <3> QED
      BY <3>1, FS_Subset, FS_CardinalityType
  <2>2. f \in [1 .. Cardinality(Kept) -> Kept]
    BY DEF KeptInOrder
  <2>3. now \in [1 .. Cardinality(Kept) -> Fd]
    <3>1. \A k \in Kept : ready[k] \in Fd
      BY <1>0, <2>1
    <3> QED
      BY <2>2, <3>1
  <2>4. now \in Seq(Fd)
    BY <2>1, <2>3, SeqDef
  <2> HIDE DEF now
  <2> QED
    BY <2>4, Consts, ElementOfSeq DEF Slot
<1> HIDE DEF now, n
<1>3. \A s \in Slot : \/ events'[s] = events[s]
                      \/ /\ now[s + 1] \in Fd /\ events'[s].fd = now[s + 1]
                         /\ events'[s].data = interest[now[s + 1]]
  BY <1>1, <1>2 DEF now, n
<1>4. \A s \in Slot : events'[s].data \in Addr =>
         events'[s].fd \in Fd /\ interest[events'[s].fd] = events'[s].data
  BY <1>3 DEF Registered
<1> QED
  BY <1>0, <1>4 DEF Registered, OwnSocket, Gone

LEMMA RegisteredGet == ASSUME EpollInv, Registered, epoll_get_connection PROVE Registered'
<1> USE Consts
<1>1. PICK a \in Addr :
         /\ heap[a] = None
         /\ heap' = [heap EXCEPT ![a] =
               [create_connection EXCEPT !.sock = Least(FreeFds), !.sin = TRUE, !.host = TRUE]]
         /\ interest' = [interest EXCEPT ![Least(FreeFds)] = a]
         /\ file' = [file EXCEPT ![Least(FreeFds)] = Head(backlog)]
  BY DEF epoll_get_connection, FreeAddrs
<1>2. PICK fd \in Fd : fd = Least(FreeFds) /\ file[fd] = None
  BY LeastFree DEF epoll_get_connection
<1>3. PICK c : /\ heap' = [heap EXCEPT ![a] = c] /\ c.sock = fd /\ c # None
  <2> DEFINE c == [create_connection EXCEPT !.sock = fd, !.sin = TRUE, !.host = TRUE]
  <2>1. create_connection \in connection_t
    <3>1. 0 \in 0 .. MaxSent
      OBVIOUS
    <3> QED
      BY <3>1, Zenon DEF create_connection, connection_t, Running
  <2>2. c.sock = fd /\ c # None
    BY <2>1, <1>2 DEF connection_t
  <2>3. heap' = [heap EXCEPT ![a] = c]
    BY <1>1, <1>2
  <2> QED
    BY <2>2, <2>3
<1>4. /\ UNCHANGED <<events, peer>> /\ pc' # "wild" /\ Head(backlog) \in Link
      /\ heap \in [Addr -> connection_t \cup {None}]
      /\ interest \in [Fd -> Data] /\ file \in [Fd -> Link \cup {"listen", "other", None}]
  BY HeadOfBacklog DEF epoll_get_connection, NextEvent, network, EpollInv, EpollTypeOK, Conn, ConnectionTypeOK
<1>5. /\ heap'[a] # None /\ heap'[a].sock = fd /\ \A b \in Addr : b # a => heap'[b] = heap[b]
      /\ interest'[fd] = a /\ \A g \in Fd : g # fd => interest'[g] = interest[g]
      /\ file'[fd] \in Link /\ \A g \in Fd : g # fd => file'[g] = file[g]
  BY <1>1, <1>2, <1>3, <1>4
<1>6. ~(interest[fd] \in Addr)
  BY <1>2 DEF Registered
<1>7. \A g \in Fd : interest'[g] \in Addr => file'[g] \in Link /\ (OwnSocket(g)' \/ Gone(file[g])')
  <2> SUFFICES ASSUME NEW g \in Fd, interest'[g] \in Addr
               PROVE  file'[g] \in Link /\ (OwnSocket(g)' \/ Gone(file[g])')
    OBVIOUS
  <2>1. CASE g = fd
    BY <1>5, <2>1 DEF OwnSocket
  <2>2. CASE g # fd
    <3>1. file[g] \in Link /\ (OwnSocket(g) \/ Gone(file[g]))
          /\ interest'[g] = interest[g] /\ file'[g] = file[g]
      BY <1>5, <2>2 DEF Registered
    <3>2. OwnSocket(g) => OwnSocket(g)'
      BY <1>1, <1>5, <3>1 DEF OwnSocket
    <3>3. Gone(file[g]) => Gone(file[g])'
      BY <1>4, <3>1 DEF Gone
    <3> QED
      BY <3>1, <3>2, <3>3
  <2> QED
    BY <2>1, <2>2
<1>8. \A s \in Slot : events'[s].data \in Addr =>
         events'[s].fd \in Fd /\ interest'[events'[s].fd] = events'[s].data
  BY <1>4, <1>5, <1>6 DEF Registered
<1> QED
  BY <1>4, <1>7, <1>8 DEF Registered

LEMMA RegisteredAddFails == ASSUME EpollInv, Registered, AddFails PROVE Registered'
<1> USE Consts
<1>1. PICK fd \in Fd : /\ file[fd] = None
                       /\ file' = [file EXCEPT ![fd] = Head(backlog)]
  BY LeastFree DEF AddFails
<1>2. UNCHANGED <<events, peer, heap, interest>> /\ pc' # "wild"
  BY DEF AddFails, NextEvent, network
<1>3. \A g \in Fd : interest[g] \in Addr => g # fd /\ file'[g] = file[g]
  BY <1>1 DEF Registered, EpollInv, Conn, ConnectionTypeOK
<1> QED
  BY <1>2, <1>3 DEF Registered, OwnSocket, Gone

LEMMA RegisteredRecycle ==
    ASSUME EpollInv, Registered, NEW a \in Addr, Recycle(a) PROVE Registered'
<1> USE Consts
<1>0. /\ UNCHANGED <<peer, interest>> /\ pc' # "wild" /\ a \in LiveAddrs /\ clean_connection(a)
      /\ events' = [events EXCEPT ![i].data = None] /\ UNCHANGED <<network, backlog>>
  BY DEF Recycle, NextEvent, network, kernel, LiveAddrs
<1>1. UNCHANGED file /\ \A b \in Addr : b # a => heap'[b] = heap[b]
  <2>1. UNCHANGED file
    BY <1>0, CleanConn DEF EpollInv
  <2> QED
    BY <1>0, <2>1 DEF clean_connection, EpollInv, Conn, ConnectionTypeOK
<1>2. Gone(LinkOf(a))
  <2>1. LinkOf(a) \in Link
    BY <1>0, Mine DEF EpollInv
  <2> QED
    BY <2>1, RecvFacts DEF Recycle, StreamOver, EpollInv
<1>3. \A fd \in Fd : interest[fd] \in Addr => file[fd] \in Link /\ (OwnSocket(fd)' \/ Gone(file[fd])')
  <2> TAKE fd \in Fd
  <2> SUFFICES ASSUME interest[fd] \in Addr
               PROVE  file[fd] \in Link /\ (OwnSocket(fd)' \/ Gone(file[fd])')
    OBVIOUS
  <2>1. CASE interest[fd] = a /\ OwnSocket(fd)
    <3>1. LinkOf(a) = file[fd]
      BY <2>1 DEF OwnSocket, LinkOf
    <3> QED
      BY <1>0, <1>1, <1>2, <3>1 DEF Gone, Registered
  <2>2. CASE ~(interest[fd] = a /\ OwnSocket(fd))
    BY <1>0, <1>1, <2>2 DEF Gone, Registered, OwnSocket
  <2> QED
    BY <2>1, <2>2
<1>4. \A s \in Slot : events'[s].fd = events[s].fd /\ events'[s].data \in {events[s].data, None}
  BY <1>0 DEF EpollInv, EpollTypeOK
<1> QED
  BY <1>0, <1>1, <1>3, <1>4 DEF Registered

\* The event at which freed memory is used is that of a socket which is not the
\* socket of a connection any more.
LEMMA RegisteredUseFreed ==
    ASSUME EpollInv, Registered, NEW a \in Addr, UseFreed(a) PROVE Registered'
<1>1. UNCHANGED <<heap, file, peer, interest, events, i>> /\ heap[a] = None
      /\ events[i].data = a /\ pc = "dispatch"
  BY DEF UseFreed, Dispatching, objects, network, kernel
<1>2. i \in Slot
  BY <1>1, Dispatched
<1>3. PICK fd \in Fd : events[i].fd = fd /\ interest[fd] = a
  BY <1>1, <1>2 DEF Registered
<1>4. Gone(file[fd])
  BY <1>1, <1>3 DEF Registered, OwnSocket
<1> QED
  BY <1>1, <1>3, <1>4 DEF Registered, OwnSocket, Gone

LEMMA RegisteredReceive ==
    ASSUME EpollInv, Registered, NEW a \in Addr, ReceiveData(a) PROVE Registered'
<1>0. UNCHANGED <<interest, events, file, peer>> /\ pc' # "wild"
  BY DEF ReceiveData, NextEvent, kernel
<1>1. heap \in [Addr -> connection_t \cup {None}] /\ None \notin connection_t
  BY Consts DEF EpollInv, Conn, ConnectionTypeOK
<1>2. \A b \in Addr : heap[b] # None => heap'[b] # None /\ heap'[b].sock = heap[b].sock
  <2>1. CASE UNCHANGED heap
    BY <2>1
  <2>2. CASE /\ Received(LinkOf(a)) > 0
             /\ heap' = [heap EXCEPT ![a].read_statistics = @ + Received(LinkOf(a))]
             /\ inbox' = [inbox EXCEPT ![LinkOf(a)] = @ - Received(LinkOf(a))]
    <3>1. LiveAddrs' = LiveAddrs
      <4>1. a \in LiveAddrs /\ UNCHANGED <<file, peer, sent, outbox, backlog>>
        BY DEF ReceiveData, kernel, LiveAddrs
      <4> QED
        BY <2>2, <4>1, CountConn DEF EpollInv
    <3>2. \A b \in Addr : heap[b] # None => heap'[b].sock = heap[b].sock
      BY <1>1, <2>2 DEF connection_t
    <3> QED
      BY <3>1, <3>2 DEF LiveAddrs
  <2> QED
    BY <2>1, <2>2 DEF ReceiveData
<1>3. \A l \in Link : Gone(l) => Gone(l)'
  BY <1>0 DEF Gone
<1> QED
  BY <1>0, <1>2, <1>3, RegisteredSame

LEMMA RegisteredPeer ==
    ASSUME EpollInv, Registered, NEW l \in Link, EpollPeer(l) PROVE Registered'
<1>0. UNCHANGED <<interest, events, file, heap, pc>> /\ pc # "wild"
  BY DEF EpollPeer, local, objects
<1>1. \A k \in Link : Gone(k) => Gone(k)'
  <2>1. peer \in [Link -> {"none", "up", "shut", "reset"}]
    BY DEF EpollInv, Conn, ConnectionTypeOK
  <2>2. \/ UNCHANGED peer
        \/ peer[l] = "none" /\ peer' = [peer EXCEPT ![l] = "up"]
        \/ peer' = [peer EXCEPT ![l] = "shut"]
        \/ peer' = [peer EXCEPT ![l] = "reset"]
    BY DEF EpollPeer, EpollPeerConnects, Arrival, PeerSends, PeerShuts, PeerResets, PeerReads
  <2> QED
    BY <2>1, <2>2 DEF Gone
<1> QED
  BY <1>0, <1>1, RegisteredSame

LEMMA RegisteredStep ==
    ASSUME EpollInv, Registered, [EpollNext]_EpollVars PROVE Registered'
<1>1. CASE UNCHANGED EpollVars
  <2>1. UNCHANGED <<heap, file, peer, pc, events, i, interest>>
    BY <1>1 DEF EpollVars, objects, network, local, kernel
  <2> QED
    BY <2>1 DEF Registered, OwnSocket, Gone
<1>2. CASE AcceptAborts \/ SkipEvent \/ EpollReply
  <2>1. UNCHANGED <<heap, file, peer, events, interest>> /\ pc' # "wild"
    BY <1>2 DEF AcceptAborts, SkipEvent, EpollReply, SendAborts, NextEvent, objects, network, kernel
  <2> QED
    BY <2>1, RegisteredSame DEF Gone
<1>3. CASE Server /\ ~(AcceptAborts \/ SkipEvent \/ EpollReply)
  BY <1>3, RegisteredWait, RegisteredGet, RegisteredAddFails, RegisteredReceive,
     RegisteredRecycle, RegisteredUseFreed DEF Server
<1>4. CASE \E l \in Link : EpollPeer(l)
  BY <1>4, RegisteredPeer
<1> QED
  BY <1>1, <1>2, <1>3, <1>4 DEF EpollNext

(* An event of a peer that is there leads to the allocated connection that *)
(* has its socket, for any number of connections, events in a batch and    *)
(* addresses given away again: freed memory is used only for an event of a *)
(* socket whose peer has gone (sock_tcp_server_epoll.c:140-147, 163-181).  *)
THEOREM EventsOfOwnPeer == EpollSpec => []OwnEvents
<1>1. EpollInit => Registered
  BY RegisteredStart
<1>2. EpollInv /\ Registered /\ [EpollNext]_EpollVars => Registered'
  BY RegisteredStep
<1>3. Registered => OwnEvents
  BY DEF Registered, OwnEvents
<1> QED
  BY AlwaysEpollInv, <1>1, <1>2, <1>3, PTL DEF EpollSpec
==========================================================================
