---------------------------- MODULE Connection ----------------------------
(***************************************************************************)
(* connection_t and the sockets behind it, shared by the two TCP servers   *)
(* of src/socket.  Of the strings and addresses a connection owns only     *)
(* their presence matters, because clean_connection decides by it what to  *)
(* release.  A message is the number of its bytes.                         *)
(***************************************************************************)
EXTENDS Integers, Sequences

CONSTANTS Link,        \* TCP connections, each with a peer at the other end
          Fd,          \* descriptor numbers
          Addr,        \* addresses malloc may return
          None,        \* NULL, and -1 as a descriptor
          BUFSIZE,
          Window,      \* messages that fit in the socket's send buffer
          MaxSent      \* bound: bytes a peer sends

ASSUME FdAssumption  == Fd \subseteq Nat
ASSUME DistinctNames == /\ None \notin Link /\ None \notin Fd /\ None \notin Addr
                        /\ {"listen", "other"} \cap (Link \cup {None}) = {}
ASSUME SizeAssumption == BUFSIZE \in Nat \ {0} /\ Window \in Nat \ {0} /\ MaxSent \in Nat

VARIABLES
    heap,     \* address -> connection_t, or None where nothing is allocated
    file,     \* descriptor -> the Link whose socket it is, "listen", "other", or None
    peer,     \* of a Link: "none", "up", "shut" (FIN received) or "reset"
    sent,     \* bytes the peer has sent
    inbox,    \* bytes received by the kernel and not yet by the program
    outbox,   \* messages sent to the peer that it has not read
    backlog,  \* established connections that have not been accepted
    pc,       \* where the thread that accepts connections is
    con       \* its variable con: the address of a connection, or None

objects == <<heap, file>>
network == <<peer, sent, inbox, outbox>>

Running == {"unset", "CLIENT_RUNNING", "CLIENT_DYING"}

connection_t ==
    [sock : Fd \cup {None}, host : BOOLEAN, hostip : BOOLEAN, sin : BOOLEAN,
     running : Running, read_statistics : 0 .. MaxSent]

ASSUME NullIsNoConnection == None \notin connection_t

ConnectionTypeOK ==
    /\ heap \in [Addr -> connection_t \cup {None}]
    /\ file \in [Fd -> Link \cup {"listen", "other", None}]
    /\ peer \in [Link -> {"none", "up", "shut", "reset"}]
    /\ sent \in [Link -> 0 .. MaxSent] /\ inbox \in [Link -> 0 .. MaxSent]
    /\ outbox \in [Link -> 0 .. Window]

\* Other parts of the program may have descriptors open.
ConnectionInit ==
    /\ heap = [a \in Addr |-> None]
    /\ file \in [Fd -> {"other", None}]
    /\ peer = [l \in Link |-> "none"]
    /\ sent = [l \in Link |-> 0] /\ inbox = [l \in Link |-> 0] /\ outbox = [l \in Link |-> 0]

Least(S)  == CHOOSE x \in S : \A y \in S : x <= y
FreeFds   == {fd \in Fd : file[fd] = None}
FreeAddrs == {a \in Addr : heap[a] = None}

\* The Link whose socket the connection at a has.
LinkOf(a) == file[heap[a].sock]

--------------------------------------------------------------------------
(* connection_t *)

\* xmalloc panics when it fails, so a NULL is never returned.
create_connection ==
    [sock |-> None, host |-> FALSE, hostip |-> FALSE, sin |-> FALSE,
     running |-> "unset", read_statistics |-> 0]

\* The chain of else-ifs gets to the socket only when there is nothing before it.
Releases(c) == ~c.host /\ ~c.hostip /\ ~c.sin /\ c.sock # None

clean_connection(a) ==
    /\ heap' = [heap EXCEPT ![a] = None]
    /\ file' = IF Releases(heap[a]) THEN [file EXCEPT ![heap[a].sock] = None] ELSE file

--------------------------------------------------------------------------
(* The socket calls on the Link l *)

Gone(l)     == peer[l] \in {"shut", "reset"}
Readable(l) == inbox[l] > 0 \/ Gone(l)

\* recv's answers: bytes, 0 at the end of the stream, or an error (-1).
Received(l) ==
    IF peer[l] = "reset" THEN -1 ELSE IF inbox[l] < BUFSIZE THEN inbox[l] ELSE BUFSIZE

\* sock_write_bytes tries again and again while the send buffer is full.
sock_write_bytes(l) ==
    /\ peer[l] \in {"up", "shut"} /\ outbox[l] < Window
    /\ outbox' = [outbox EXCEPT ![l] = @ + 1]

\* Any other error of send is given to error(), which aborts the process.
SendAborts(l) == peer[l] = "reset" /\ pc' = "aborted" /\ UNCHANGED outbox

--------------------------------------------------------------------------
(* The peers *)

PeerSends(l) ==
    /\ peer[l] = "up"
    /\ \E n \in 1 .. MaxSent - sent[l] :
          sent' = [sent EXCEPT ![l] = @ + n] /\ inbox' = [inbox EXCEPT ![l] = @ + n]
    /\ UNCHANGED <<peer, outbox>>

PeerReads(l) ==
    /\ peer[l] \in {"up", "shut"} /\ outbox[l] > 0
    /\ outbox' = [outbox EXCEPT ![l] = @ - 1]
    /\ UNCHANGED <<peer, sent, inbox>>

PeerShuts(l) ==
    /\ peer[l] = "up" /\ peer' = [peer EXCEPT ![l] = "shut"]
    /\ UNCHANGED <<sent, inbox, outbox>>

\* A reset discards what the program has not received yet.
PeerResets(l) ==
    /\ peer[l] \in {"up", "shut"}
    /\ peer' = [peer EXCEPT ![l] = "reset"]
    /\ inbox' = [inbox EXCEPT ![l] = 0] /\ outbox' = [outbox EXCEPT ![l] = 0]
    /\ UNCHANGED sent
==========================================================================
