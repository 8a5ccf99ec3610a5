--------------------------- MODULE SocketListener ---------------------------
(***************************************************************************)
(* src/netlink_manager/SocketListener.cpp with the reference counts of     *)
(* SocketClient.cpp: the listener thread that selects, accepts and reads,  *)
(* the threads that run a command on each client or broadcast to them, and *)
(* the one that stops the listener.  A section under mClientsLock is one   *)
(* step, and so is incRef or decRef.  A descriptor is a number that the    *)
(* system gives away again after a close.                                  *)
(***************************************************************************)
EXTENDS Integers, Sequences, FiniteSets

CONSTANTS Clients,      \* the connections, each with its SocketClient
          Callers, Fds, NULL

Listener == "listener"
Threads == Callers \cup {Listener}

ASSUME ListenerAssumption ==
    /\ NULL # "other" /\ {NULL, "other"} \cap Clients = {} /\ NULL \notin Fds
    /\ IsFiniteSet(Callers) /\ Listener \notin Callers

VARIABLES
    mListen,     \* FALSE for a netlink socket: one client, never released
    queue,       \* connections that wait for accept
    data,        \* the connections with something to read
    open,        \* which connection a descriptor stands for, or that it is no client's
    mSocket,     \* the descriptor of a client
    mRefCount,
    deleted,     \* the SocketClients that were deleted
    killed,      \* those of them that stopListener deleted (history)
    mClients,
    mCtrlPipe,   \* the bytes in the control pipe
    at,          \* where each thread is
    list,        \* its pendingList or safeList
    cur,         \* the client it has taken from the list
    read_fds,    \* the descriptors the listener selects, then those that are ready
    stop         \* where stopListener is, "dead" when the process is

net == <<mListen, queue, data>>
clients == <<open, mSocket, mRefCount, deleted, killed, mClients>>
vars == <<net, clients, mCtrlPipe, at, list, cur, read_fds, stop>>

Become(t, s) == at' = [at EXCEPT ![t] = s]
Live == {c \in Clients : mRefCount[c] > 0 /\ c \notin deleted}

\* startListener; a socket that is not listened on is itself the only client.
\* Other parts of the program may have descriptors open.
Init ==
    \E l \in BOOLEAN, c \in Clients, f \in Fds, others \in SUBSET Fds :
        LET S == IF l THEN {} ELSE {c} IN
        /\ f \notin others
        /\ mListen = l
        /\ queue = {} /\ data = {}
        /\ open = [g \in Fds |-> IF g \in others THEN "other" ELSE IF ~l /\ g = f THEN c ELSE NULL]
        /\ mSocket = [d \in Clients |-> IF d \in S THEN f ELSE NULL]
        /\ mRefCount = [d \in Clients |-> IF d \in S THEN 1 ELSE 0]
        /\ deleted = {} /\ killed = {} /\ mClients = S /\ mCtrlPipe = <<>>
        /\ at = [t \in Threads |-> IF t = Listener THEN "build" ELSE "idle"]
        /\ list = [t \in Threads |-> {}] /\ cur = [t \in Threads |-> NULL]
        /\ read_fds = {} /\ stop = "no"

--------------------------------------------------------------------------
(* The other end of the sockets *)

Connect(c) ==
    /\ mListen /\ c \notin queue /\ mSocket[c] = NULL
    /\ queue' = queue \cup {c}
    /\ UNCHANGED <<mListen, data, clients, mCtrlPipe, at, list, cur, read_fds, stop>>

Send(c) ==
    /\ c \in Live /\ c \notin data
    /\ data' = data \cup {c}
    /\ UNCHANGED <<mListen, queue, clients, mCtrlPipe, at, list, cur, read_fds, stop>>

--------------------------------------------------------------------------
(* References *)

AddRefs(S) == mRefCount' = [c \in Clients |-> IF c \in S THEN mRefCount[c] + 1 ELSE mRefCount[c]]

\* ~SocketClient for the clients S: a socket it owns is closed.
Deletes(S) ==
    /\ deleted' = deleted \cup S
    /\ open' = [f \in Fds |-> IF mListen /\ open[f] \in S THEN NULL ELSE open[f]]

decRef(c) ==
    /\ mRefCount' = [mRefCount EXCEPT ![c] = @ - 1]
    /\ IF mRefCount[c] = 1 THEN Deletes({c}) ELSE UNCHANGED <<deleted, open>>

--------------------------------------------------------------------------
(* runListener *)

BuildSet ==
    /\ at[Listener] = "build"
    /\ read_fds' = {mSocket[c] : c \in mClients}
    /\ Become(Listener, "select")
    /\ UNCHANGED <<net, clients, mCtrlPipe, list, cur, stop>>

\* select fails: a client was released since, and its descriptor is closed.
SelectFails ==
    /\ at[Listener] = "select" /\ \E f \in read_fds : open[f] = NULL
    /\ Become(Listener, "build")
    /\ UNCHANGED <<net, clients, mCtrlPipe, list, cur, read_fds, stop>>

\* The control pipe goes first.
SelectReturns ==
    /\ at[Listener] = "select"
    /\ LET ready == {f \in read_fds : open[f] \in data} IN
         /\ mCtrlPipe # <<>> \/ queue # {} \/ ready # {}
         /\ read_fds' = ready
    /\ Become(Listener, IF mCtrlPipe # <<>> THEN "control" ELSE IF queue # {} THEN "accept" ELSE "pending")
    /\ UNCHANGED <<net, clients, mCtrlPipe, list, cur, stop>>

\* Mutant of ReadControl: every byte is taken for a wake-up.
ReadControlWakes ==
    /\ at[Listener] = "control"
    /\ mCtrlPipe' = Tail(mCtrlPipe)
    /\ Become(Listener, "build")
    /\ UNCHANGED <<net, clients, list, cur, read_fds, stop>>

ReadControl ==
    /\ at[Listener] = "control"
    /\ mCtrlPipe' = Tail(mCtrlPipe)
    /\ Become(Listener, IF Head(mCtrlPipe) = "shutdown" THEN "exited" ELSE "build")
    /\ UNCHANGED <<net, clients, list, cur, read_fds, stop>>

\* accept takes any descriptor that is free.
Accept ==
    /\ at[Listener] = "accept"
    /\ \E c \in queue, f \in {g \in Fds : open[g] = NULL} :
         /\ queue' = queue \ {c}
         /\ open' = [open EXCEPT ![f] = c]
         /\ mSocket' = [mSocket EXCEPT ![c] = f]
         /\ mRefCount' = [mRefCount EXCEPT ![c] = 1]
         /\ mClients' = mClients \cup {c}
    /\ Become(Listener, "pending")
    /\ UNCHANGED <<mListen, data, deleted, killed, mCtrlPipe, list, cur, read_fds, stop>>

\* There is no descriptor: the clients have to wait, too.
AcceptFails ==
    /\ at[Listener] = "accept" /\ \A f \in Fds : open[f] # NULL
    /\ Become(Listener, "build")
    /\ UNCHANGED <<net, clients, mCtrlPipe, list, cur, read_fds, stop>>

MakePending ==
    /\ at[Listener] = "pending"
    /\ LET S == {c \in mClients : mSocket[c] \in read_fds} IN
         list' = [list EXCEPT ![Listener] = S] /\ AddRefs(S)
    /\ Become(Listener, "next")
    /\ UNCHANGED <<net, open, mSocket, deleted, killed, mClients, mCtrlPipe, cur, read_fds, stop>>

\* onDataAvailable reads what there is; if it returns false the client is released.
onDataAvailable ==
    /\ at[Listener] = "next"
    /\ \E c \in list[Listener] :
         /\ cur' = [cur EXCEPT ![Listener] = c]
         /\ list' = [list EXCEPT ![Listener] = @ \ {c}]
         /\ data' = data \ {c}
    /\ Become(Listener, "done") \/ Become(Listener, "release")
    /\ UNCHANGED <<mListen, queue, clients, mCtrlPipe, read_fds, stop>>

--------------------------------------------------------------------------
(* sendBroadcast and runOnEachSocket *)

\* Mutant of MakeSafe: the clients on the list are not referenced.
SafeNoRef(t) ==
    /\ at[t] = "idle"
    /\ list' = [list EXCEPT ![t] = mClients]
    /\ Become(t, "next")
    /\ UNCHANGED <<net, clients, mCtrlPipe, cur, read_fds, stop>>

MakeSafe(t) ==
    /\ at[t] = "idle"
    /\ list' = [list EXCEPT ![t] = mClients] /\ AddRefs(mClients)
    /\ Become(t, "next")
    /\ UNCHANGED <<net, open, mSocket, deleted, killed, mClients, mCtrlPipe, cur, read_fds, stop>>

\* sendMsg or runSocketCommand, which may release the client.
UseClient(t) ==
    /\ t \in Callers /\ at[t] = "next"
    /\ \E c \in list[t] :
         /\ cur' = [cur EXCEPT ![t] = c]
         /\ list' = [list EXCEPT ![t] = @ \ {c}]
    /\ Become(t, "done") \/ Become(t, "release")
    /\ UNCHANGED <<net, clients, mCtrlPipe, read_fds, stop>>

--------------------------------------------------------------------------
(* Of all threads: release, and the end of a client's turn *)

\* release takes the client off the list, if it is there and connection-based.
Erase(t) ==
    /\ at[t] = "release"
    /\ mClients' = IF mListen THEN mClients \ {cur[t]} ELSE mClients
    /\ Become(t, IF mListen /\ cur[t] \in mClients THEN "erased" ELSE "done")
    /\ UNCHANGED <<net, open, mSocket, mRefCount, deleted, killed, mCtrlPipe, list, cur, read_fds, stop>>

\* Mutant of Drop: the reference of the list is not given back.
DropNot(t) ==
    /\ at[t] = "erased"
    /\ Become(t, IF t = Listener THEN "done" ELSE "wakeup")
    /\ UNCHANGED <<net, clients, mCtrlPipe, list, cur, read_fds, stop>>

Drop(t) ==
    /\ at[t] = "erased"
    /\ decRef(cur[t])
    /\ Become(t, IF t = Listener THEN "done" ELSE "wakeup")
    /\ UNCHANGED <<net, mSocket, killed, mClients, mCtrlPipe, list, cur, read_fds, stop>>

\* Once stopListener has closed the pipe, write fails.
Wakeup(t) ==
    /\ at[t] = "wakeup"
    /\ mCtrlPipe' = IF stop \in {"no", "join"} THEN Append(mCtrlPipe, "wakeup") ELSE mCtrlPipe
    /\ Become(t, "done")
    /\ UNCHANGED <<net, clients, list, cur, read_fds, stop>>

TurnEnds(t) ==
    /\ at[t] = "done"
    /\ decRef(cur[t])
    /\ cur' = [cur EXCEPT ![t] = NULL]
    /\ Become(t, "next")
    /\ UNCHANGED <<net, mSocket, killed, mClients, mCtrlPipe, list, read_fds, stop>>

\* Mutant of ListEnds: the listener selects what it selected before.
ListEndsNoBuild(t) ==
    /\ at[t] = "next" /\ list[t] = {}
    /\ Become(t, IF t = Listener THEN "select" ELSE "idle")
    /\ UNCHANGED <<net, clients, mCtrlPipe, list, cur, read_fds, stop>>

ListEnds(t) ==
    /\ at[t] = "next" /\ list[t] = {}
    /\ Become(t, IF t = Listener THEN "build" ELSE "idle")
    /\ UNCHANGED <<net, clients, mCtrlPipe, list, cur, read_fds, stop>>

--------------------------------------------------------------------------
(* stopListener *)

stopListener ==
    /\ stop = "no"
    /\ mCtrlPipe' = Append(mCtrlPipe, "shutdown")
    /\ stop' = "join"
    /\ UNCHANGED <<net, clients, at, list, cur, read_fds>>

Joined ==
    /\ stop = "join" /\ at[Listener] = "exited"
    /\ mCtrlPipe' = <<>>
    /\ stop' = "delete"
    /\ UNCHANGED <<net, clients, at, list, cur, read_fds>>

\* Every client left is deleted and then taken off the list, without
\* mClientsLock and whoever has a reference.
DeleteClient ==
    /\ stop = "delete"
    /\ \E c \in mClients : Deletes({c}) /\ killed' = killed \cup {c}
    /\ stop' = "erase"
    /\ UNCHANGED <<net, mSocket, mRefCount, mClients, mCtrlPipe, at, list, cur, read_fds>>

EraseClient ==
    /\ stop = "erase"
    /\ mClients' = mClients \ killed
    /\ stop' = "delete"
    /\ UNCHANGED <<net, open, mSocket, mRefCount, deleted, killed, mCtrlPipe, at, list, cur, read_fds>>

AllErased ==
    /\ stop = "delete" /\ mClients = {}
    /\ stop' = "done"
    /\ UNCHANGED <<net, clients, mCtrlPipe, at, list, cur, read_fds>>

Uses(t) == list[t] \cup (IF cur[t] = NULL THEN {} ELSE {cur[t]})

\* A thread that uses a deleted client may find the memory as it was, and goes
\* on as if nothing had happened; or the process crashes.
Crash(t) ==
    /\ stop # "dead" /\ Uses(t) \cap deleted # {}
    /\ stop' = "dead" /\ at' = [u \in Threads |-> "dead"]
    /\ UNCHANGED <<net, clients, mCtrlPipe, list, cur, read_fds>>

--------------------------------------------------------------------------
Stopping == Joined \/ DeleteClient \/ EraseClient \/ AllErased
Turn(t) == Erase(t) \/ Drop(t) \/ Wakeup(t) \/ TurnEnds(t) \/ ListEnds(t)
Listening ==
    \/ BuildSet \/ SelectFails \/ SelectReturns \/ ReadControl \/ Accept \/ AcceptFails
    \/ MakePending \/ onDataAvailable \/ Turn(Listener)

Next ==
    \/ \E c \in Clients : Connect(c) \/ Send(c)
    \/ Listening
    \/ \E t \in Callers : MakeSafe(t) \/ UseClient(t) \/ Turn(t) \/ Crash(t)
    \/ stopListener \/ Stopping

\* The listener thread runs, and so do stopListener and a caller that has begun.
Spec ==
    /\ Init /\ [][Next]_vars
    /\ WF_vars(Listening) /\ WF_vars(Stopping)
    /\ \A t \in Callers : WF_vars(UseClient(t) \/ Turn(t))

--------------------------------------------------------------------------
(* Properties *)

States == {"build", "select", "control", "accept", "pending", "next", "release", "erased",
           "wakeup", "done", "idle", "exited", "dead"}

TypeOK ==
    /\ mListen \in BOOLEAN
    /\ queue \subseteq Clients /\ data \subseteq Clients
    /\ open \in [Fds -> Clients \cup {NULL, "other"}]
    /\ mSocket \in [Clients -> Fds \cup {NULL}]
    /\ mRefCount \in [Clients -> Nat] /\ deleted \subseteq Clients /\ killed \subseteq deleted /\ mClients \subseteq Clients
    /\ mCtrlPipe \in Seq({"wakeup", "shutdown"})
    /\ at \in [Threads -> States] /\ list \in [Threads -> SUBSET Clients]
    /\ cur \in [Threads -> Clients \cup {NULL}]
    /\ read_fds \subseteq Fds /\ stop \in {"no", "join", "delete", "erase", "done", "dead"}

\* The references that threads hold, and that of the list of clients.
Held(c) == Cardinality({t \in Threads : c \in Uses(t)})
         + Cardinality({t \in Threads : at[t] = "erased" /\ cur[t] = c})
         + (IF c \in mClients THEN 1 ELSE 0)

\* A client has one reference for the list of clients, one for the release
\* that has taken it off, and one for each thread that has it on its own list
\* or in hand: it is deleted by the last of them and never forgotten, as long
\* as stopListener does not delete it.
RefsExact ==
    stop = "dead" \/ \A c \in Clients :
        IF c \in killed THEN mRefCount[c] >= Held(c) ELSE mRefCount[c] = Held(c)

\* Who has a pointer to a deleted client.  decRef() never leaves one behind
\* (SocketClient.h:65); stopListener does, and only it: to the callers that
\* had begun, or begin before the client is off the list, and never to the
\* listener thread.
FreedOnlyByStop ==
    /\ \A t \in Callers : Uses(t) \cap deleted \subseteq killed
    /\ Uses(Listener) \cap deleted = {}
    /\ mClients \cap deleted # {} => mClients \cap deleted \subseteq killed /\ stop \in {"erase", "dead"}
    /\ stop \in {"no", "join"} => killed = {}
    /\ stop = "dead" => killed # {}

\* A client's descriptor stays its own until the client is deleted, however
\* fast the system gives descriptors away again: no thread reads from or
\* writes to the socket of another client.
SocketsApart == \A c \in Live : open[mSocket[c]] = c

\* Every deleted client's socket has been closed, once.
NoSocketLeaks == mListen => \A f \in Fds : open[f] \notin deleted

\* References, descriptors and clients stay in step, whichever thread releases
\* a client and whichever uses it.
ClientsInv == TypeOK /\ RefsExact /\ SocketsApart /\ NoSocketLeaks

\* What a client has sent is read, unless the client was released, the
\* listener is being stopped, or a connection waits for which accept finds no
\* descriptor; the client of a netlink socket is never released
\* (SocketListener.cpp:206-251).
DataIsRead ==
    \A c \in Clients : (c \in data /\ c \in mClients) ~>
        \/ c \notin data \/ stop # "no"
        \/ mListen /\ c \notin mClients
        \/ queue # {} /\ \A f \in Fds : open[f] # NULL

\* stopListener comes back, unless a caller crashes on a client it deleted.
StopReturns == stop = "join" ~> stop \in {"done", "dead"}
==========================================================================
