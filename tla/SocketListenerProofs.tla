------------------------ MODULE SocketListenerProofs ------------------------
(***************************************************************************)
(* References, descriptors and clients of the listener stay in step, and   *)
(* stopListener alone leaves pointers to deleted clients behind, for any   *)
(* number of clients, descriptors and calling threads.                     *)
(***************************************************************************)
EXTENDS SocketListener, FiniteSetTheorems, SequenceTheorems, TLAPS

Users(c) == {t \in Threads : c \in Uses(t)}
Erasers(c) == {t \in Threads : at[t] = "erased" /\ cur[t] = c}
U(c) == Cardinality(Users(c))
E(c) == Cardinality(Erasers(c))

InTurn == {"release", "erased", "wakeup", "done"}

\* RefsExact, in terms of U and E.
Listed(c) == IF c \in mClients THEN 1 ELSE 0

Refs ==
    stop = "dead" \/ \A c \in Clients :
        /\ mRefCount[c] >= U(c) + E(c) + Listed(c)
        /\ c \notin killed => mRefCount[c] = U(c) + E(c) + Listed(c)

\* A thread has clients in hand or on its list only while it goes through them.
Lists ==
    stop = "dead" \/ \A t \in Threads :
        /\ cur[t] # NULL <=> at[t] \in InTurn
        /\ at[t] \notin InTurn \cup {"next"} => list[t] = {}
        /\ cur[t] \notin list[t]

\* A connection that was not accepted has no client yet.
Fresh ==
    /\ \A c \in queue : mListen /\ mSocket[c] = NULL
    /\ \A c \in Clients : mSocket[c] = NULL =>
          mRefCount[c] = 0 /\ c \notin mClients /\ c \notin deleted /\ \A f \in Fds : open[f] # c

\* Only stopListener deletes a client that has references left, after the
\* listener thread has ended.
Ended ==
    /\ \A t \in Threads : at[t] = "dead" <=> stop = "dead"
    /\ \A c \in deleted : c \notin killed => mRefCount[c] = 0
    /\ stop \in {"no", "join"} => killed = {}
    /\ stop \in {"delete", "erase", "done"} => at[Listener] = "exited"
    /\ stop # "dead" => \A c \in mClients : c \in deleted => c \in killed /\ stop = "erase"

\* The pointers that were left at the crash stay.
Dead == stop = "dead" => FreedOnlyByStop

Control == at[Listener] = "control" => mCtrlPipe # <<>>

IndInv == TypeOK /\ Refs /\ Lists /\ Fresh /\ Ended /\ Dead /\ Control /\ SocketsApart /\ NoSocketLeaks
--------------------------------------------------------------------------
(* Lemmas on the references threads have to a client *)

LEMMA Consts ==
    /\ NULL # "other" /\ NULL \notin Clients /\ "other" \notin Clients /\ NULL \notin Fds
    /\ Listener \notin Callers /\ Listener \in Threads /\ IsFiniteSet(Threads)
<1>1. IsFiniteSet(Callers \cup {Listener})
  BY ListenerAssumption, FS_AddElement
<1> QED
  BY <1>1, ListenerAssumption DEF Threads

LEMMA UseFacts ==
    ASSUME NEW c \in Clients
    PROVE  /\ IsFiniteSet(Users(c)) /\ IsFiniteSet(Erasers(c)) /\ U(c) \in Nat /\ E(c) \in Nat
           /\ \A t \in Threads : c \in Uses(t) => U(c) >= 1
           /\ \A t \in Threads : at[t] = "erased" /\ cur[t] = c => E(c) >= 1
<1>1. Users(c) \subseteq Threads /\ Erasers(c) \subseteq Threads
  BY DEF Users, Erasers
<1>2. IsFiniteSet(Users(c)) /\ IsFiniteSet(Erasers(c))
  BY <1>1, Consts, FS_Subset
<1>3. U(c) \in Nat /\ E(c) \in Nat
  BY <1>2, FS_CardinalityType DEF U, E
<1>4. \A t \in Threads : c \in Uses(t) => U(c) # 0
  BY <1>2, FS_EmptySet DEF U, Users
<1>5. \A t \in Threads : at[t] = "erased" /\ cur[t] = c => E(c) # 0
  BY <1>2, FS_EmptySet DEF E, Erasers
<1> QED
  BY <1>2, <1>3, <1>4, <1>5

\* A set of threads that one thread joins, leaves or does neither.
LEMMA OneThread ==
    ASSUME NEW S, NEW T, IsFiniteSet(S), NEW t, \A u : u # t => (u \in T <=> u \in S)
    PROVE  Cardinality(T) = Cardinality(S) + (IF t \in T THEN 1 ELSE 0) - (IF t \in S THEN 1 ELSE 0)
<1>0. Cardinality(S) \in Nat
  BY FS_CardinalityType
<1>1. CASE t \in T
  <2>1. T = S \cup {t}
    BY <1>1
  <2>2. Cardinality(T) = IF t \in S THEN Cardinality(S) ELSE Cardinality(S) + 1
    BY <2>1, FS_AddElement, Zenon
  <2> QED
    BY <1>0, <1>1, <2>2
<1>2. CASE t \notin T
  <2>1. T = S \ {t}
    BY <1>2
  <2>2. Cardinality(T) = IF t \in S THEN Cardinality(S) - 1 ELSE Cardinality(S)
    BY <2>1, FS_RemoveElement, Zenon
  <2> QED
    BY <1>0, <1>2, <2>2
<1> QED
  BY <1>1, <1>2

LEMMA Moves ==
    ASSUME NEW t \in Threads, NEW c \in Clients,
           \A u \in Threads : u # t => /\ list'[u] = list[u] /\ cur'[u] = cur[u]
                                       /\ at'[u] = "erased" <=> at[u] = "erased"
    PROVE  /\ U(c)' = U(c) + (IF c \in Uses(t)' THEN 1 ELSE 0) - (IF c \in Uses(t) THEN 1 ELSE 0)
           /\ E(c)' = E(c) + (IF at'[t] = "erased" /\ cur'[t] = c THEN 1 ELSE 0)
                           - (IF at[t] = "erased" /\ cur[t] = c THEN 1 ELSE 0)
<1>1. \A u : u # t => (u \in Users(c)' <=> u \in Users(c)) /\ (u \in Erasers(c)' <=> u \in Erasers(c))
  BY DEF Users, Erasers, Uses
<1>2. IsFiniteSet(Users(c)) /\ IsFiniteSet(Erasers(c))
  BY UseFacts
<1>3. Cardinality(Users(c)') = Cardinality(Users(c)) + (IF t \in Users(c)' THEN 1 ELSE 0)
                                                     - (IF t \in Users(c) THEN 1 ELSE 0)
  BY <1>1, <1>2, OneThread
<1>4. Cardinality(Erasers(c)') = Cardinality(Erasers(c)) + (IF t \in Erasers(c)' THEN 1 ELSE 0)
                                                         - (IF t \in Erasers(c) THEN 1 ELSE 0)
  BY <1>1, <1>2, OneThread
<1>5. /\ t \in Users(c) <=> c \in Uses(t)
      /\ t \in Users(c)' <=> c \in Uses(t)'
      /\ t \in Erasers(c) <=> (at[t] = "erased" /\ cur[t] = c)
      /\ t \in Erasers(c)' <=> (at'[t] = "erased" /\ cur'[t] = c)
  BY DEF Users, Erasers
<1> QED
  BY <1>3, <1>4, <1>5 DEF U, E

\* A step that changes nobody's list and nobody's client.
LEMMA SameUses ==
    ASSUME list' = list, cur' = cur, \A u \in Threads : at'[u] = "erased" <=> at[u] = "erased",
           NEW c \in Clients
    PROVE  U(c)' = U(c) /\ E(c)' = E(c)
<1>1. Users(c)' = Users(c) /\ Erasers(c)' = Erasers(c)
  BY DEF Users, Erasers, Uses
<1> QED
  BY <1>1 DEF U, E

\* What a thread has in hand or on its list was counted.
LEMMA Counted ==
    ASSUME IndInv, stop # "dead"
    PROVE  /\ \A c \in Clients : mRefCount[c] \in Nat /\ U(c) \in Nat /\ E(c) \in Nat
           /\ \A c \in mClients : mRefCount[c] >= 1
           /\ \A t \in Threads : \A c \in Uses(t) : mRefCount[c] >= 1 /\ c \in Clients
           /\ \A t \in Threads : at[t] \in InTurn => cur[t] \in Clients /\ cur[t] \in Uses(t)
           /\ FreedOnlyByStop
<1>1. \A c \in Clients : mRefCount[c] \in Nat /\ U(c) \in Nat /\ E(c) \in Nat
  BY UseFacts DEF IndInv, TypeOK
<1>2. \A t \in Threads : Uses(t) \subseteq Clients
  BY DEF IndInv, TypeOK, Uses
<1>3. \A t \in Threads : \A c \in Uses(t) : mRefCount[c] >= 1
  BY <1>1, <1>2, UseFacts DEF IndInv, Refs, Listed
<1>4. \A c \in mClients : mRefCount[c] >= 1
  BY <1>1 DEF IndInv, Refs, Listed, TypeOK
<1>5. \A t \in Threads : at[t] \in InTurn => cur[t] \in Clients /\ cur[t] \in Uses(t)
  BY DEF IndInv, TypeOK, Lists, Uses
<1>6. FreedOnlyByStop
  <2>1. \A t \in Threads : Uses(t) \cap deleted \subseteq killed
    BY <1>3 DEF IndInv, Ended
  <2>2. stop \notin {"no", "join"} => Uses(Listener) = {}
    BY Consts DEF IndInv, TypeOK, Ended, Lists, InTurn, Uses
  <2> QED
    BY <2>1, <2>2, Consts DEF FreedOnlyByStop, IndInv, Ended, Threads
<1> QED
  BY <1>1, <1>2, <1>3, <1>4, <1>5, <1>6

--------------------------------------------------------------------------
(* The invariant holds at first, and every step keeps it. *)

LEMMA InitInv == Init => IndInv
<1> SUFFICES ASSUME Init PROVE IndInv
  OBVIOUS
<1> USE Consts
<1>1. PICK l \in BOOLEAN, c \in Clients, f \in Fds, others \in SUBSET Fds :
        LET S == IF l THEN {} ELSE {c} IN
        /\ f \notin others
        /\ mListen = l
        /\ queue = {} /\ data = {}
        /\ open = [g \in Fds |-> IF g \in others THEN "other" ELSE IF ~l /\ g = f THEN c ELSE NULL]
        /\ mSocket = [d \in Clients |-> IF d \in S THEN f ELSE NULL]
        /\ mRefCount = [d \in Clients |-> IF d \in S THEN 1 ELSE 0]
        /\ deleted = {} /\ killed = {} /\ mClients = S /\ mCtrlPipe = <<>>
        /\ at = [t \in Threads |-> IF t = Listener THEN "build" ELSE "idle"]
        /\ list = [t \in Threads |-> {}] /\ cur = [t \in Threads |-> NULL]
        /\ read_fds = {} /\ stop = "no"
  BY DEF Init
<1>2. \A d \in Clients : U(d) = 0 /\ E(d) = 0
  <2>1. \A d \in Clients : Users(d) = {} /\ Erasers(d) = {}
    BY <1>1 DEF Users, Erasers, Uses
  <2> QED
    BY <2>1, FS_EmptySet DEF U, E
<1>3. TypeOK
  BY <1>1 DEF TypeOK, States
<1>4. Refs
  BY <1>1, <1>2 DEF Refs, Listed
<1>5. Lists /\ Fresh /\ Ended /\ Dead /\ Control
  BY <1>1 DEF Lists, Fresh, Ended, Dead, Control, InTurn
<1>6. SocketsApart /\ NoSocketLeaks
  BY <1>1 DEF SocketsApart, NoSocketLeaks, Live
<1> QED
  BY <1>3, <1>4, <1>5, <1>6 DEF IndInv

LEMMA ConnectStep ==
    ASSUME IndInv, NEW c \in Clients, Connect(c)
    PROVE  IndInv'
<1> USE Consts DEF Connect, net, clients
<1>1. \A d \in Clients : U(d)' = U(d) /\ E(d)' = E(d)
  BY SameUses DEF IndInv, TypeOK
<1>2. TypeOK'
  BY DEF IndInv, TypeOK, States, Fresh, Control, InTurn
<1>3. Refs'
  BY <1>1 DEF IndInv, TypeOK, Refs, Listed, InTurn
<1>4. Lists'
  BY DEF IndInv, TypeOK, Lists, Ended, InTurn
<1>5. Fresh'
  BY DEF IndInv, TypeOK, Fresh, Uses
<1>6. Ended'
  BY DEF IndInv, TypeOK, Ended
<1>7. Control'
  BY DEF IndInv, TypeOK, Control
<1>8. SocketsApart' /\ NoSocketLeaks'
  BY DEF IndInv, TypeOK, SocketsApart, NoSocketLeaks, Live, Fresh
<1>9. Dead'
  BY DEF IndInv, Dead, FreedOnlyByStop, Uses
<1> QED
  BY <1>2, <1>3, <1>4, <1>5, <1>6, <1>7, <1>8, <1>9 DEF IndInv

LEMMA SendStep ==
    ASSUME IndInv, NEW c \in Clients, Send(c)
    PROVE  IndInv'
<1> USE Consts DEF Send, net, clients
<1>1. \A d \in Clients : U(d)' = U(d) /\ E(d)' = E(d)
  BY SameUses DEF IndInv, TypeOK
<1>2. TypeOK'
  BY DEF IndInv, TypeOK, States, Fresh, Control, InTurn
<1>3. Refs'
  BY <1>1 DEF IndInv, TypeOK, Refs, Listed, InTurn
<1>4. Lists'
  BY DEF IndInv, TypeOK, Lists, Ended, InTurn
<1>5. Fresh'
  BY DEF IndInv, TypeOK, Fresh, Uses
<1>6. Ended'
  BY DEF IndInv, TypeOK, Ended
<1>7. Control'
  BY DEF IndInv, TypeOK, Control
<1>8. SocketsApart' /\ NoSocketLeaks'
  BY DEF IndInv, TypeOK, SocketsApart, NoSocketLeaks, Live, Fresh
<1>9. Dead'
  BY DEF IndInv, Dead, FreedOnlyByStop, Uses
<1> QED
  BY <1>2, <1>3, <1>4, <1>5, <1>6, <1>7, <1>8, <1>9 DEF IndInv

LEMMA BuildSetStep ==
    ASSUME IndInv, BuildSet
    PROVE  IndInv'
<1> USE Consts DEF BuildSet, Become, net, clients
<1>s. stop # "dead"
  BY DEF IndInv, Ended, Threads
<1>1. \A d \in Clients : U(d)' = U(d) /\ E(d)' = E(d)
  BY SameUses DEF IndInv, TypeOK
<1>2. TypeOK'
  BY Counted, <1>s DEF IndInv, TypeOK, States, Fresh, Control, InTurn
<1>3. Refs'
  BY <1>1, Counted, <1>s DEF IndInv, TypeOK, Refs, Listed, InTurn
<1>4. Lists'
  BY DEF IndInv, TypeOK, Lists, Ended, InTurn
<1>5. Fresh'
  BY Counted, <1>s DEF IndInv, TypeOK, Fresh, Uses
<1>6. Ended'
  BY Counted, <1>s DEF IndInv, TypeOK, Ended
<1>7. Control'
  BY DEF IndInv, TypeOK, Control
<1>8. SocketsApart' /\ NoSocketLeaks'
  BY Counted, <1>s DEF IndInv, TypeOK, SocketsApart, NoSocketLeaks, Live, Fresh
<1>9. Dead'
  BY <1>s DEF Dead
<1> QED
  BY <1>2, <1>3, <1>4, <1>5, <1>6, <1>7, <1>8, <1>9 DEF IndInv

LEMMA SelectFailsStep ==
    ASSUME IndInv, SelectFails
    PROVE  IndInv'
<1> USE Consts DEF SelectFails, Become, net, clients
<1>s. stop # "dead"
  BY DEF IndInv, Ended, Threads
<1>1. \A d \in Clients : U(d)' = U(d) /\ E(d)' = E(d)
  BY SameUses DEF IndInv, TypeOK
<1>2. TypeOK'
  BY Counted, <1>s DEF IndInv, TypeOK, States, Fresh, Control, InTurn
<1>3. Refs'
  BY <1>1, Counted, <1>s DEF IndInv, TypeOK, Refs, Listed, InTurn
<1>4. Lists'
  BY DEF IndInv, TypeOK, Lists, Ended, InTurn
<1>5. Fresh'
  BY Counted, <1>s DEF IndInv, TypeOK, Fresh, Uses
<1>6. Ended'
  BY Counted, <1>s DEF IndInv, TypeOK, Ended
<1>7. Control'
  BY DEF IndInv, TypeOK, Control
<1>8. SocketsApart' /\ NoSocketLeaks'
  BY Counted, <1>s DEF IndInv, TypeOK, SocketsApart, NoSocketLeaks, Live, Fresh
<1>9. Dead'
  BY <1>s DEF Dead
<1> QED
  BY <1>2, <1>3, <1>4, <1>5, <1>6, <1>7, <1>8, <1>9 DEF IndInv

LEMMA SelectReturnsStep ==
    ASSUME IndInv, SelectReturns
    PROVE  IndInv'
<1> USE Consts DEF SelectReturns, Become, net, clients
<1>s. stop # "dead"
  BY DEF IndInv, Ended, Threads
<1>1. \A d \in Clients : U(d)' = U(d) /\ E(d)' = E(d)
  BY SameUses DEF IndInv, TypeOK
<1>2. TypeOK'
  BY Counted, <1>s DEF IndInv, TypeOK, States, Fresh, Control, InTurn
<1>3. Refs'
  BY <1>1, Counted, <1>s DEF IndInv, TypeOK, Refs, Listed, InTurn
<1>4. Lists'
  BY DEF IndInv, TypeOK, Lists, Ended, InTurn
<1>5. Fresh'
  BY Counted, <1>s DEF IndInv, TypeOK, Fresh, Uses
<1>6. Ended'
  BY Counted, <1>s DEF IndInv, TypeOK, Ended
<1>7. Control'
  BY DEF IndInv, TypeOK, Control
<1>8. SocketsApart' /\ NoSocketLeaks'
  BY Counted, <1>s DEF IndInv, TypeOK, SocketsApart, NoSocketLeaks, Live, Fresh
<1>9. Dead'
  BY <1>s DEF Dead
<1> QED
  BY <1>2, <1>3, <1>4, <1>5, <1>6, <1>7, <1>8, <1>9 DEF IndInv

LEMMA ReadControlStep ==
    ASSUME IndInv, ReadControl
    PROVE  IndInv'
<1> USE Consts DEF ReadControl, Become, net, clients
<1>s. stop # "dead"
  BY DEF IndInv, Ended, Threads
<1>1. \A d \in Clients : U(d)' = U(d) /\ E(d)' = E(d)
  BY SameUses DEF IndInv, TypeOK
<1>2. TypeOK'
  BY Counted, <1>s DEF IndInv, TypeOK, States, Fresh, Control, InTurn
<1>3. Refs'
  BY <1>1, Counted, <1>s DEF IndInv, TypeOK, Refs, Listed, InTurn
<1>4. Lists'
  BY DEF IndInv, TypeOK, Lists, Ended, InTurn
<1>5. Fresh'
  BY Counted, <1>s DEF IndInv, TypeOK, Fresh, Uses
<1>6. Ended'
  BY Counted, <1>s DEF IndInv, TypeOK, Ended
<1>7. Control'
  BY DEF IndInv, TypeOK, Control
<1>8. SocketsApart' /\ NoSocketLeaks'
  BY Counted, <1>s DEF IndInv, TypeOK, SocketsApart, NoSocketLeaks, Live, Fresh
<1>9. Dead'
  BY <1>s DEF Dead
<1> QED
  BY <1>2, <1>3, <1>4, <1>5, <1>6, <1>7, <1>8, <1>9 DEF IndInv

LEMMA AcceptStep ==
    ASSUME IndInv, Accept
    PROVE  IndInv'
<1> USE Consts DEF Accept, Become, net, clients
<1>s. stop # "dead"
  BY DEF IndInv, Ended, Threads
<1>0. PICK c \in queue, f \in {g \in Fds : open[g] = NULL} :
         /\ queue' = queue \ {c}
         /\ open' = [open EXCEPT ![f] = c]
         /\ mSocket' = [mSocket EXCEPT ![c] = f]
         /\ mRefCount' = [mRefCount EXCEPT ![c] = 1]
         /\ mClients' = mClients \cup {c}
  OBVIOUS
<1>a. c \in Clients /\ mRefCount[c] = 0 /\ c \notin mClients /\ c \notin deleted
  BY <1>0 DEF IndInv, TypeOK, Fresh, Ended
<1>b. U(c) = 0 /\ E(c) = 0 /\ c \notin killed
  BY <1>a, Counted, <1>s DEF IndInv, TypeOK, Refs, Listed
<1>1. \A d \in Clients : U(d)' = U(d) /\ E(d)' = E(d)
  BY SameUses DEF IndInv, TypeOK
<1>2. TypeOK'
  BY Counted, <1>s DEF IndInv, TypeOK, States, Fresh, Control, InTurn
<1>3. Refs'
  <2> SUFFICES ASSUME NEW d \in Clients
               PROVE  /\ mRefCount'[d] >= U(d)' + E(d)' + Listed(d)'
                      /\ d \notin killed' => mRefCount'[d] = U(d)' + E(d)' + Listed(d)'
    BY DEF Refs
  <2>1. CASE d = c
    BY <1>0, <1>1, <1>a, <1>b, <2>1 DEF IndInv, TypeOK, Listed
  <2>2. CASE d # c
    <3>1. mRefCount'[d] = mRefCount[d] /\ (d \in mClients' <=> d \in mClients)
      BY <1>0, <2>2 DEF IndInv, TypeOK
    <3> QED
      BY <1>1, <1>s, <3>1 DEF IndInv, Refs, Listed
  <2> QED
    BY <2>1, <2>2
<1>4. Lists'
  BY DEF IndInv, TypeOK, Lists, Ended, InTurn
<1>5. Fresh'
  BY Counted, <1>s DEF IndInv, TypeOK, Fresh, Uses
<1>6. Ended'
  BY <1>0, <1>a DEF IndInv, TypeOK, Ended
<1>7. Control'
  BY DEF IndInv, TypeOK, Control
<1>8. SocketsApart' /\ NoSocketLeaks'
  BY Counted, <1>s DEF IndInv, TypeOK, SocketsApart, NoSocketLeaks, Live, Fresh
<1>9. Dead'
  BY <1>s DEF Dead
<1> QED
  BY <1>2, <1>3, <1>4, <1>5, <1>6, <1>7, <1>8, <1>9 DEF IndInv

LEMMA AcceptFailsStep ==
    ASSUME IndInv, AcceptFails
    PROVE  IndInv'
<1> USE Consts DEF AcceptFails, Become, net, clients
<1>s. stop # "dead"
  BY DEF IndInv, Ended, Threads
<1>1. \A d \in Clients : U(d)' = U(d) /\ E(d)' = E(d)
  BY SameUses DEF IndInv, TypeOK
<1>2. TypeOK'
  BY Counted, <1>s DEF IndInv, TypeOK, States, Fresh, Control, InTurn
<1>3. Refs'
  BY <1>1, Counted, <1>s DEF IndInv, TypeOK, Refs, Listed, InTurn
<1>4. Lists'
  BY DEF IndInv, TypeOK, Lists, Ended, InTurn
<1>5. Fresh'
  BY Counted, <1>s DEF IndInv, TypeOK, Fresh, Uses
<1>6. Ended'
  BY Counted, <1>s DEF IndInv, TypeOK, Ended
<1>7. Control'
  BY DEF IndInv, TypeOK, Control
<1>8. SocketsApart' /\ NoSocketLeaks'
  BY Counted, <1>s DEF IndInv, TypeOK, SocketsApart, NoSocketLeaks, Live, Fresh
<1>9. Dead'
  BY <1>s DEF Dead
<1> QED
  BY <1>2, <1>3, <1>4, <1>5, <1>6, <1>7, <1>8, <1>9 DEF IndInv

LEMMA MakePendingStep ==
    ASSUME IndInv, MakePending
    PROVE  IndInv'
<1> USE Consts DEF MakePending, AddRefs, Become, net, clients
<1>s. stop # "dead"
  BY DEF IndInv, Ended, Threads
<1>a. Listener \in Threads /\ \A u \in Threads : u # Listener => list'[u] = list[u] /\ cur'[u] = cur[u] /\ at'[u] = at[u]
  BY DEF IndInv, TypeOK, Threads
<1>b. /\ at[Listener] = "pending" /\ list[Listener] = {} /\ cur[Listener] = NULL
      /\ at'[Listener] = "next" /\ cur'[Listener] = NULL /\ list'[Listener] \subseteq mClients
      /\ list'[Listener] = {c \in mClients : mSocket[c] \in read_fds}
  BY <1>s DEF IndInv, TypeOK, Lists, InTurn, Threads
<1>c. \A d \in Clients :
        /\ U(d)' = U(d) + (IF d \in Uses(Listener)' THEN 1 ELSE 0) - (IF d \in Uses(Listener) THEN 1 ELSE 0)
        /\ E(d)' = E(d) + (IF at'[Listener] = "erased" /\ cur'[Listener] = d THEN 1 ELSE 0)
                        - (IF at[Listener] = "erased" /\ cur[Listener] = d THEN 1 ELSE 0)
        /\ U(d) \in Nat /\ E(d) \in Nat
  BY <1>a, Moves, UseFacts
<1>1. \A d \in Clients : /\ U(d)' = U(d) + (IF d \in list'[Listener] THEN 1 ELSE 0)
                           /\ E(d)' = E(d)
  BY <1>b, <1>c, <1>s DEF IndInv, TypeOK, Lists, Uses, InTurn
<1>2. TypeOK'
  BY Counted, <1>s DEF IndInv, TypeOK, States, Fresh, Control, InTurn
<1>3. Refs'
  BY <1>1, Counted, <1>s DEF IndInv, TypeOK, Refs, Listed, InTurn
<1>4. Lists'
  BY DEF IndInv, TypeOK, Lists, Ended, InTurn
<1>5. Fresh'
  BY Counted, <1>s DEF IndInv, TypeOK, Fresh, Uses
<1>6. Ended'
  BY Counted, <1>s DEF IndInv, TypeOK, Ended
<1>7. Control'
  BY DEF IndInv, TypeOK, Control
<1>8. SocketsApart' /\ NoSocketLeaks'
  BY Counted, <1>s DEF IndInv, TypeOK, SocketsApart, NoSocketLeaks, Live, Fresh
<1>9. Dead'
  BY <1>s DEF Dead
<1> QED
  BY <1>2, <1>3, <1>4, <1>5, <1>6, <1>7, <1>8, <1>9 DEF IndInv

LEMMA onDataAvailableStep ==
    ASSUME IndInv, onDataAvailable
    PROVE  IndInv'
<1> USE Consts DEF onDataAvailable, Become, net, clients
<1>s. stop # "dead"
  BY DEF IndInv, Ended, Threads
<1>a. Listener \in Threads /\ \A u \in Threads : u # Listener => list'[u] = list[u] /\ cur'[u] = cur[u] /\ at'[u] = at[u]
  BY DEF IndInv, TypeOK, Threads
<1>b. PICK c \in list[Listener] :
        /\ c \in Clients /\ at[Listener] = "next" /\ cur[Listener] = NULL /\ cur'[Listener] = c
        /\ list'[Listener] = list[Listener] \ {c} /\ at'[Listener] \in {"done", "release"}
  BY <1>s DEF IndInv, TypeOK, Lists, InTurn, Threads
<1>c. \A d \in Clients :
        /\ U(d)' = U(d) + (IF d \in Uses(Listener)' THEN 1 ELSE 0) - (IF d \in Uses(Listener) THEN 1 ELSE 0)
        /\ E(d)' = E(d) + (IF at'[Listener] = "erased" /\ cur'[Listener] = d THEN 1 ELSE 0)
                        - (IF at[Listener] = "erased" /\ cur[Listener] = d THEN 1 ELSE 0)
        /\ U(d) \in Nat /\ E(d) \in Nat
  BY <1>a, Moves, UseFacts
<1>1. \A d \in Clients : U(d)' = U(d) /\ E(d)' = E(d)
  <2>1. Uses(Listener)' = Uses(Listener)
    BY <1>b DEF Uses
  <2> QED
    BY <1>b, <1>c, <2>1
<1>2. TypeOK'
  <2>1. at' \in [Threads -> States] /\ cur' \in [Threads -> Clients \cup {NULL}] /\ list' \in [Threads -> SUBSET Clients]
    BY <1>b DEF IndInv, TypeOK, States
  <2> QED
    BY <2>1 DEF IndInv, TypeOK
<1>3. Refs'
  BY <1>1, Counted, <1>s DEF IndInv, TypeOK, Refs, Listed, InTurn
<1>4. Lists'
  BY DEF IndInv, TypeOK, Lists, Ended, InTurn
<1>5. Fresh'
  BY Counted, <1>s DEF IndInv, TypeOK, Fresh, Uses
<1>6. Ended'
  BY Counted, <1>s DEF IndInv, TypeOK, Ended
<1>7. Control'
  BY DEF IndInv, TypeOK, Control
<1>8. SocketsApart' /\ NoSocketLeaks'
  BY Counted, <1>s DEF IndInv, TypeOK, SocketsApart, NoSocketLeaks, Live, Fresh
<1>9. Dead'
  BY <1>s DEF Dead
<1> QED
  BY <1>2, <1>3, <1>4, <1>5, <1>6, <1>7, <1>8, <1>9 DEF IndInv

LEMMA MakeSafeStep ==
    ASSUME IndInv, NEW t \in Callers, MakeSafe(t)
    PROVE  IndInv'
<1> USE Consts DEF MakeSafe, AddRefs, Become, net, clients
<1>s. stop # "dead"
  BY DEF IndInv, Ended, Threads
<1>a. t \in Threads /\ \A u \in Threads : u # t => list'[u] = list[u] /\ cur'[u] = cur[u] /\ at'[u] = at[u]
  BY DEF IndInv, TypeOK, Threads
<1>b. /\ at[t] = "idle" /\ list[t] = {} /\ cur[t] = NULL
      /\ at'[t] = "next" /\ cur'[t] = NULL /\ list'[t] = mClients
  BY <1>s DEF IndInv, TypeOK, Lists, InTurn, Threads
<1>c. \A d \in Clients :
        /\ U(d)' = U(d) + (IF d \in Uses(t)' THEN 1 ELSE 0) - (IF d \in Uses(t) THEN 1 ELSE 0)
        /\ E(d)' = E(d) + (IF at'[t] = "erased" /\ cur'[t] = d THEN 1 ELSE 0)
                        - (IF at[t] = "erased" /\ cur[t] = d THEN 1 ELSE 0)
        /\ U(d) \in Nat /\ E(d) \in Nat
  BY <1>a, Moves, UseFacts
<1>1. \A d \in Clients : /\ U(d)' = U(d) + (IF d \in mClients THEN 1 ELSE 0)
                           /\ E(d)' = E(d)
  BY <1>b, <1>c, <1>s DEF IndInv, TypeOK, Lists, Uses, InTurn
<1>2. TypeOK'
  <2>1. at' \in [Threads -> States] /\ list' \in [Threads -> SUBSET Clients]
    BY <1>a DEF IndInv, TypeOK, States
  <2>2. \A d \in Clients : mRefCount'[d] \in Nat
    BY DEF IndInv, TypeOK
  <2>3. mRefCount' \in [Clients -> Nat]
    BY <2>2
  <2> QED
    BY <2>1, <2>3 DEF IndInv, TypeOK
<1>3. Refs'
  BY <1>1, Counted, <1>s DEF IndInv, TypeOK, Refs, Listed, InTurn
<1>4. Lists'
  BY DEF IndInv, TypeOK, Lists, Ended, InTurn
<1>5. Fresh'
  BY Counted, <1>s DEF IndInv, TypeOK, Fresh, Uses
<1>6. Ended'
  BY Counted, <1>s DEF IndInv, TypeOK, Ended
<1>7. Control'
  BY DEF IndInv, TypeOK, Control
<1>8. SocketsApart' /\ NoSocketLeaks'
  BY Counted, <1>s DEF IndInv, TypeOK, SocketsApart, NoSocketLeaks, Live, Fresh
<1>9. Dead'
  BY <1>s DEF Dead
<1> QED
  BY <1>2, <1>3, <1>4, <1>5, <1>6, <1>7, <1>8, <1>9 DEF IndInv

LEMMA UseClientStep ==
    ASSUME IndInv, NEW t \in Callers, UseClient(t)
    PROVE  IndInv'
<1> USE Consts DEF UseClient, Become, net, clients
<1>s. stop # "dead"
  BY DEF IndInv, Ended, Threads
<1>a. t \in Threads /\ \A u \in Threads : u # t => list'[u] = list[u] /\ cur'[u] = cur[u] /\ at'[u] = at[u]
  BY DEF IndInv, TypeOK, Threads
<1>b. PICK c \in list[t] :
        /\ c \in Clients /\ at[t] = "next" /\ cur[t] = NULL /\ cur'[t] = c
        /\ list'[t] = list[t] \ {c} /\ at'[t] \in {"done", "release"}
  BY <1>s DEF IndInv, TypeOK, Lists, InTurn, Threads
<1>c. \A d \in Clients :
        /\ U(d)' = U(d) + (IF d \in Uses(t)' THEN 1 ELSE 0) - (IF d \in Uses(t) THEN 1 ELSE 0)
        /\ E(d)' = E(d) + (IF at'[t] = "erased" /\ cur'[t] = d THEN 1 ELSE 0)
                        - (IF at[t] = "erased" /\ cur[t] = d THEN 1 ELSE 0)
        /\ U(d) \in Nat /\ E(d) \in Nat
  BY <1>a, Moves, UseFacts
<1>1. \A d \in Clients : U(d)' = U(d) /\ E(d)' = E(d)
  BY <1>b, <1>c, <1>s DEF IndInv, TypeOK, Lists, Uses, InTurn
<1>2. TypeOK'
  <2>1. at' \in [Threads -> States] /\ cur' \in [Threads -> Clients \cup {NULL}] /\ list' \in [Threads -> SUBSET Clients]
    BY <1>a, <1>b DEF IndInv, TypeOK, States
  <2> QED
    BY <2>1 DEF IndInv, TypeOK
<1>3. Refs'
  BY <1>1, Counted, <1>s DEF IndInv, TypeOK, Refs, Listed, InTurn
<1>4. Lists'
  BY DEF IndInv, TypeOK, Lists, Ended, InTurn
<1>5. Fresh'
  BY Counted, <1>s DEF IndInv, TypeOK, Fresh, Uses
<1>6. Ended'
  BY Counted, <1>s DEF IndInv, TypeOK, Ended
<1>7. Control'
  BY DEF IndInv, TypeOK, Control
<1>8. SocketsApart' /\ NoSocketLeaks'
  BY Counted, <1>s DEF IndInv, TypeOK, SocketsApart, NoSocketLeaks, Live, Fresh
<1>9. Dead'
  BY <1>s DEF Dead
<1> QED
  BY <1>2, <1>3, <1>4, <1>5, <1>6, <1>7, <1>8, <1>9 DEF IndInv

LEMMA EraseStep ==
    ASSUME IndInv, NEW t \in Threads, Erase(t)
    PROVE  IndInv'
<1> USE Consts DEF Erase, Become, net, clients
<1>s. stop # "dead"
  BY DEF IndInv, Ended, Threads
<1>a. t \in Threads /\ \A u \in Threads : u # t => list'[u] = list[u] /\ cur'[u] = cur[u] /\ at'[u] = at[u]
  BY DEF IndInv, TypeOK, Threads
<1>b. /\ at[t] = "release" /\ cur[t] \in Clients /\ cur'[t] = cur[t] /\ list'[t] = list[t]
      /\ at'[t] = (IF mListen /\ cur[t] \in mClients THEN "erased" ELSE "done")
  BY <1>s DEF IndInv, TypeOK, Lists, InTurn, Threads
<1>c. \A d \in Clients :
        /\ U(d)' = U(d) + (IF d \in Uses(t)' THEN 1 ELSE 0) - (IF d \in Uses(t) THEN 1 ELSE 0)
        /\ E(d)' = E(d) + (IF at'[t] = "erased" /\ cur'[t] = d THEN 1 ELSE 0)
                        - (IF at[t] = "erased" /\ cur[t] = d THEN 1 ELSE 0)
        /\ U(d) \in Nat /\ E(d) \in Nat
  BY <1>a, Moves, UseFacts
<1>1. \A d \in Clients : /\ U(d)' = U(d)
                           /\ E(d)' = E(d) + (IF mListen /\ d = cur[t] /\ d \in mClients THEN 1 ELSE 0)
  BY <1>b, <1>c, <1>s DEF IndInv, TypeOK, Lists, Uses, InTurn
<1>2. TypeOK'
  BY Counted, <1>s DEF IndInv, TypeOK, States, Fresh, Control, InTurn
<1>3. Refs'
  BY <1>1, Counted, <1>s DEF IndInv, TypeOK, Refs, Listed, InTurn
<1>4. Lists'
  BY DEF IndInv, TypeOK, Lists, Ended, InTurn
<1>5. Fresh'
  BY Counted, <1>s DEF IndInv, TypeOK, Fresh, Uses
<1>6. Ended'
  BY Counted, <1>s DEF IndInv, TypeOK, Ended
<1>7. Control'
  BY DEF IndInv, TypeOK, Control
<1>8. SocketsApart' /\ NoSocketLeaks'
  BY Counted, <1>s DEF IndInv, TypeOK, SocketsApart, NoSocketLeaks, Live, Fresh
<1>9. Dead'
  BY <1>s DEF Dead
<1> QED
  BY <1>2, <1>3, <1>4, <1>5, <1>6, <1>7, <1>8, <1>9 DEF IndInv

LEMMA DropStep ==
    ASSUME IndInv, NEW t \in Threads, Drop(t)
    PROVE  IndInv'
<1> USE Consts DEF Drop, decRef, Deletes, Become, net, clients
<1>s. stop # "dead"
  BY DEF IndInv, Ended, Threads
<1>a. t \in Threads /\ \A u \in Threads : u # t => list'[u] = list[u] /\ cur'[u] = cur[u] /\ at'[u] = at[u]
  BY DEF IndInv, TypeOK, Threads
<1>b. /\ at[t] = "erased" /\ cur[t] \in Clients /\ cur'[t] = cur[t] /\ list'[t] = list[t]
      /\ at'[t] \in {"done", "wakeup"}
  BY <1>s DEF IndInv, TypeOK, Lists, InTurn, Threads
<1>c. \A d \in Clients :
        /\ U(d)' = U(d) + (IF d \in Uses(t)' THEN 1 ELSE 0) - (IF d \in Uses(t) THEN 1 ELSE 0)
        /\ E(d)' = E(d) + (IF at'[t] = "erased" /\ cur'[t] = d THEN 1 ELSE 0)
                        - (IF at[t] = "erased" /\ cur[t] = d THEN 1 ELSE 0)
        /\ U(d) \in Nat /\ E(d) \in Nat
  BY <1>a, Moves, UseFacts
<1>1. \A d \in Clients : /\ U(d)' = U(d)
                           /\ E(d)' = E(d) - (IF d = cur[t] THEN 1 ELSE 0)
  BY <1>b, <1>c, <1>s DEF IndInv, TypeOK, Lists, Uses, InTurn
<1>d. mRefCount[cur[t]] >= 2 /\ UNCHANGED <<deleted, open>>
  <2>1. U(cur[t]) >= 1 /\ E(cur[t]) >= 1
    BY <1>a, <1>b, UseFacts, Counted, <1>s DEF InTurn
  <2>2. mRefCount[cur[t]] >= 2
    BY <1>b, <1>c, <1>s, <2>1, Counted DEF IndInv, Refs, Listed
  <2> QED
    BY <2>2
<1>2. TypeOK'
  BY Counted, <1>s DEF IndInv, TypeOK, States, Fresh, Control, InTurn
<1>3. Refs'
  <2> SUFFICES ASSUME NEW d \in Clients
               PROVE  /\ mRefCount'[d] >= U(d)' + E(d)' + Listed(d)'
                      /\ d \notin killed' => mRefCount'[d] = U(d)' + E(d)' + Listed(d)'
    BY DEF Refs
  <2>1. mRefCount'[d] = mRefCount[d] - (IF d = cur[t] THEN 1 ELSE 0)
    BY <1>b, Counted, <1>s DEF IndInv, TypeOK
  <2>2. /\ mRefCount[d] >= U(d) + E(d) + Listed(d)
        /\ d \notin killed => mRefCount[d] = U(d) + E(d) + Listed(d)
    BY <1>s DEF IndInv, Refs
  <2>3. Listed(d)' = Listed(d) /\ Listed(d) \in Nat /\ killed' = killed /\ mRefCount[d] \in Nat
    BY DEF Listed, IndInv, TypeOK
  <2> QED
    BY <1>1, <1>c, <2>1, <2>2, <2>3
<1>4. Lists'
  BY DEF IndInv, TypeOK, Lists, Ended, InTurn
<1>5. Fresh'
  BY Counted, <1>s DEF IndInv, TypeOK, Fresh, Uses
<1>6. Ended'
  BY <1>b, <1>d DEF IndInv, TypeOK, Ended
<1>7. Control'
  BY DEF IndInv, TypeOK, Control
<1>8. SocketsApart' /\ NoSocketLeaks'
  BY <1>b, <1>d DEF IndInv, TypeOK, SocketsApart, NoSocketLeaks, Live, Fresh
<1>9. Dead'
  BY <1>s DEF Dead
<1> QED
  BY <1>2, <1>3, <1>4, <1>5, <1>6, <1>7, <1>8, <1>9 DEF IndInv

LEMMA WakeupStep ==
    ASSUME IndInv, NEW t \in Threads, Wakeup(t)
    PROVE  IndInv'
<1> USE Consts DEF Wakeup, Become, net, clients
<1>s. stop # "dead"
  BY DEF IndInv, Ended, Threads
<1>1. \A d \in Clients : U(d)' = U(d) /\ E(d)' = E(d)
  BY SameUses DEF IndInv, TypeOK
<1>2. TypeOK'
  BY Counted, <1>s DEF IndInv, TypeOK, States, Fresh, Control, InTurn
<1>3. Refs'
  BY <1>1, Counted, <1>s DEF IndInv, TypeOK, Refs, Listed, InTurn
<1>4. Lists'
  BY DEF IndInv, TypeOK, Lists, Ended, InTurn
<1>5. Fresh'
  BY Counted, <1>s DEF IndInv, TypeOK, Fresh, Uses
<1>6. Ended'
  BY Counted, <1>s DEF IndInv, TypeOK, Ended
<1>7. Control'
  <2>0. "wakeup" \in {"wakeup", "shutdown"} /\ mCtrlPipe \in Seq({"wakeup", "shutdown"})
    BY DEF IndInv, TypeOK
  <2>1. mCtrlPipe # <<>> => mCtrlPipe' # <<>>
    BY <2>0, AppendProperties
  <2>2. at'[Listener] = "control" => at[Listener] = "control"
    BY DEF IndInv, TypeOK
  <2> QED
    BY <2>1, <2>2 DEF IndInv, Control
<1>8. SocketsApart' /\ NoSocketLeaks'
  BY Counted, <1>s DEF IndInv, TypeOK, SocketsApart, NoSocketLeaks, Live, Fresh
<1>9. Dead'
  BY <1>s DEF Dead
<1> QED
  BY <1>2, <1>3, <1>4, <1>5, <1>6, <1>7, <1>8, <1>9 DEF IndInv

LEMMA TurnEndsStep ==
    ASSUME IndInv, NEW t \in Threads, TurnEnds(t)
    PROVE  IndInv'
<1> USE Consts DEF TurnEnds, decRef, Deletes, Become, net, clients
<1>s. stop # "dead"
  BY DEF IndInv, Ended, Threads
<1>a. t \in Threads /\ \A u \in Threads : u # t => list'[u] = list[u] /\ cur'[u] = cur[u] /\ at'[u] = at[u]
  BY DEF IndInv, TypeOK, Threads
<1>b. /\ at[t] = "done" /\ cur[t] \in Clients /\ cur'[t] = NULL /\ list'[t] = list[t]
      /\ at'[t] = "next" /\ cur[t] \notin list[t]
  BY <1>s DEF IndInv, TypeOK, Lists, InTurn, Threads
<1>c. \A d \in Clients :
        /\ U(d)' = U(d) + (IF d \in Uses(t)' THEN 1 ELSE 0) - (IF d \in Uses(t) THEN 1 ELSE 0)
        /\ E(d)' = E(d) + (IF at'[t] = "erased" /\ cur'[t] = d THEN 1 ELSE 0)
                        - (IF at[t] = "erased" /\ cur[t] = d THEN 1 ELSE 0)
        /\ U(d) \in Nat /\ E(d) \in Nat
  BY <1>a, Moves, UseFacts
<1>1. \A d \in Clients : /\ U(d)' = U(d) - (IF d = cur[t] THEN 1 ELSE 0)
                           /\ E(d)' = E(d)
  BY <1>b, <1>c, <1>s DEF IndInv, TypeOK, Lists, Uses, InTurn
<1>d. \/ mRefCount[cur[t]] = 1 /\ Deletes({cur[t]})
      \/ mRefCount[cur[t]] > 1 /\ UNCHANGED <<deleted, open>>
  BY <1>a, <1>b, Counted, <1>s DEF InTurn
<1>2. TypeOK'
  BY Counted, <1>s DEF IndInv, TypeOK, States, Fresh, Control, InTurn
<1>3. Refs'
  <2> SUFFICES ASSUME NEW d \in Clients
               PROVE  /\ mRefCount'[d] >= U(d)' + E(d)' + Listed(d)'
                      /\ d \notin killed' => mRefCount'[d] = U(d)' + E(d)' + Listed(d)'
    BY DEF Refs
  <2>1. mRefCount'[d] = mRefCount[d] - (IF d = cur[t] THEN 1 ELSE 0)
    BY <1>b, <1>s, Counted DEF IndInv, TypeOK
  <2>2. /\ mRefCount[d] >= U(d) + E(d) + Listed(d)
        /\ d \notin killed => mRefCount[d] = U(d) + E(d) + Listed(d)
    BY <1>s DEF IndInv, Refs
  <2>3. Listed(d)' = Listed(d) /\ Listed(d) \in Nat /\ killed' = killed /\ mRefCount[d] \in Nat
    BY DEF Listed, IndInv, TypeOK
  <2> QED
    BY <1>1, <1>c, <2>1, <2>2, <2>3
<1>4. Lists'
  BY DEF IndInv, TypeOK, Lists, Ended, InTurn
<1>5. Fresh'
  BY Counted, <1>s DEF IndInv, TypeOK, Fresh, Uses
<1>6. Ended'
  <2>1. \A c \in deleted' : c \notin killed => mRefCount'[c] = 0
    BY <1>a, <1>b, <1>d, Counted, <1>s DEF IndInv, TypeOK, Ended
  <2>2. stop \in {"delete", "erase", "done"} => at'[Listener] = "exited"
    BY <1>a, <1>b DEF IndInv, Ended
  <2>3. \A u \in Threads : at'[u] # "dead"
    BY <1>a, <1>b, <1>s DEF IndInv, Ended
  <2>4. \A c \in mClients : c \in deleted' => c \in killed /\ stop = "erase"
    <3>1. cur[t] \in mClients => mRefCount[cur[t]] >= 2
      <4>1. U(cur[t]) >= 1
        BY <1>a, <1>b, <1>s, UseFacts, Counted DEF InTurn
      <4> QED
        BY <1>b, <1>c, <1>s, <4>1, Counted DEF IndInv, Refs, Listed
    <3> QED
      BY <1>d, <1>s, <3>1 DEF IndInv, Ended
  <2> QED
    BY <1>s, <2>1, <2>2, <2>3, <2>4 DEF IndInv, Ended
<1>7. Control'
  BY DEF IndInv, TypeOK, Control
<1>8. SocketsApart' /\ NoSocketLeaks'
  <2>1. \A c \in Live' : c \in Live /\ (c = cur[t] => mRefCount[c] > 1)
    BY <1>b, <1>d DEF IndInv, TypeOK, Live
  <2>2. CASE mRefCount[cur[t]] = 1 /\ Deletes({cur[t]})
    <3>1. \A f \in Fds : open'[f] = (IF mListen /\ open[f] = cur[t] THEN NULL ELSE open[f])
      BY <2>2 DEF IndInv, TypeOK
    <3>2. \A c \in Live' : c # cur[t] /\ mSocket[c] \in Fds /\ open[mSocket[c]] = c
      BY <2>1, <2>2 DEF IndInv, TypeOK, SocketsApart, Fresh, Live
    <3>3. SocketsApart'
      BY <3>1, <3>2 DEF SocketsApart
    <3>4. NoSocketLeaks'
      BY <1>b, <2>2, <3>1 DEF IndInv, TypeOK, NoSocketLeaks
    <3> QED
      BY <3>3, <3>4
  <2>3. CASE mRefCount[cur[t]] > 1 /\ UNCHANGED <<deleted, open>>
    BY <1>b, <2>1, <2>3 DEF IndInv, TypeOK, SocketsApart, NoSocketLeaks
  <2> QED
    BY <1>d, <2>2, <2>3
<1>9. Dead'
  BY <1>s DEF Dead
<1> QED
  BY <1>2, <1>3, <1>4, <1>5, <1>6, <1>7, <1>8, <1>9 DEF IndInv

LEMMA ListEndsStep ==
    ASSUME IndInv, NEW t \in Threads, ListEnds(t)
    PROVE  IndInv'
<1> USE Consts DEF ListEnds, Become, net, clients
<1>s. stop # "dead"
  BY DEF IndInv, Ended, Threads
<1>1. \A d \in Clients : U(d)' = U(d) /\ E(d)' = E(d)
  BY SameUses DEF IndInv, TypeOK
<1>2. TypeOK'
  BY Counted, <1>s DEF IndInv, TypeOK, States, Fresh, Control, InTurn
<1>3. Refs'
  BY <1>1, Counted, <1>s DEF IndInv, TypeOK, Refs, Listed, InTurn
<1>4. Lists'
  BY DEF IndInv, TypeOK, Lists, Ended, InTurn
<1>5. Fresh'
  BY Counted, <1>s DEF IndInv, TypeOK, Fresh, Uses
<1>6. Ended'
  BY Counted, <1>s DEF IndInv, TypeOK, Ended
<1>7. Control'
  BY DEF IndInv, TypeOK, Control
<1>8. SocketsApart' /\ NoSocketLeaks'
  BY Counted, <1>s DEF IndInv, TypeOK, SocketsApart, NoSocketLeaks, Live, Fresh
<1>9. Dead'
  BY <1>s DEF Dead
<1> QED
  BY <1>2, <1>3, <1>4, <1>5, <1>6, <1>7, <1>8, <1>9 DEF IndInv

LEMMA stopListenerStep ==
    ASSUME IndInv, stopListener
    PROVE  IndInv'
<1> USE Consts DEF stopListener, net, clients
<1>s. stop # "dead"
  BY DEF IndInv, Ended, Threads
<1>1. \A d \in Clients : U(d)' = U(d) /\ E(d)' = E(d)
  BY SameUses DEF IndInv, TypeOK
<1>2. TypeOK'
  BY Counted, <1>s DEF IndInv, TypeOK, States, Fresh, Control, InTurn
<1>3. Refs'
  BY <1>1, Counted, <1>s DEF IndInv, TypeOK, Refs, Listed, InTurn
<1>4. Lists'
  BY DEF IndInv, TypeOK, Lists, Ended, InTurn
<1>5. Fresh'
  BY Counted, <1>s DEF IndInv, TypeOK, Fresh, Uses
<1>6. Ended'
  BY Counted, <1>s DEF IndInv, TypeOK, Ended
<1>7. Control'
  BY DEF IndInv, TypeOK, Control
<1>8. SocketsApart' /\ NoSocketLeaks'
  BY Counted, <1>s DEF IndInv, TypeOK, SocketsApart, NoSocketLeaks, Live, Fresh
<1>9. Dead'
  BY <1>s DEF Dead
<1> QED
  BY <1>2, <1>3, <1>4, <1>5, <1>6, <1>7, <1>8, <1>9 DEF IndInv

LEMMA JoinedStep ==
    ASSUME IndInv, Joined
    PROVE  IndInv'
<1> USE Consts DEF Joined, net, clients
<1>s. stop # "dead"
  OBVIOUS
<1>1. \A d \in Clients : U(d)' = U(d) /\ E(d)' = E(d)
  BY SameUses DEF IndInv, TypeOK
<1>2. TypeOK'
  BY Counted, <1>s DEF IndInv, TypeOK, States, Fresh, Control, InTurn
<1>3. Refs'
  BY <1>1, Counted, <1>s DEF IndInv, TypeOK, Refs, Listed, InTurn
<1>4. Lists'
  BY DEF IndInv, TypeOK, Lists, Ended, InTurn
<1>5. Fresh'
  BY Counted, <1>s DEF IndInv, TypeOK, Fresh, Uses
<1>6. Ended'
  BY Counted, <1>s DEF IndInv, TypeOK, Ended
<1>7. Control'
  BY DEF IndInv, TypeOK, Control, Ended
<1>8. SocketsApart' /\ NoSocketLeaks'
  BY Counted, <1>s DEF IndInv, TypeOK, SocketsApart, NoSocketLeaks, Live, Fresh
<1>9. Dead'
  BY <1>s DEF Dead
<1> QED
  BY <1>2, <1>3, <1>4, <1>5, <1>6, <1>7, <1>8, <1>9 DEF IndInv

LEMMA DeleteClientStep ==
    ASSUME IndInv, DeleteClient
    PROVE  IndInv'
<1> USE Consts DEF DeleteClient, Deletes, net, clients
<1>s. stop # "dead"
  OBVIOUS
<1>1. \A d \in Clients : U(d)' = U(d) /\ E(d)' = E(d)
  BY SameUses DEF IndInv, TypeOK
<1>2. TypeOK'
  BY Counted, <1>s DEF IndInv, TypeOK, States, Fresh, Control, InTurn
<1>3. Refs'
  BY <1>1, Counted, <1>s DEF IndInv, TypeOK, Refs, Listed, InTurn
<1>4. Lists'
  BY DEF IndInv, TypeOK, Lists, Ended, InTurn
<1>5. Fresh'
  BY Counted, <1>s DEF IndInv, TypeOK, Fresh, Uses
<1>6. Ended'
  BY Counted, <1>s DEF IndInv, TypeOK, Ended
<1>7. Control'
  BY DEF IndInv, TypeOK, Control, Ended
<1>8. SocketsApart' /\ NoSocketLeaks'
  BY Counted, <1>s DEF IndInv, TypeOK, SocketsApart, NoSocketLeaks, Live, Fresh
<1>9. Dead'
  BY <1>s DEF Dead
<1> QED
  BY <1>2, <1>3, <1>4, <1>5, <1>6, <1>7, <1>8, <1>9 DEF IndInv

LEMMA EraseClientStep ==
    ASSUME IndInv, EraseClient
    PROVE  IndInv'
<1> USE Consts DEF EraseClient, net, clients
<1>s. stop # "dead"
  OBVIOUS
<1>1. \A d \in Clients : U(d)' = U(d) /\ E(d)' = E(d)
  BY SameUses DEF IndInv, TypeOK
<1>2. TypeOK'
  BY Counted, <1>s DEF IndInv, TypeOK, States, Fresh, Control, InTurn
<1>3. Refs'
  BY <1>1, Counted, <1>s DEF IndInv, TypeOK, Refs, Listed, InTurn
<1>4. Lists'
  BY DEF IndInv, TypeOK, Lists, Ended, InTurn
<1>5. Fresh'
  BY Counted, <1>s DEF IndInv, TypeOK, Fresh, Uses
<1>6. Ended'
  BY Counted, <1>s DEF IndInv, TypeOK, Ended
<1>7. Control'
  BY DEF IndInv, TypeOK, Control, Ended
<1>8. SocketsApart' /\ NoSocketLeaks'
  BY Counted, <1>s DEF IndInv, TypeOK, SocketsApart, NoSocketLeaks, Live, Fresh
<1>9. Dead'
  BY <1>s DEF Dead
<1> QED
  BY <1>2, <1>3, <1>4, <1>5, <1>6, <1>7, <1>8, <1>9 DEF IndInv

LEMMA AllErasedStep ==
    ASSUME IndInv, AllErased
    PROVE  IndInv'
<1> USE Consts DEF AllErased, net, clients
<1>s. stop # "dead"
  OBVIOUS
<1>1. \A d \in Clients : U(d)' = U(d) /\ E(d)' = E(d)
  BY SameUses DEF IndInv, TypeOK
<1>2. TypeOK'
  BY Counted, <1>s DEF IndInv, TypeOK, States, Fresh, Control, InTurn
<1>3. Refs'
  BY <1>1, Counted, <1>s DEF IndInv, TypeOK, Refs, Listed, InTurn
<1>4. Lists'
  BY DEF IndInv, TypeOK, Lists, Ended, InTurn
<1>5. Fresh'
  BY Counted, <1>s DEF IndInv, TypeOK, Fresh, Uses
<1>6. Ended'
  BY Counted, <1>s DEF IndInv, TypeOK, Ended
<1>7. Control'
  BY DEF IndInv, TypeOK, Control, Ended
<1>8. SocketsApart' /\ NoSocketLeaks'
  BY Counted, <1>s DEF IndInv, TypeOK, SocketsApart, NoSocketLeaks, Live, Fresh
<1>9. Dead'
  BY <1>s DEF Dead
<1> QED
  BY <1>2, <1>3, <1>4, <1>5, <1>6, <1>7, <1>8, <1>9 DEF IndInv

LEMMA CrashStep ==
    ASSUME IndInv, NEW t \in Callers, Crash(t)
    PROVE  IndInv'
<1> USE Consts DEF Crash, net, clients
<1>1. TypeOK'
  BY DEF IndInv, TypeOK, States
<1>2. Refs' /\ Lists' /\ Control'
  BY DEF Refs, Lists, Control
<1>3. Fresh' /\ SocketsApart' /\ NoSocketLeaks'
  BY DEF IndInv, Fresh, SocketsApart, NoSocketLeaks, Live
<1>4. Ended'
  BY DEF IndInv, TypeOK, Ended
<1>5. Dead'
  <2>1. FreedOnlyByStop
    BY Counted
  <2>2. killed # {}
    BY <2>1 DEF FreedOnlyByStop
  <2> QED
    BY <2>1, <2>2 DEF Dead, FreedOnlyByStop, Uses
<1> QED
  BY <1>1, <1>2, <1>3, <1>4, <1>5 DEF IndInv

LEMMA StepInv == IndInv /\ [Next]_vars => IndInv'
<1> SUFFICES ASSUME IndInv, [Next]_vars PROVE IndInv'
  OBVIOUS
<1>1. CASE UNCHANGED vars
  <2>1. \A c \in Clients : U(c)' = U(c) /\ E(c)' = E(c)
    BY <1>1, SameUses DEF vars
  <2> QED
    BY <1>1, <2>1 DEF vars, net, clients, IndInv, TypeOK, Refs, Lists, Fresh, Ended, Dead, Control, SocketsApart,
       NoSocketLeaks, Live, Listed, FreedOnlyByStop, Uses
<1>2. CASE \E c \in Clients : Connect(c) \/ Send(c)
  BY <1>2, ConnectStep, SendStep
<1>3. CASE \E t \in Threads : Turn(t)
  BY <1>3, EraseStep, DropStep, WakeupStep, TurnEndsStep, ListEndsStep DEF Turn
<1>4. CASE Listening
  <2>1. CASE BuildSet \/ SelectFails \/ SelectReturns \/ ReadControl
    BY <2>1, BuildSetStep, SelectFailsStep, SelectReturnsStep, ReadControlStep
  <2>2. CASE Accept \/ AcceptFails \/ MakePending \/ onDataAvailable
    BY <2>2, AcceptStep, AcceptFailsStep, MakePendingStep, onDataAvailableStep
  <2> QED
    BY <1>3, <1>4, <2>1, <2>2, Consts DEF Listening
<1>5. CASE \E t \in Callers : MakeSafe(t) \/ UseClient(t) \/ Turn(t) \/ Crash(t)
  BY <1>3, <1>5, MakeSafeStep, UseClientStep, CrashStep DEF Threads
<1>6. CASE stopListener \/ Stopping
  BY <1>6, stopListenerStep, JoinedStep, DeleteClientStep, EraseClientStep, AllErasedStep DEF Stopping
<1> QED
  BY <1>1, <1>2, <1>4, <1>5, <1>6 DEF Next

LEMMA Invariance == Spec => []IndInv
  BY InitInv, StepInv, PTL DEF Spec

--------------------------------------------------------------------------
\* incRef, decRef, release, accept and close keep the reference counts, the
\* list of clients and the descriptors in step, in every interleaving, also
\* when the listener is stopped while other threads use its clients.
THEOREM ClientsCorrect == Spec => []ClientsInv
<1>1. IndInv => ClientsInv
  BY DEF IndInv, ClientsInv, Refs, RefsExact, Held, Listed, U, E, Users, Erasers
<1> QED
  BY <1>1, Invariance, PTL

\* decRef() never leaves a thread with a pointer to a deleted SocketClient;
\* stopListener does, to callers only, and a crash needs a client it deleted.
THEOREM StopFreesAlone == Spec => []FreedOnlyByStop
<1>1. IndInv => FreedOnlyByStop
  BY Counted DEF IndInv, Dead
<1> QED
  BY <1>1, Invariance, PTL
==========================================================================
