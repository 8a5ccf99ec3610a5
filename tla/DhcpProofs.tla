---------------------------- MODULE DhcpProofs ----------------------------
(***************************************************************************)
(* Proofs about DhcpClient for any set of servers, any pool of addresses,  *)
(* any foreign traffic and any number of losses and duplicates.            *)
(***************************************************************************)
EXTENDS DhcpClient, SequenceTheorems, TLAPS

\* The link itself never makes up an acknowledgement: an ACK for this client,
\* on its way or waiting in the socket, is backed by a lease.
Backed(m) ==
    (m.form = "full" /\ m.hw = "self" /\ m.type = "ACK")
        => <<m.server, m.ip>> \in leases

AcksBacked ==
    /\ \A m \in downlink : Backed(m)
    /\ \A i \in 1 .. Len(rxq) : Backed(rxq[i])

Inv == TypeOK /\ AcksBacked /\ AckedLease

--------------------------------------------------------------------------
LEMMA NoInfoType == NoInfo \in Info
  BY DEF NoInfo, Info

\* A decoded reply is a well-typed dhcp_info.
LEMMA DecodeType ==
    ASSUME NEW m \in Reply
    PROVE  /\ decode_dhcp_msg(m) \in Info
           /\ decode_dhcp_msg(m).type = "ACK" =>
                 /\ m.form = "full" /\ m.type = "ACK"
                 /\ decode_dhcp_msg(m).server = m.server
                 /\ decode_dhcp_msg(m).ip = m.ip
<1>1. CASE m.form = "full"
  BY <1>1 DEF decode_dhcp_msg, Reply, Info
<1>2. CASE m.form # "full"
  BY <1>2, NoInfoType DEF decode_dhcp_msg, NoInfo, None
<1> QED
  BY <1>1, <1>2

\* Server answers are well-typed replies.
LEMMA AnswerType ==
    ASSUME NEW s \in Server, NEW m \in Request, NEW t \in {"OFFER", "ACK", "NAK"}
    PROVE  /\ Answer(s, m, t) \in Reply
           /\ Answer(s, m, t).type = t
           /\ Answer(s, m, t).server = s /\ Answer(s, m, t).ip = Pool[s]
  BY PoolAssumption DEF Answer, Reply, Request

LEMMA MessageType ==
    ASSUME TypeOK
    PROVE  Message \in Request
  BY DEF TypeOK, Message, init_dhcp_discover_msg, init_dhcp_request_msg,
         init_dhcp_msg, Request, Info

\* An interface with an ACKed address keeps it as long as leases only grow.
LEMMA AckedFrame ==
    ASSUME AckedLease, UNCHANGED <<outcome, last_good_info>>, leases \subseteq leases'
    PROVE  AckedLease'
  BY DEF AckedLease

LEMMA BackedFrame ==
    ASSUME AcksBacked, UNCHANGED <<downlink, rxq>>, leases \subseteq leases'
    PROVE  AcksBacked'
  BY DEF AcksBacked, Backed

--------------------------------------------------------------------------
LEMMA InitInv == Init => Inv
<1> SUFFICES ASSUME Init PROVE Inv
  OBVIOUS
<1>1. TypeOK
  BY NoInfoType, XidAssumption, TimeoutAssumption, BoundAssumption
     DEF Init, TypeOK, None
<1>2. AcksBacked /\ AckedLease
  BY DEF Init, AcksBacked, AckedLease, None
<1> QED
  BY <1>1, <1>2 DEF Inv

\* Steps of the client that only move its control.
LEMMA ClientControlInv ==
    ASSUME Inv, SetupFails \/ OpenSocket \/ Transmit \/ PollTimeout \/ SocketFails
    PROVE  Inv'
<1> USE DEF Inv, None
<1>1. CASE SetupFails
  <2>1. TypeOK'
    BY <1>1 DEF SetupFails, Finish, TypeOK, servers, budget
  <2>2. AcksBacked'
    BY <1>1, BackedFrame DEF SetupFails, servers
  <2> QED
    BY <1>1, <2>1, <2>2 DEF SetupFails, Finish, AckedLease
<1>2. CASE OpenSocket
  <2>1. TypeOK'
    BY <1>2 DEF OpenSocket, open_raw_socket, TypeOK, servers, budget
  <2> QED
    BY <1>2, <2>1, BackedFrame, AckedFrame DEF OpenSocket, servers
<1>3. CASE Transmit
  <2>1. uplink' \subseteq Server \X Request
    BY <1>3, MessageType DEF Transmit, send_packet, TypeOK
  <2>2. TypeOK'
    BY <1>3, <2>1 DEF Transmit, TypeOK, budget
  <2> QED
    BY <1>3, <2>2, BackedFrame, AckedFrame DEF Transmit
<1>4. CASE PollTimeout
  <2>1. timeout' \in Nat
    BY <1>4 DEF PollTimeout, TypeOK
  <2>2. TypeOK'
    BY <1>4, <2>1 DEF PollTimeout, Finish, dhcp_configure, TypeOK, servers, budget
  <2>3. AcksBacked'
    BY <1>4, BackedFrame DEF PollTimeout, servers
  <2>4. AckedLease'
    BY <1>4 DEF PollTimeout, Finish, dhcp_configure, AckedLease, servers
  <2> QED
    BY <2>2, <2>3, <2>4
<1>5. CASE SocketFails
  <2>1. TypeOK'
    BY <1>5 DEF SocketFails, Finish, TypeOK, servers, budget
  <2>2. AcksBacked'
    BY <1>5, BackedFrame DEF SocketFails, servers
  <2> QED
    BY <1>5, <2>1, <2>2 DEF SocketFails, Finish, AckedLease
<1> QED
  BY <1>1, <1>2, <1>3, <1>4, <1>5

\* Reading a reply.
LEMMA ReceiveInv ==
    ASSUME Inv, Receive
    PROVE  Inv'
<1> USE DEF Inv
<1> DEFINE m == Head(rxq)
           new == decode_dhcp_msg(m)
<1>1. rxq \in Seq(Reply) /\ rxq # <<>>
  BY DEF Receive, receive_packet, TypeOK
<1>2. /\ m \in Reply /\ m = rxq[1] /\ 1 \in 1 .. Len(rxq)
      /\ Tail(rxq) \in Seq(Reply)
      /\ Len(Tail(rxq)) = Len(rxq) - 1 /\ Len(rxq) \in Nat
      /\ \A i \in 1 .. Len(rxq) - 1 : Tail(rxq)[i] = rxq[i + 1] /\ i + 1 \in 1 .. Len(rxq)
  BY <1>1, SMT
<1>3. new \in Info
      /\ (new.type = "ACK" => /\ m.form = "full" /\ m.type = "ACK"
                              /\ new.server = m.server /\ new.ip = m.ip)
  BY <1>2, DecodeType
<1>4. rxq' = Tail(rxq) /\ info' = new
      /\ UNCHANGED <<uplink, leases, downlink, dups, strays>>
  BY DEF Receive, receive_packet, servers, budget
<1>5. Backed(m)
  BY <1>2 DEF AcksBacked
<1>6. AcksBacked'
  BY <1>2, <1>4 DEF AcksBacked, Backed
<1>7. (xid + 1) % XidMod \in 0 .. XidMod - 1
  BY XidAssumption, SMT DEF TypeOK
<1>8. TypeOK' /\ AckedLease'
  <2>1. CASE /\ is_valid_reply(m) /\ state = "SELECTING" /\ new.type = "OFFER"
             /\ state' = "REQUESTING" /\ timeout' = TIMEOUT_INITIAL
             /\ xid' = (xid + 1) % XidMod /\ pc' = "transmit"
             /\ sends' = 0
             /\ UNCHANGED <<sock, outcome, last_good_info>>
    <3>1. TypeOK'
      BY <1>2, <1>3, <1>4, <1>7, <2>1, TimeoutAssumption DEF TypeOK
    <3>2. AckedLease'
      BY <1>4, <2>1, AckedFrame
    <3> QED
      BY <3>1, <3>2
  <2>2. CASE /\ is_valid_reply(m) /\ state = "REQUESTING" /\ new.type = "ACK"
             /\ sock' = "none" /\ last_good_info' = new /\ Finish("acked")
             /\ UNCHANGED <<state, timeout, xid, sends>>
    <3>1. TypeOK'
      BY <1>2, <1>3, <1>4, <2>2 DEF TypeOK, Finish
    <3>2. <<m.server, m.ip>> \in leases
      BY <1>3, <1>5, <2>2 DEF Backed, is_valid_reply
    <3>3. AckedLease'
      BY <1>3, <1>4, <2>2, <3>2 DEF AckedLease
    <3> QED
      BY <3>1, <3>3
  <2>3. CASE /\ is_valid_reply(m) /\ state = "REQUESTING" /\ new.type = "NAK"
             /\ sock' = "none" /\ Finish("nak")
             /\ UNCHANGED <<state, timeout, xid, sends, last_good_info>>
    BY <1>2, <1>3, <1>4, <2>3 DEF TypeOK, Finish, AckedLease
  <2>4. CASE UNCHANGED <<pc, state, timeout, xid, sock, outcome, last_good_info,
                         sends>>
    <3>1. TypeOK'
      BY <1>2, <1>3, <1>4, <2>4 DEF TypeOK
    <3> QED
      BY <1>4, <2>4, <3>1, AckedFrame
  <2> QED
    BY <2>1, <2>2, <2>3, <2>4 DEF Receive
<1> QED
  BY <1>6, <1>8

\* A server answers; a lease is committed before its ACK is sent.
LEMMA ServerInv ==
    ASSUME Inv, NEW e \in uplink,
           ServerOffers(e[1], e[2]) \/ ServerAnswers(e[1], e[2]) \/ UplinkLoses(e[1], e[2])
    PROVE  Inv'
<1> USE DEF Inv
<1>1. e[1] \in Server /\ e[2] \in Request /\ Pool[e[1]] \in Addr
  BY PoolAssumption DEF TypeOK
<1>2. UNCHANGED <<client, rxq, budget>> /\ uplink' \subseteq uplink
  BY DEF ServerOffers, ServerAnswers, UplinkLoses
<1>3. leases \subseteq leases' /\ leases' \subseteq Server \X Addr
  BY <1>1 DEF ServerOffers, ServerAnswers, UplinkLoses, TypeOK
<1>4. /\ downlink' \subseteq Reply
      /\ \A m \in downlink' : Backed(m)'
  <2>1. \A m \in downlink : Backed(m)'
    BY <1>3 DEF AcksBacked, Backed
  <2>2. CASE ServerOffers(e[1], e[2])
    <3>1. /\ downlink' = downlink \cup {Answer(e[1], e[2], "OFFER")}
          /\ Answer(e[1], e[2], "OFFER") \in Reply
          /\ Answer(e[1], e[2], "OFFER").type # "ACK"
      BY <1>1, <2>2, AnswerType DEF ServerOffers
    <3> QED
      BY <2>1, <3>1 DEF TypeOK, Backed
  <2>3. CASE /\ e[2].ip = Pool[e[1]]
             /\ leases' = leases \cup {<<e[1], e[2].ip>>}
             /\ downlink' = downlink \cup {Answer(e[1], e[2], "ACK")}
    <3>1. /\ Answer(e[1], e[2], "ACK") \in Reply
          /\ Answer(e[1], e[2], "ACK").server = e[1]
          /\ Answer(e[1], e[2], "ACK").ip = Pool[e[1]]
      BY <1>1, AnswerType
    <3>2. Backed(Answer(e[1], e[2], "ACK"))'
      BY <2>3, <3>1 DEF Backed
    <3> QED
      BY <2>1, <2>3, <3>1, <3>2 DEF TypeOK
  <2>4. CASE downlink' = downlink \cup {Answer(e[1], e[2], "NAK")}
    <3>1. Answer(e[1], e[2], "NAK") \in Reply /\ Answer(e[1], e[2], "NAK").type # "ACK"
      BY <1>1, AnswerType
    <3> QED
      BY <2>1, <2>4, <3>1 DEF TypeOK, Backed
  <2>5. CASE UplinkLoses(e[1], e[2])
    BY <2>1, <2>5 DEF UplinkLoses, TypeOK
  <2> QED
    BY <2>2, <2>3, <2>4, <2>5 DEF ServerAnswers
<1>5. TypeOK'
  BY <1>2, <1>3, <1>4 DEF TypeOK, client, budget
<1>6. AcksBacked'
  BY <1>2, <1>3, <1>4 DEF AcksBacked, Backed
<1>7. AckedLease'
  BY <1>2, <1>3, AckedFrame DEF client
<1> QED
  BY <1>5, <1>6, <1>7

\* Appending a backed reply keeps the queue backed.
LEMMA AppendBacked ==
    ASSUME NEW m \in Reply, Backed(m), rxq \in Seq(Reply), AcksBacked,
           rxq' = Append(rxq, m), leases' = leases
    PROVE  rxq' \in Seq(Reply) /\ (\A i \in 1 .. Len(rxq) : Backed(rxq[i]))'
<1>1. /\ Append(rxq, m) \in Seq(Reply) /\ Len(Append(rxq, m)) = Len(rxq) + 1
      /\ \A i \in 1 .. Len(rxq) : Append(rxq, m)[i] = rxq[i]
      /\ Append(rxq, m)[Len(rxq) + 1] = m
      /\ \A i \in 1 .. Len(rxq) + 1 : i \in 1 .. Len(rxq) \/ i = Len(rxq) + 1
  BY SMT
<1> QED
  BY <1>1 DEF AcksBacked, Backed

LEMMA DeliveryInv ==
    ASSUME Inv,
           \/ \E m \in downlink : DownlinkLoses(m) \/ \E again \in BOOLEAN : Deliver(m, again)
           \/ \E m \in Foreign : StrayArrives(m)
    PROVE  Inv'
<1> USE DEF Inv
<1>1. UNCHANGED <<client, servers>> /\ downlink' \subseteq downlink
      /\ dups' \in 0 .. MaxDup /\ strays' \in 0 .. MaxForeign
  BY BoundAssumption, SMT DEF DownlinkLoses, Deliver, StrayArrives, budget, TypeOK
<1>2. rxq' \in Seq(Reply) /\ (\A i \in 1 .. Len(rxq) : Backed(rxq[i]))'
  <2>1. rxq \in Seq(Reply) /\ leases' = leases /\ downlink \subseteq Reply
    BY <1>1 DEF TypeOK, servers
  <2>2. CASE rxq' = rxq
    BY <2>1, <2>2 DEF AcksBacked, Backed
  <2>3. CASE \E m \in downlink : rxq' = Append(rxq, m)
    BY <2>1, <2>3, AppendBacked DEF AcksBacked
  <2>4. CASE \E m \in Foreign : rxq' = Append(rxq, m)
    <3>1. \A m \in Foreign : m \in Reply /\ Backed(m)
      BY ForeignAssumption DEF NotForUs, Backed
    <3> QED
      BY <2>1, <2>4, <3>1, AppendBacked
  <2> QED
    BY <2>2, <2>3, <2>4 DEF DownlinkLoses, Deliver, StrayArrives
<1>3. TypeOK'
  BY <1>1, <1>2 DEF TypeOK, client, servers
<1>4. AcksBacked'
  BY <1>1, <1>2 DEF AcksBacked, Backed, servers
<1>5. AckedLease'
  BY <1>1, AckedFrame DEF client, servers
<1> QED
  BY <1>3, <1>4, <1>5

LEMMA StutterInv ==
    ASSUME Inv, UNCHANGED vars
    PROVE  Inv'
  BY DEF Inv, vars, client, servers, budget, TypeOK, AcksBacked, Backed, AckedLease

LEMMA Invariance == Spec => []Inv
<1>1. Inv /\ [Next]_vars => Inv'
  <2> SUFFICES ASSUME Inv, [Next]_vars PROVE Inv'
    OBVIOUS
  <2>1. CASE ClientStep
    BY <2>1, ClientControlInv, ReceiveInv DEF ClientStep
  <2>2. CASE Environment
    BY <2>2, ServerInv, DeliveryInv DEF Environment
  <2>3. CASE UNCHANGED vars
    BY <2>3, StutterInv
  <2> QED
    BY <2>1, <2>2, <2>3 DEF Next
<1> QED
  BY <1>1, InitInv, PTL DEF Spec

--------------------------------------------------------------------------
\* Type correctness of the DHCP client and of the link it talks over.
THEOREM TypeCorrect == Spec => []TypeOK
  BY Invariance, PTL DEF Inv

\* When dhcp_init_ifc configures the interface after an ACK, the server that
\* the configuration names has leased that address to this client.
THEOREM AckedLeaseHolds == Spec => []AckedLease
  BY Invariance, PTL DEF Inv

--------------------------------------------------------------------------
(* The retransmission schedule *)

\* What defines the powers of two; the provers know it of literals only.
PowersOfTwo == \A n \in Nat : 2 ^ n \in Nat /\ 2 ^ (n + 1) = 2 * 2 ^ n

\* Backoff, also for the message about to be sent, and what keeps a run that
\* has ended from changing its timeout.
Schedule ==
    /\ pc \in {"start", "transmit"} => timeout = TIMEOUT_INITIAL * 2 ^ sends
    /\ pc = "poll" => \E n \in Nat : sends = n + 1 /\ timeout = TIMEOUT_INITIAL * 2 ^ n
    /\ pc # "done" => outcome = None
    /\ outcome \in {"offered", "timedout"} => timeout >= TIMEOUT_MAX
    /\ timeout < 2 * TIMEOUT_MAX

LEMMA InitSchedule == Init => Schedule
<1>1. TIMEOUT_INITIAL * 2 ^ 0 = TIMEOUT_INITIAL
  BY TimeoutAssumption
<1> QED
  BY <1>1, TimeoutAssumption DEF Init, Schedule, None

LEMMA StepSchedule ==
    ASSUME PowersOfTwo, TypeOK, Schedule, [Next]_vars
    PROVE  Schedule'
<1> USE TimeoutAssumption DEF None
<1>1. CASE Transmit
  <2>1. sends \in Nat /\ sends' = sends + 1 /\ timeout = TIMEOUT_INITIAL * 2 ^ sends
        /\ UNCHANGED <<timeout, outcome>> /\ pc = "transmit" /\ pc' = "poll"
    BY <1>1 DEF Transmit, TypeOK, Schedule
  <2> QED
    BY <2>1 DEF Schedule
<1>2. CASE PollTimeout
  <2>1. PICK n \in Nat : sends = n + 1 /\ timeout = TIMEOUT_INITIAL * 2 ^ n
    BY <1>2 DEF PollTimeout, Schedule
  <2>2. timeout * 2 = TIMEOUT_INITIAL * 2 ^ sends
    <3>1. 2 ^ n \in Nat /\ 2 ^ sends = 2 * 2 ^ n
      BY <2>1 DEF PowersOfTwo
    <3> QED
      BY <2>1, <3>1
  <2>3. \/ /\ timeout < TIMEOUT_MAX /\ timeout' = timeout * 2
           /\ pc' = "transmit" /\ UNCHANGED <<outcome, sends>>
        \/ timeout >= TIMEOUT_MAX /\ pc' = "done" /\ UNCHANGED <<timeout, sends>>
    BY <1>2 DEF PollTimeout, Finish
  <2>4. timeout' < 2 * TIMEOUT_MAX
    BY <2>3 DEF TypeOK, Schedule
  <2>5. pc = "poll" /\ outcome = None
    BY <1>2 DEF PollTimeout, Schedule
  <2>6. pc' = "transmit" => timeout' = TIMEOUT_INITIAL * 2 ^ sends'
    BY <2>2, <2>3
  <2> QED
    BY <2>3, <2>4, <2>5, <2>6 DEF Schedule
<1>3. CASE Receive
  <2>1. 2 ^ 0 = 1
    OBVIOUS
  <2>2. \/ pc' = "transmit" /\ timeout' = TIMEOUT_INITIAL /\ sends' = 0 /\ UNCHANGED outcome
        \/ pc' = "done" /\ outcome' \in {"acked", "nak"} /\ UNCHANGED timeout
        \/ UNCHANGED <<pc, timeout, sends, outcome>>
    BY <1>3 DEF Receive, Finish
  <2>3. pc = "poll"
    BY <1>3 DEF Receive
  <2>4. sends' = 0 => 2 ^ sends' = 1
    BY <2>1, Zenon
  <2>5. sends' = 0 /\ timeout' = TIMEOUT_INITIAL => timeout' = TIMEOUT_INITIAL * 2 ^ sends'
    BY <2>4
  <2> QED
    BY <2>2, <2>3, <2>5 DEF Schedule
<1>4. CASE OpenSocket \/ SetupFails \/ SocketFails
  BY <1>4 DEF OpenSocket, SetupFails, SocketFails, Finish, Schedule
<1>5. CASE Environment \/ UNCHANGED vars
  <2>1. UNCHANGED client
    BY <1>5 DEF Environment, ServerOffers, ServerAnswers, UplinkLoses, Deliver, DownlinkLoses,
                StrayArrives, vars
  <2> QED
    BY <2>1 DEF client, Schedule
<1> QED
  BY <1>1, <1>2, <1>3, <1>4, <1>5 DEF Next, ClientStep

\* In each state the n-th wait is TIMEOUT_INITIAL doubled n - 1 times, and the
\* client gives up only after the wait that reaches TIMEOUT_MAX
\* (dhcp_init_ifc), whatever is received meanwhile.
THEOREM BacksOff == PowersOfTwo => (Spec => []Backoff)
<1> SUFFICES ASSUME PowersOfTwo PROVE Spec => []Backoff
  OBVIOUS
<1>1. Schedule => Backoff
  <2> SUFFICES ASSUME Schedule PROVE Backoff
    OBVIOUS
  <2>1. pc = "poll" => timeout = TIMEOUT_INITIAL * 2 ^ (sends - 1)
    <3> SUFFICES ASSUME pc = "poll" PROVE timeout = TIMEOUT_INITIAL * 2 ^ (sends - 1)
      OBVIOUS
    <3>1. PICK n \in Nat : sends = n + 1 /\ timeout = TIMEOUT_INITIAL * 2 ^ n
      BY DEF Schedule
    <3>2. sends - 1 = n
      BY <3>1
    <3> QED
      BY <3>1, <3>2
  <2> QED
    BY <2>1 DEF Schedule, Backoff
<1>2. TypeOK /\ Schedule /\ [Next]_vars => Schedule'
  BY StepSchedule
<1> QED
  BY TypeCorrect, InitSchedule, <1>1, <1>2, PTL DEF Spec
==========================================================================
