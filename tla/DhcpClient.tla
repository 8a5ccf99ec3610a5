---------------------------- MODULE DhcpClient ----------------------------
(***************************************************************************)
(* src/dhcpc: one run of do_dhcp on an interface.  The client broadcasts a *)
(* DISCOVER, takes the first valid OFFER, broadcasts a REQUEST and waits   *)
(* for the ACK or NAK, retransmitting with a timeout that doubles.  It     *)
(* reads a raw socket, so it sees every DHCP reply on the link, those to   *)
(* other clients included.                                                 *)
(*                                                                         *)
(* The servers and the link are the environment: requests and replies are  *)
(* lost, delayed, reordered and (MaxDup times) duplicated; replies that no *)
(* modelled server sent to this client (Foreign) arrive MaxForeign times.  *)
(***************************************************************************)
EXTENDS Integers, Sequences, FiniteSets

CONSTANTS Server,          \* the DHCP servers on the link
          Addr,            \* addresses a reply may carry
          Pool,            \* the address each server keeps for this client
          Foreign,         \* replies on the link that are not for this client
          XidMod,          \* range of a transaction id (2^32)
          FirstXid,        \* get_msecs() when the run starts
          TIMEOUT_INITIAL, TIMEOUT_MAX,
          MaxDup, MaxForeign, MaxQueue   \* bounds for TLC

None == "none"

\* Replies: form "full" has the cookie and the options, "bare" only the fixed
\* header, "runt" less than that; hw stands for htype, hlen and chaddr.
Reply == [form : {"full", "bare", "runt"}, op : {"reply", "request"},
          xid : 0 .. XidMod - 1, hw : {"self", "other"},
          type : {"OFFER", "ACK", "NAK", None}, ip : Addr, server : Server]

Info == [type : {"OFFER", "ACK", "NAK", None},
         ip : Addr \cup {None}, server : Server \cup {None}]

NoInfo == [type |-> None, ip |-> None, server |-> None]

Request == [type : {"DISCOVER", "REQUEST"}, xid : 0 .. XidMod - 1,
            ip : Addr \cup {None}, server : Server \cup {None}]

ASSUME PoolAssumption    == Pool \in [Server -> Addr]
ASSUME NoneAssumption    == None \notin Addr \cup Server
ASSUME XidAssumption     == XidMod \in Nat \ {0} /\ FirstXid \in 0 .. XidMod - 1
ASSUME TimeoutAssumption == /\ TIMEOUT_INITIAL \in Nat \ {0} /\ TIMEOUT_MAX \in Nat
                            /\ TIMEOUT_INITIAL <= TIMEOUT_MAX
ASSUME BoundAssumption   == MaxDup \in Nat /\ MaxForeign \in Nat /\ MaxQueue \in Nat

\* A reply a foreign client is meant to get, or one that is no answer at all.
NotForUs(m) == m.hw = "other" \/ m.form # "full"
ASSUME ForeignAssumption == Foreign \subseteq Reply /\ \A m \in Foreign : NotForUs(m)

VARIABLES
    pc,        \* where dhcp_init_ifc is: "start", "transmit", "poll", "done"
    state,     \* STATE_SELECTING or STATE_REQUESTING
    timeout, xid, info,
    sock,      \* the raw socket s: "none" is -1
    rxq,       \* packets waiting in the socket
    outcome,   \* how do_dhcp ended
    last_good_info,
    uplink,    \* client messages on their way: <<server, message>>
    downlink,  \* replies on their way to the client
    leases,    \* <<server, address>> a server has committed to this client
    sends,     \* history: transmissions in this state
    dups, strays \* how many duplicates and foreign replies there have been

client  == <<pc, state, timeout, xid, info, sock, outcome, last_good_info, sends>>
servers == <<uplink, leases>>
budget  == <<dups, strays>>
vars    == <<client, rxq, servers, downlink, budget>>

Init ==
    /\ pc = "start" /\ state = "SELECTING" /\ timeout = TIMEOUT_INITIAL
    /\ xid = FirstXid /\ info = NoInfo /\ sock = "none" /\ rxq = <<>>
    /\ outcome = None /\ last_good_info = NoInfo
    /\ uplink = {} /\ downlink = {} /\ leases = {}
    /\ sends = 0 /\ dups = 0 /\ strays = 0

--------------------------------------------------------------------------
(* do_dhcp and dhcp_init_ifc up to the first transmit *)

Finish(how) == pc' = "done" /\ outcome' = how

\* Resetting the address, bringing the interface up, or reading its hardware
\* address or index fails.
SetupFails ==
    /\ pc = "start"
    /\ Finish("error")
    /\ UNCHANGED <<state, timeout, xid, info, sock, last_good_info, sends,
                   rxq, servers, downlink, budget>>

open_raw_socket == sock' \in {"open", "none"}

\* open_raw_socket may return -1 and nobody looks; info.type = 0.
OpenSocket ==
    /\ pc = "start"
    /\ open_raw_socket
    /\ pc' = "transmit"
    /\ UNCHANGED <<state, timeout, xid, info, outcome, last_good_info, sends,
                   rxq, servers, downlink, budget>>

--------------------------------------------------------------------------
(* transmit: *)

init_dhcp_msg(type, ip, server) ==
    [type |-> type, xid |-> xid, ip |-> ip, server |-> server]

init_dhcp_discover_msg == init_dhcp_msg("DISCOVER", None, None)
init_dhcp_request_msg  == init_dhcp_msg("REQUEST", info.ip, info.server)

Message == IF state = "SELECTING" THEN init_dhcp_discover_msg ELSE init_dhcp_request_msg

\* A broadcast: every server on the link may get it, or sendmsg fails.
send_packet(m) ==
    \/ sock = "open" /\ uplink' = uplink \cup {<<s, m>> : s \in Server}
    \/ UNCHANGED uplink

\* A failure of send_message is only logged.
Transmit ==
    /\ pc = "transmit"
    /\ send_packet(Message)
    /\ sends' = sends + 1
    /\ pc' = "poll"
    /\ UNCHANGED <<state, timeout, xid, info, sock, outcome, last_good_info,
                   rxq, leases, downlink, budget>>

--------------------------------------------------------------------------
(* poll returns 0: nothing to read for timeout milliseconds *)

dhcp_configure == last_good_info' = info

\* Mutants of PollTimeout: without an offer the client keeps waiting; the
\* comparison with TIMEOUT_MAX allows one wait too many.
PollTimeoutNeedsOffer ==
    /\ pc = "poll" /\ rxq = <<>>
    /\ \/ /\ timeout < TIMEOUT_MAX
          /\ timeout' = timeout * 2
          /\ pc' = "transmit"
          /\ UNCHANGED <<outcome, last_good_info>>
       \/ /\ timeout >= TIMEOUT_MAX /\ info.type = "OFFER"
          /\ dhcp_configure
          /\ Finish("offered")
          /\ UNCHANGED timeout
    /\ UNCHANGED <<state, xid, info, sock, sends, rxq, servers, downlink, budget>>
PollTimeoutOnceMore ==
    /\ pc = "poll" /\ rxq = <<>>
    /\ \/ /\ timeout <= TIMEOUT_MAX
          /\ timeout' = timeout * 2
          /\ pc' = "transmit"
          /\ UNCHANGED <<outcome, sock>>
       \/ /\ timeout > TIMEOUT_MAX
          /\ sock' = "none"
          /\ Finish("timedout")
          /\ UNCHANGED timeout
    /\ UNCHANGED <<state, xid, info, sends, last_good_info, rxq, servers,
                   downlink, budget>>

PollTimeout ==
    /\ pc = "poll" /\ rxq = <<>>
    /\ \/ /\ timeout < TIMEOUT_MAX
          /\ timeout' = timeout * 2
          /\ pc' = "transmit"
          /\ UNCHANGED <<outcome, sock, last_good_info>>
       \/ /\ timeout >= TIMEOUT_MAX /\ info.type = "OFFER"
          /\ dhcp_configure
          /\ Finish("offered")
          /\ UNCHANGED <<timeout, sock>>      \* s is not closed here
       \/ /\ timeout >= TIMEOUT_MAX /\ info.type # "OFFER"
          /\ sock' = "none"
          /\ Finish("timedout")
          /\ UNCHANGED <<timeout, last_good_info>>
    /\ UNCHANGED <<state, xid, info, sends, rxq, servers, downlink, budget>>

\* poll fails for good, or receive_packet meets ENETDOWN or ENXIO.
SocketFails ==
    /\ pc = "poll" /\ sock = "open"
    /\ Finish("error")
    /\ UNCHANGED <<state, timeout, xid, info, sock, last_good_info, sends,
                   rxq, servers, downlink, budget>>

--------------------------------------------------------------------------
(* receive_packet returns a reply *)

\* The options of a reply that has them; type 0 and no addresses otherwise.
decode_dhcp_msg(m) ==
    IF m.form = "full" THEN [type |-> m.type, ip |-> m.ip, server |-> m.server]
                       ELSE NoInfo

\* Mutant of is_valid_reply: the hardware address is not compared.
ReplyToAnyHost(m) == m.form # "runt" /\ m.op = "reply" /\ m.xid = xid

is_valid_reply(m) == m.form # "runt" /\ m.op = "reply" /\ m.xid = xid /\ m.hw = "self"

\* A packet that is no DHCP reply, or whose checksums are wrong, is read and
\* changes nothing: rxq holds the others.
receive_packet == rxq # <<>> /\ rxq' = Tail(rxq)

\* info is overwritten before anybody knows whether the reply is valid.
Receive ==
    /\ pc = "poll"
    /\ receive_packet
    /\ LET m == Head(rxq)
           new == decode_dhcp_msg(m)
       IN  /\ info' = new
           /\ \/ /\ is_valid_reply(m) /\ state = "SELECTING" /\ new.type = "OFFER"
                 /\ state' = "REQUESTING"
                 /\ timeout' = TIMEOUT_INITIAL
                 /\ xid' = (xid + 1) % XidMod
                 /\ pc' = "transmit"
                 /\ sends' = 0
                 /\ UNCHANGED <<sock, outcome, last_good_info>>
              \/ /\ is_valid_reply(m) /\ state = "REQUESTING" /\ new.type = "ACK"
                 /\ sock' = "none"
                 /\ last_good_info' = new
                 /\ Finish("acked")
                 /\ UNCHANGED <<state, timeout, xid, sends>>
              \/ /\ is_valid_reply(m) /\ state = "REQUESTING" /\ new.type = "NAK"
                 /\ sock' = "none"
                 /\ Finish("nak")
                 /\ UNCHANGED <<state, timeout, xid, sends, last_good_info>>
              \/ /\ \/ ~is_valid_reply(m)
                    \/ state = "SELECTING" /\ new.type # "OFFER"
                    \/ state = "REQUESTING" /\ new.type \notin {"ACK", "NAK"}
                 /\ UNCHANGED <<pc, state, timeout, xid, sock, outcome, last_good_info,
                                sends>>
    /\ UNCHANGED <<servers, downlink, budget>>

--------------------------------------------------------------------------
(* The environment, as long as somebody looks *)

Running == pc # "done"

Answer(s, m, type) ==
    [form |-> "full", op |-> "reply", xid |-> m.xid, hw |-> "self",
     type |-> type, ip |-> Pool[s], server |-> s]

\* A server offers the address it keeps for the client.
ServerOffers(s, m) ==
    /\ Running /\ <<s, m>> \in uplink /\ m.type = "DISCOVER"
    /\ uplink' = uplink \ {<<s, m>>}
    /\ downlink' = downlink \cup {Answer(s, m, "OFFER")}
    /\ UNCHANGED <<client, rxq, leases, budget>>

\* A server named in a REQUEST commits that lease or refuses.
ServerAnswers(s, m) ==
    /\ Running /\ <<s, m>> \in uplink /\ m.type = "REQUEST" /\ m.server = s
    /\ uplink' = uplink \ {<<s, m>>}
    /\ \/ /\ m.ip = Pool[s]
          /\ leases' = leases \cup {<<s, m.ip>>}
          /\ downlink' = downlink \cup {Answer(s, m, "ACK")}
       \/ /\ downlink' = downlink \cup {Answer(s, m, "NAK")}
          /\ UNCHANGED leases
    /\ UNCHANGED <<client, rxq, budget>>

\* A REQUEST that names another server is dropped; any message may be lost.
UplinkLoses(s, m) ==
    /\ Running /\ <<s, m>> \in uplink
    /\ uplink' = uplink \ {<<s, m>>}
    /\ UNCHANGED <<client, rxq, leases, downlink, budget>>

\* A reply reaches the socket, perhaps to come again; a full socket drops it.
Deliver(m, again) ==
    /\ Running /\ m \in downlink
    /\ again => dups < MaxDup
    /\ downlink' = IF again THEN downlink ELSE downlink \ {m}
    /\ dups' = IF again THEN dups + 1 ELSE dups
    /\ rxq' = IF sock = "open" /\ Len(rxq) < MaxQueue THEN Append(rxq, m) ELSE rxq
    /\ UNCHANGED <<client, servers, strays>>

DownlinkLoses(m) ==
    /\ Running /\ m \in downlink
    /\ downlink' = downlink \ {m}
    /\ UNCHANGED <<client, rxq, servers, budget>>

\* A reply to somebody else, or a malformed one, is heard.
StrayArrives(m) ==
    /\ Running /\ strays < MaxForeign /\ sock = "open" /\ Len(rxq) < MaxQueue
    /\ strays' = strays + 1
    /\ rxq' = Append(rxq, m)
    /\ UNCHANGED <<client, servers, downlink, dups>>

--------------------------------------------------------------------------
ClientStep == SetupFails \/ OpenSocket \/ Transmit \/ PollTimeout \/ SocketFails \/ Receive

Environment ==
    \/ \E e \in uplink : \/ ServerOffers(e[1], e[2])
                         \/ ServerAnswers(e[1], e[2])
                         \/ UplinkLoses(e[1], e[2])
    \/ \E m \in downlink : DownlinkLoses(m) \/ \E again \in BOOLEAN : Deliver(m, again)
    \/ \E m \in Foreign : StrayArrives(m)

Next == ClientStep \/ Environment

\* The client thread runs, reads what there is to read, and poll returns at the
\* latest when its time is up.  Nothing has to fail.
Spec     == Init /\ [][Next]_vars
FairSpec == Spec /\ WF_vars(OpenSocket) /\ WF_vars(Transmit)
                 /\ WF_vars(PollTimeout) /\ WF_vars(Receive)

--------------------------------------------------------------------------
(* Properties *)

\* The variables of dhcp_init_ifc and of the link keep their types.
TypeOK ==
    /\ pc \in {"start", "transmit", "poll", "done"}
    /\ state \in {"SELECTING", "REQUESTING"}
    /\ timeout \in Nat /\ xid \in 0 .. XidMod - 1
    /\ info \in Info /\ last_good_info \in Info
    /\ sock \in {"none", "open"} /\ rxq \in Seq(Reply)
    /\ outcome \in {None, "error", "offered", "timedout", "acked", "nak"}
    /\ uplink \subseteq Server \X Request /\ downlink \subseteq Reply
    /\ leases \subseteq Server \X Addr
    /\ sends \in Nat /\ dups \in 0 .. MaxDup /\ strays \in 0 .. MaxForeign

\* An interface configured after an ACK (dhcp_init_ifc, STATE_REQUESTING) has
\* an address that the server it names has leased to this client, whatever was
\* lost, duplicated, reordered or overheard.
AckedLease ==
    outcome = "acked" => <<last_good_info.server, last_good_info.ip>> \in leases

\* The retransmission schedule: in each state the n-th wait is TIMEOUT_INITIAL
\* doubled n - 1 times, and the client gives up only after the wait that
\* reaches TIMEOUT_MAX.
Backoff ==
    /\ pc = "poll" => timeout = TIMEOUT_INITIAL * 2 ^ (sends - 1)
    /\ outcome \in {"offered", "timedout"} => timeout >= TIMEOUT_MAX
    /\ timeout < 2 * TIMEOUT_MAX

\* do_dhcp comes to an end when the link goes quiet.
Terminates == <>(pc = "done")
==========================================================================
