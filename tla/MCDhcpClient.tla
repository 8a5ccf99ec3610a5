--------------------------- MODULE MCDhcpClient ---------------------------
(* DhcpClient for TLC: two servers with an address each, and what a third   *)
(* host on the link may cause the client to hear.                           *)
EXTENDS DhcpClient

TwoServers == {"A", "B"}
MCPool     == [s \in TwoServers |-> IF s = "A" THEN "a1" ELSE "a2"]
MCAddr     == {"a1", "a2", "a3"}

\* An offer and an acknowledgement to another client, and replies with this client's transaction id
\* that are cut off after or inside the fixed header.
MCForeign ==
    {[form |-> "full", op |-> "reply", xid |-> 3, hw |-> "other",
      type |-> "OFFER", ip |-> "a3", server |-> "A"],
     [form |-> "full", op |-> "reply", xid |-> 0, hw |-> "other",
      type |-> "ACK", ip |-> "a3", server |-> "A"],
     [form |-> "bare", op |-> "reply", xid |-> 0, hw |-> "self",
      type |-> None, ip |-> "a1", server |-> "A"],
     [form |-> "runt", op |-> "reply", xid |-> 0, hw |-> "self",
      type |-> None, ip |-> "a1", server |-> "A"]}
===========================================================================
