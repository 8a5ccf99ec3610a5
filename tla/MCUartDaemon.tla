--------------------------- MODULE MCUartDaemon ---------------------------
(* UartDaemon for TLC: four descriptor numbers, one of them beyond the table, *)
(* room in a batch for all three of the daemon's descriptors.                 *)
EXTENDS UartDaemon
MCFd        == 0 .. 3
MCMayRemove == [fd \in MCFd |-> {fd}]
============================================================================
