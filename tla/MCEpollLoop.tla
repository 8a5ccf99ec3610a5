---------------------------- MODULE MCEpollLoop ----------------------------
(* EpollLoop for TLC: descriptor numbers in the table and one beyond it,     *)
(* batches of up to two events.                                              *)
EXTENDS EpollLoop

FourFds        == 0 .. 3
OwnOf(fds)     == [fd \in fds |-> {fd}]
OwnOfFour      == OwnOf(FourFds)
============================================================================
