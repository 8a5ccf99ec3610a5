---------------------------- MODULE ByteQueue ----------------------------
(***************************************************************************)
(* What a kfifo promises its two callers: a bounded queue of bytes.  A put *)
(* appends, in one step, the bytes the writer is told were accepted; a get *)
(* removes, in one step, exactly the bytes it hands to the reader.  Bytes  *)
(* disappear in no other way than a reset somebody asked for.              *)
(***************************************************************************)
EXTENDS Naturals, Sequences

CONSTANTS Byte,      \* the values a byte may have
          Size       \* the capacity

VARIABLES q,         \* the bytes put and not yet got, oldest first
          accepted,  \* the bytes the last put took from its caller
          delivered, \* the bytes the last get gave to its caller
          resets     \* flips with every reset

vars == <<q, accepted, delivered, resets>>

Init == q = <<>> /\ accepted = <<>> /\ delivered = <<>> /\ resets = FALSE

\* A put takes some bytes for which there is room.
Put == \E n \in 0 .. (Size - Len(q)) : \E d \in [1 .. n -> Byte] :
          /\ q' = q \o d
          /\ accepted' = d
          /\ UNCHANGED <<delivered, resets>>

\* A get takes bytes from the front of the queue.
Get == \E n \in 0 .. Len(q) :
          /\ delivered' = SubSeq(q, 1, n)
          /\ q' = SubSeq(q, n + 1, Len(q))
          /\ UNCHANGED <<accepted, resets>>

\* A reset empties the queue.
Reset == /\ q' = <<>>
         /\ resets' = ~resets
         /\ UNCHANGED <<accepted, delivered>>

Next == Put \/ Get \/ Reset

Spec == Init /\ [][Next]_vars
==========================================================================
