---------------------------- MODULE KfifoCalls ----------------------------
(***************************************************************************)
(* include/fifo.h: kfifo_put, kfifo_get and kfifo_reset, as one writer and *)
(* one reader thread call them.  They differ from the calls of Kfifo in    *)
(* that the reader zeroes both indices of a fifo it finds empty, or resets *)
(* it.  The macros that would take fifo->lock expand to nothing, so there  *)
(* is no lock here.                                                        *)
(***************************************************************************)
EXTENDS Kfifo

kfifo_put ==
    \/ \E data \in Requests : PutBegin(data)
    \/ PutCopy
    \/ PutCommit

\* __kfifo_get has stored out; kfifo_get goes on to look at the indices.
GetReturned ==
    /\ rpc = "copy" /\ Len(rbuf) = rlen
    /\ out' = (out + rlen) % Modulus
    /\ delivered' = rbuf
    /\ rpc' = "test" /\ rlen' = 0 /\ rl' = 0 /\ roff' = 0 /\ rbuf' = <<>>
    /\ UNCHANGED <<buffer, in, writer, accepted>>

\* if (fifo->in == fifo->out)
TestEmpty ==
    /\ rpc = "test"
    /\ rpc' = IF in = out THEN "zero" ELSE "idle"
    /\ UNCHANGED <<fifo, writer, rlen, rl, roff, rbuf, results>>

\* fifo->in = fifo->out = 0 stores out first, and then in.
ZeroOut ==
    /\ rpc \in {"zero", "reset"}
    /\ out' = 0
    /\ rpc' = "zeroIn"
    /\ UNCHANGED <<buffer, in, writer, rlen, rl, roff, rbuf, results>>

ZeroIn ==
    /\ rpc = "zeroIn"
    /\ in' = 0
    /\ rpc' = "idle"
    /\ UNCHANGED <<buffer, out, writer, rlen, rl, roff, rbuf, results>>

kfifo_get ==
    \/ \E len \in 0 .. MaxRequest : GetBegin(len)
    \/ GetCopy \/ GetReturned \/ TestEmpty \/ ZeroOut \/ ZeroIn

kfifo_reset ==
    /\ rpc = "idle"
    /\ rpc' = "reset"
    /\ UNCHANGED <<fifo, writer, rlen, rl, roff, rbuf, results>>

CallsSpec == Init /\ [][kfifo_put \/ kfifo_get \/ kfifo_reset]_vars

--------------------------------------------------------------------------
\* fifo.h says of the lock that it "protects concurrent modifications", and
\* kfifo_get zeroes the indices "if the FIFO is empty": no byte may have been
\* put between its test and its stores, or a byte the writer was told is in
\* the fifo is gone.
ZeroedOnlyWhenEmpty == rpc = "zero" => in = out
==========================================================================
