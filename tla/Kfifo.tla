------------------------------ MODULE Kfifo ------------------------------
(***************************************************************************)
(* src/fifo/fifo.c: the ring buffer as its comments say it may be used     *)
(* without a lock, one writer thread calling __kfifo_put and one reader    *)
(* thread calling __kfifo_get.  A memcpy moves one byte per step, so every *)
(* interleaving of the two copies is a behaviour.  The two indices are     *)
(* unsigned ints that only grow and wrap at Modulus (2^32 in the program). *)
(*                                                                         *)
(* Stores of one thread reach the other in program order: fifo.c has no    *)
(* barrier, and relies on an unoptimised build for x86 (Makefile).         *)
(***************************************************************************)
EXTENDS Integers, Sequences

CONSTANTS Byte,        \* the values a byte may have
          Size,        \* fifo->size
          Laps,        \* how many times Size fits the range of an index
          MaxRequest   \* the largest len a caller passes (a bound for TLC)

Modulus == Laps * Size

\* is_power_of_2 without the machine's &: no odd divisor other than 1
IsPowerOf2(n) == n # 0 /\ \A d \in 1 .. n : (n % d = 0 /\ d % 2 = 1) => d = 1

\* kfifo_init aborts on any other size.  An index can tell a full fifo from
\* an empty one, since Size is a power of two below 2^32.
ASSUME SizeAssumption == Size \in Nat \ {0} /\ IsPowerOf2(Size)
ASSUME LapsAssumption == Laps \in Nat /\ Laps >= 2
ASSUME RequestAssumption == MaxRequest \in Nat

VARIABLES buffer, in, out,              \* the fields of struct kfifo
          wpc, wdata, wlen, wl, woff, wi, \* __kfifo_put: its locals and progress
          rpc, rlen, rl, roff, rbuf,    \* __kfifo_get: its locals and caller's buffer
          accepted, delivered           \* what the last put and get gave back

fifo    == <<buffer, in, out>>
writer  == <<wpc, wdata, wlen, wl, woff, wi>>
reader  == <<rpc, rlen, rl, roff, rbuf>>
results == <<accepted, delivered>>
vars    == <<fifo, writer, reader, results>>

Smaller(a, b) == IF a < b THEN a ELSE b

\* fifo->size is a power of two: & (size - 1) is the remainder.
Offset(index) == index % Size

\* __kfifo_len, which is also what __kfifo_get finds available
KfifoLen == (in - out) % Modulus

\* Mutant of Room: one slot too many, as if in could not catch up with out.
RoomPlusOne == (Size + 1 - in + out) % Modulus

\* the room __kfifo_put computes, in unsigned arithmetic
Room == (Size - in + out) % Modulus

\* Mutant of CopySlot: the second memcpy also skips the bytes of the first.
CopySlotSkips(i, l, off) == IF i < l THEN off + i ELSE i

\* The slot byte i of a call goes through: l bytes from off, the rest from 0.
CopySlot(i, l, off) == IF i < l THEN off + i ELSE i - l

Requests == UNION {[1 .. n -> Byte] : n \in 0 .. MaxRequest}

\* kfifo_init; what the buffer holds is not initialised.
Init ==
    /\ buffer \in [0 .. Size - 1 -> Byte]
    /\ in = 0 /\ out = 0
    /\ wpc = "idle" /\ wdata = <<>> /\ wlen = 0 /\ wl = 0 /\ woff = 0 /\ wi = 0
    /\ rpc = "idle" /\ rlen = 0 /\ rl = 0 /\ roff = 0 /\ rbuf = <<>>
    /\ accepted = <<>> /\ delivered = <<>>

--------------------------------------------------------------------------
(* The writer: __kfifo_put(fifo, data, Len(data)) *)

\* Only the reader moves out, so the room found here can only be too small.
PutBegin(data) ==
    /\ wpc = "idle"
    /\ wpc' = "copy"
    /\ wdata' = data
    /\ wlen' = Smaller(Len(data), Room)
    /\ woff' = Offset(in)
    /\ wl' = Smaller(wlen', Size - Offset(in))
    /\ wi' = 0
    /\ UNCHANGED <<fifo, reader, results>>

\* one byte of the two memcpys
PutCopy ==
    /\ wpc = "copy" /\ wi < wlen
    /\ buffer' = [buffer EXCEPT ![CopySlot(wi, wl, woff)] = wdata[wi + 1]]
    /\ wi' = wi + 1
    /\ UNCHANGED <<in, out, wpc, wdata, wlen, wl, woff, reader, results>>

\* fifo->in += len publishes the bytes; return len
PutCommit ==
    /\ wpc = "copy" /\ wi = wlen
    /\ in' = (in + wlen) % Modulus
    /\ accepted' = SubSeq(wdata, 1, wlen)
    /\ wpc' = "idle" /\ wdata' = <<>> /\ wlen' = 0 /\ wl' = 0 /\ woff' = 0 /\ wi' = 0
    /\ UNCHANGED <<buffer, out, reader, delivered>>

--------------------------------------------------------------------------
(* The reader: __kfifo_get(fifo, rbuf, len) *)

\* Mutant of GetBegin: the length is not limited to what is available.
GetBeginUnlimited(len) ==
    /\ rpc = "idle"
    /\ rpc' = "copy"
    /\ rlen' = Smaller(len, Size)
    /\ roff' = Offset(out)
    /\ rl' = Smaller(rlen', Size - Offset(out))
    /\ rbuf' = <<>>
    /\ UNCHANGED <<fifo, writer, results>>

\* Only the writer moves in: what is available here stays available.
GetBegin(len) ==
    /\ rpc = "idle"
    /\ rpc' = "copy"
    /\ rlen' = Smaller(len, KfifoLen)
    /\ roff' = Offset(out)
    /\ rl' = Smaller(rlen', Size - Offset(out))
    /\ rbuf' = <<>>
    /\ UNCHANGED <<fifo, writer, results>>

GetCopy ==
    /\ rpc = "copy" /\ Len(rbuf) < rlen
    /\ rbuf' = Append(rbuf, buffer[CopySlot(Len(rbuf), rl, roff)])
    /\ UNCHANGED <<fifo, writer, rpc, rlen, rl, roff, results>>

\* fifo->out += len frees the slots; return len
GetCommit ==
    /\ rpc = "copy" /\ Len(rbuf) = rlen
    /\ out' = (out + rlen) % Modulus
    /\ delivered' = rbuf
    /\ rpc' = "idle" /\ rlen' = 0 /\ rl' = 0 /\ roff' = 0 /\ rbuf' = <<>>
    /\ UNCHANGED <<buffer, in, writer, accepted>>

--------------------------------------------------------------------------
PutStep == PutCopy \/ PutCommit
GetStep == GetCopy \/ GetCommit

Next ==
    \/ \E data \in Requests : PutBegin(data)
    \/ PutStep
    \/ \E len \in 0 .. MaxRequest : GetBegin(len)
    \/ GetStep

Spec == Init /\ [][Next]_vars

--------------------------------------------------------------------------
(* Properties *)

\* Type correctness: the indices stay in the range of an unsigned int, the
\* lengths and offsets inside the buffer (struct kfifo and the locals of
\* __kfifo_put and __kfifo_get).
TypeOK ==
    /\ buffer \in [0 .. Size - 1 -> Byte]
    /\ in \in 0 .. Modulus - 1 /\ out \in 0 .. Modulus - 1
    /\ wpc \in {"idle", "copy"} /\ rpc \in {"idle", "copy"}
    /\ wdata \in Seq(Byte) /\ rbuf \in Seq(Byte)
    /\ wlen \in 0 .. Size /\ rlen \in 0 .. Size
    /\ wl \in 0 .. wlen /\ rl \in 0 .. rlen
    /\ woff \in 0 .. Size - 1 /\ roff \in 0 .. Size - 1
    /\ wi \in 0 .. wlen
    /\ wlen <= Len(wdata) /\ Len(rbuf) <= rlen
    /\ accepted \in Seq(Byte) /\ delivered \in Seq(Byte)

\* The bytes put and not yet got, read off the buffer from out on.
Contents == [k \in 1 .. KfifoLen |-> buffer[Offset(out + k - 1)]]

\* The two threads never touch one byte of the buffer at the same time
\* (the memcpys of __kfifo_put and __kfifo_get), which is why the comment on
\* both functions may say that no locking is needed.
NoDataRace ==
    (wpc = "copy" /\ wi < wlen /\ rpc = "copy" /\ Len(rbuf) < rlen)
        => CopySlot(wi, wl, woff) # CopySlot(Len(rbuf), rl, roff)

\* Never more bytes than slots: in - out, as an unsigned number, is at most
\* the size, also after either index has wrapped.
NeverOverfull == KfifoLen <= Size

\* A put in progress: the room it found is still there, and its first wi
\* bytes are in the slots that follow the published ones.
WriterInv ==
    wpc = "copy" =>
        /\ wlen <= Size - KfifoLen
        /\ woff = Offset(in)
        /\ wl = Smaller(wlen, Size - woff)
        /\ \A k \in 0 .. wi - 1 : buffer[CopySlot(k, wl, woff)] = wdata[k + 1]

\* A get in progress: what it has copied is still the front of the contents.
ReaderInv ==
    rpc = "copy" =>
        /\ rlen <= KfifoLen
        /\ roff = Offset(out)
        /\ rl = Smaller(rlen, Size - roff)
        /\ \A k \in 0 .. Len(rbuf) - 1 : rbuf[k + 1] = buffer[CopySlot(k, rl, roff)]

\* Inductive: the published bytes, the bytes a put has copied and the bytes a
\* get has copied stay where __kfifo_put and __kfifo_get left them.
RingInv == NeverOverfull /\ WriterInv /\ ReaderInv

\* The ring is the queue of bytes its callers were promised: each call of
\* __kfifo_put or __kfifo_get takes effect when it stores its index.
Queue == INSTANCE ByteQueue WITH q <- Contents, resets <- FALSE
QueueSpec == Queue!Spec
==========================================================================
