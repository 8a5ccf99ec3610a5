--------------------------- MODULE KfifoProofs ---------------------------
(***************************************************************************)
(* Proofs about Kfifo for every buffer size, every width of the indices    *)
(* and every byte value.  First the arithmetic of indices that wrap, then  *)
(* the inductive invariant RingInv (with TypeOK), then what follows.       *)
(***************************************************************************)
EXTENDS Kfifo, SequenceTheorems, TLAPS

--------------------------------------------------------------------------
(* Remainders *)

\* Division with remainder.
LEMMA DivMod ==
    \A a \in Int, n \in Nat \ {0} :
        /\ a \div n \in Int
        /\ a % n \in 0 .. n - 1
        /\ a = n * (a \div n) + (a % n)
  BY SMT

\* Quotient and remainder are unique.
LEMMA ModUnique ==
    ASSUME NEW n \in Nat \ {0}, NEW d \in Int, NEW r \in 0 .. n - 1,
           NEW s \in 0 .. n - 1, n * d + r = s
    PROVE  d = 0 /\ r = s
<1>1. CASE d >= 1
  <2>1. n * d >= n
    BY <1>1, SMT
  <2> QED
    BY <2>1, SMT
<1>2. CASE d <= -1
  <2>1. n * d <= -n
    BY <1>2, SMT
  <2> QED
    BY <2>1, SMT
<1>3. CASE d = 0
  BY <1>3, SMT
<1> QED
  BY <1>1, <1>2, <1>3, SMT

\* A number in 0 .. n - 1 that differs from a by a multiple of n is a % n.
LEMMA ModIs ==
    ASSUME NEW n \in Nat \ {0}, NEW a \in Int, NEW k \in Int,
           NEW r \in 0 .. n - 1, a = n * k + r
    PROVE  a % n = r
<1> DEFINE d == k - (a \div n)
<1>1. /\ a \div n \in Int
      /\ a % n \in 0 .. n - 1
      /\ a = n * (a \div n) + (a % n)
  BY DivMod
<1>2. n * d = n * k - n * (a \div n)
  BY <1>1, SMT
<1>3. d \in Int /\ n * d + r = a % n
  BY <1>1, <1>2, SMT
<1> HIDE DEF d
<1> QED
  BY <1>1, <1>3, ModUnique

\* An index out of range by less than one lap is brought back by one lap.
LEMMA ModOneLap ==
    ASSUME NEW n \in Nat \ {0}, NEW a \in Int, -n <= a, a < 2 * n
    PROVE  a % n = IF a < 0 THEN a + n ELSE IF a < n THEN a ELSE a - n
<1>1. CASE a < 0
  <2>1. a = n * (-1) + (a + n) /\ a + n \in 0 .. n - 1
    BY <1>1, SMT
  <2> QED
    BY <1>1, <2>1, ModIs, SMT
<1>2. CASE 0 <= a /\ a < n
  <2>1. a = n * 0 + a /\ a \in 0 .. n - 1
    BY <1>2, SMT
  <2> QED
    BY <1>2, <2>1, ModIs, SMT
<1>3. CASE n <= a
  <2>1. a = n * 1 + (a - n) /\ a - n \in 0 .. n - 1
    BY <1>3, SMT
  <2> QED
    BY <1>3, <2>1, ModIs, SMT
<1> QED
  BY <1>1, <1>2, <1>3, SMT

\* Whole laps do not change a remainder.
LEMMA ModShift ==
    ASSUME NEW n \in Nat \ {0}, NEW a \in Int, NEW k \in Int
    PROVE  (a + n * k) % n = a % n
<1> DEFINE c == (a \div n) + k
<1>1. /\ a \div n \in Int
      /\ a % n \in 0 .. n - 1
      /\ a = n * (a \div n) + (a % n)
  BY DivMod
<1>2. c \in Int /\ a + n * k \in Int
  BY <1>1, SMT
<1>3. n * c = n * (a \div n) + n * k
  BY <1>1, SMT
<1>4. n * k \in Int /\ n * (a \div n) \in Int
  BY <1>1, SMT
<1>5. a + n * k = n * c + (a % n)
  BY <1>1, <1>3, <1>4, SMT
<1> HIDE DEF c
<1> QED
  BY <1>1, <1>2, <1>5, ModIs

--------------------------------------------------------------------------
(* Slots of the ring *)

\* The range of an index is at least two whole turns of the buffer.
LEMMA ModulusFacts ==
    /\ Size \in Nat \ {0}
    /\ Modulus \in Nat \ {0}
    /\ Modulus >= 2 * Size
    /\ Modulus = Size * Laps
    /\ Laps \in Int
  BY SizeAssumption, LapsAssumption, SMT DEF Modulus

\* Where the k-th slot after an index is, in terms of the index's own slot.
LEMMA OffsetAdd ==
    ASSUME NEW p \in Int, NEW k \in 0 .. Size
    PROVE  /\ Offset(p) \in 0 .. Size - 1
           /\ Offset(p + k) = IF Offset(p) + k < Size THEN Offset(p) + k
                                                     ELSE Offset(p) + k - Size
<1> DEFINE d == p \div Size
           o == Offset(p)
<1>1. d \in Int /\ o \in 0 .. Size - 1 /\ p = Size * d + o
  BY DivMod, ModulusFacts DEF Offset
<1>2. Size \in Nat \ {0}
  BY ModulusFacts
<1> HIDE DEF d
<1>3. CASE o + k < Size
  <2>1. p + k = Size * d + (o + k) /\ o + k \in 0 .. Size - 1 /\ p + k \in Int
    BY <1>1, <1>2, <1>3, SMT DEF o
  <2>2. (p + k) % Size = o + k
    BY <1>1, <1>2, <2>1, ModIs
  <2> QED
    BY <1>1, <1>3, <2>2 DEF Offset
<1>4. CASE o + k >= Size
  <2>1. Size * (d + 1) = Size * d + Size
    BY <1>1, <1>2, SMT
  <2>2. p + k = Size * (d + 1) + (o + k - Size)
    BY <1>1, <1>2, <2>1, SMT
  <2>3. o + k - Size \in 0 .. Size - 1 /\ d + 1 \in Int /\ p + k \in Int
    BY <1>1, <1>2, <1>4, SMT
  <2>4. (p + k) % Size = o + k - Size
    BY <1>2, <2>2, <2>3, ModIs
  <2>5. ~(o + k < Size)
    BY <1>1, <1>2, <1>4, SMT
  <2> QED
    BY <1>1, <2>4, <2>5 DEF Offset
<1> QED
  BY <1>1, <1>2, <1>3, <1>4, SMT

\* Two different slots within one turn of the buffer do not coincide.
LEMMA SlotsDiffer ==
    ASSUME NEW p \in Int, NEW i \in 0 .. Size - 1, NEW j \in 0 .. Size - 1, i # j
    PROVE  Offset(p + i) # Offset(p + j)
<1>1. Size \in Nat \ {0} /\ i \in 0 .. Size /\ j \in 0 .. Size
  BY ModulusFacts, SMT
<1>2. /\ Offset(p) \in 0 .. Size - 1
      /\ Offset(p + i) = IF Offset(p) + i < Size THEN Offset(p) + i
                                                ELSE Offset(p) + i - Size
      /\ Offset(p + j) = IF Offset(p) + j < Size THEN Offset(p) + j
                                                ELSE Offset(p) + j - Size
  BY <1>1, OffsetAdd
<1> QED
  BY <1>1, <1>2, SMT

\* The two memcpys of a call go through consecutive slots of the ring.
LEMMA CopySlotIs ==
    ASSUME NEW p \in Int, NEW len \in 0 .. Size, NEW i \in 0 .. len - 1
    PROVE  /\ CopySlot(i, Smaller(len, Size - Offset(p)), Offset(p)) = Offset(p + i)
           /\ Offset(p + i) \in 0 .. Size - 1
<1>1. Size \in Nat \ {0} /\ i \in 0 .. Size
  BY ModulusFacts, SMT
<1>2. /\ Offset(p) \in 0 .. Size - 1
      /\ Offset(p + i) = IF Offset(p) + i < Size THEN Offset(p) + i
                                                ELSE Offset(p) + i - Size
  BY <1>1, OffsetAdd
<1> QED
  BY <1>1, <1>2, SMT DEF CopySlot, Smaller

\* Indices that differ by a lap of the index range have the same slots.
LEMMA OffsetLap ==
    ASSUME NEW a \in Int
    PROVE  Offset(a - Modulus) = Offset(a) /\ Offset(a + Modulus) = Offset(a)
<1>1. -Laps \in Int /\ Laps \in Int /\ Size \in Nat \ {0}
  BY ModulusFacts, SMT
<1>2. Size * (-Laps) = -Modulus
  BY ModulusFacts, SMT
<1>3. (a + Size * (-Laps)) % Size = a % Size /\ (a + Size * Laps) % Size = a % Size
  BY <1>1, ModShift
<1>4. Modulus \in Int
  BY ModulusFacts
<1>5. a + Size * (-Laps) = a - Modulus /\ a + Size * Laps = a + Modulus
  BY <1>2, <1>4, ModulusFacts, SMT
<1> QED
  BY <1>3, <1>5 DEF Offset

\* How many bytes there are, without a remainder.
LEMMA LenIs ==
    ASSUME NEW a \in 0 .. Modulus - 1, NEW b \in 0 .. Modulus - 1
    PROVE  (a - b) % Modulus = IF a < b THEN a - b + Modulus ELSE a - b
<1>1. Modulus \in Nat \ {0}
  BY ModulusFacts
<1>2. a - b \in Int /\ -Modulus <= a - b /\ a - b < Modulus /\ a - b < 2 * Modulus
  BY <1>1, SMT
<1>3. (a - b) % Modulus = IF a - b < 0 THEN a - b + Modulus
                          ELSE IF a - b < Modulus THEN a - b ELSE a - b - Modulus
  BY <1>1, <1>2, ModOneLap
<1> QED
  BY <1>1, <1>2, <1>3, SMT

\* Advancing an index by at most Size, without a remainder.
LEMMA AdvanceIs ==
    ASSUME NEW a \in 0 .. Modulus - 1, NEW len \in 0 .. Size
    PROVE  /\ (a + len) % Modulus = IF a + len < Modulus THEN a + len ELSE a + len - Modulus
           /\ (a + len) % Modulus \in 0 .. Modulus - 1
<1> DEFINE s == a + len
<1>1. Modulus \in Nat \ {0} /\ Size \in Nat \ {0} /\ Modulus >= 2 * Size
  BY ModulusFacts
<1>2. s \in Int /\ -Modulus <= s /\ s < 2 * Modulus /\ s >= 0
  BY <1>1, SMT
<1> HIDE DEF s
<1>3. s % Modulus = IF s < 0 THEN s + Modulus
                    ELSE IF s < Modulus THEN s ELSE s - Modulus
  BY <1>1, <1>2, ModOneLap
<1>4. /\ s % Modulus = IF s < Modulus THEN s ELSE s - Modulus
      /\ s % Modulus \in 0 .. Modulus - 1
  BY <1>1, <1>2, <1>3, SMT
<1> QED
  BY <1>1, <1>2, <1>4, SMT DEF s

--------------------------------------------------------------------------
(* The invariant *)

Inv == TypeOK /\ RingInv

\* What an index's distance and the room of __kfifo_put are in a good state,
\* and that the slots after in are the slots after the published bytes.
LEMMA RingFacts ==
    ASSUME TypeOK, NeverOverfull
    PROVE  /\ KfifoLen \in 0 .. Size
           /\ Room = Size - KfifoLen
           /\ KfifoLen = IF in < out THEN in - out + Modulus ELSE in - out
           /\ in \in Int /\ out \in Int
           /\ \A k \in Int : Offset(in + k) = Offset(out + (KfifoLen + k))
<1> DEFINE r == Size - in + out
<1>1. Modulus \in Nat \ {0} /\ Size \in Nat \ {0} /\ Modulus >= 2 * Size
  BY ModulusFacts
<1>2. in \in 0 .. Modulus - 1 /\ out \in 0 .. Modulus - 1
  BY DEF TypeOK
<1>3. KfifoLen = IF in < out THEN in - out + Modulus ELSE in - out
  BY <1>2, LenIs DEF KfifoLen
<1>4. KfifoLen \in 0 .. Size
  BY <1>1, <1>2, <1>3, SMT DEF NeverOverfull
<1>5. Room = Size - KfifoLen
  <2>1. r \in Int /\ -Modulus <= r /\ r < 2 * Modulus
    BY <1>1, <1>2, SMT
  <2> HIDE DEF r
  <2>2. r % Modulus = IF r < 0 THEN r + Modulus ELSE IF r < Modulus THEN r ELSE r - Modulus
    BY <1>1, <2>1, ModOneLap
  <2>3. r % Modulus = Size - KfifoLen
    BY <1>1, <1>2, <1>3, <1>4, <2>1, <2>2, SMT DEF r
  <2> QED
    BY <2>3 DEF r, Room
<1>6. ASSUME NEW k \in Int
      PROVE  Offset(in + k) = Offset(out + (KfifoLen + k))
  <2>1. CASE in < out
    <3>1. out + (KfifoLen + k) = in + k + Modulus /\ in + k \in Int
      BY <1>1, <1>2, <1>3, <2>1, SMT
    <3> QED
      BY <3>1, OffsetLap
  <2>2. CASE ~(in < out)
    <3>1. out + (KfifoLen + k) = in + k
      BY <1>1, <1>2, <1>3, <2>2, SMT
    <3> QED
      BY <3>1
  <2> QED
    BY <2>1, <2>2
<1> QED
  BY <1>1, <1>2, <1>3, <1>4, <1>5, <1>6

\* The slots a put in progress writes and a get in progress reads.
LEMMA WriterSlots ==
    ASSUME TypeOK, RingInv, wpc = "copy", NEW k \in 0 .. wlen - 1
    PROVE  /\ CopySlot(k, wl, woff) = Offset(in + k)
           /\ Offset(in + k) = Offset(out + (KfifoLen + k))
           /\ Offset(in + k) \in 0 .. Size - 1
           /\ KfifoLen + k \in 0 .. Size - 1
<1>1. NeverOverfull /\ WriterInv
  BY DEF RingInv
<1>2. wlen \in 0 .. Size /\ wlen <= Size - KfifoLen /\ woff = Offset(in)
      /\ wl = Smaller(wlen, Size - Offset(in))
  BY <1>1 DEF WriterInv, TypeOK
<1>3. KfifoLen \in 0 .. Size /\ in \in Int /\ Size \in Nat
      /\ \A n \in Int : Offset(in + n) = Offset(out + (KfifoLen + n))
  BY <1>1, RingFacts, ModulusFacts
<1>4. CopySlot(k, wl, woff) = Offset(in + k) /\ Offset(in + k) \in 0 .. Size - 1
  BY <1>2, <1>3, CopySlotIs
<1> QED
  BY <1>2, <1>3, <1>4, SMT

LEMMA ReaderSlots ==
    ASSUME TypeOK, RingInv, rpc = "copy", NEW k \in 0 .. rlen - 1
    PROVE  /\ CopySlot(k, rl, roff) = Offset(out + k)
           /\ Offset(out + k) \in 0 .. Size - 1
           /\ k < KfifoLen
<1>1. NeverOverfull /\ ReaderInv
  BY DEF RingInv
<1>2. rlen \in 0 .. Size /\ rlen <= KfifoLen /\ roff = Offset(out)
      /\ rl = Smaller(rlen, Size - Offset(out))
  BY <1>1 DEF ReaderInv, TypeOK
<1>3. KfifoLen \in 0 .. Size /\ out \in Int /\ Size \in Nat
  BY <1>1, RingFacts, ModulusFacts
<1>4. CopySlot(k, rl, roff) = Offset(out + k) /\ Offset(out + k) \in 0 .. Size - 1
  BY <1>2, <1>3, CopySlotIs
<1> QED
  BY <1>2, <1>3, <1>4, SMT

\* If a step leaves the ring and the writer alone, it leaves WriterInv alone;
\* so for the reader.
LEMMA WriterFrame ==
    ASSUME WriterInv, UNCHANGED <<fifo, writer>>
    PROVE  WriterInv' /\ KfifoLen' = KfifoLen
  BY DEF fifo, writer, WriterInv, KfifoLen

LEMMA ReaderFrame ==
    ASSUME ReaderInv, UNCHANGED <<fifo, reader>>
    PROVE  ReaderInv' /\ KfifoLen' = KfifoLen
  BY DEF fifo, reader, ReaderInv, KfifoLen

LEMMA InitInv == Init => Inv
<1> SUFFICES ASSUME Init PROVE Inv
  OBVIOUS
<1>1. Size \in Nat \ {0} /\ Modulus \in Nat \ {0} /\ Modulus >= 2 * Size
  BY ModulusFacts
<1>2. TypeOK
  BY <1>1, SMT DEF Init, TypeOK
<1>3. KfifoLen = 0
  <2>1. 0 \in 0 .. Modulus - 1
    BY <1>1, SMT
  <2>2. (0 - 0) % Modulus = 0
    BY <1>1, <2>1, LenIs, SMT
  <2> QED
    BY <2>2 DEF Init, KfifoLen
<1>4. RingInv
  BY <1>1, <1>3, SMT DEF Init, RingInv, NeverOverfull, WriterInv, ReaderInv
<1> QED
  BY <1>2, <1>4 DEF Inv

LEMMA PutBeginInv ==
    ASSUME Inv, NEW data \in Requests, PutBegin(data)
    PROVE  Inv'
<1> USE DEF Inv
<1>1. Size \in Nat \ {0} /\ in \in Int /\ KfifoLen \in 0 .. Size
      /\ Room = Size - KfifoLen
  BY RingFacts, ModulusFacts DEF RingInv
<1>2. data \in Seq(Byte) /\ Len(data) \in Nat
  BY DEF Requests
<1>3. Offset(in) \in 0 .. Size - 1
  BY <1>1, DivMod DEF Offset
<1>4. wlen' = Smaller(Len(data), Size - KfifoLen)
      /\ woff' = Offset(in) /\ wl' = Smaller(wlen', Size - Offset(in))
      /\ wi' = 0 /\ wdata' = data /\ wpc' = "copy"
  BY <1>1 DEF PutBegin
<1>5. /\ wlen' \in 0 .. Size /\ wlen' <= Len(data) /\ wlen' <= Size - KfifoLen
      /\ wl' \in 0 .. wlen' /\ wi' \in 0 .. wlen'
  BY <1>1, <1>2, <1>3, <1>4, SMT DEF Smaller
<1>6. TypeOK'
  BY <1>2, <1>3, <1>4, <1>5 DEF TypeOK, PutBegin, fifo, reader, results
<1>7. NeverOverfull' /\ ReaderInv' /\ KfifoLen' = KfifoLen
  BY ReaderFrame DEF PutBegin, RingInv, NeverOverfull
<1>8. WriterInv'
  <2>1. in' = in
    BY DEF PutBegin, fifo
  <2>2. \A k \in 0 .. wi' - 1 : FALSE
    BY <1>4, SMT
  <2> QED
    BY <1>4, <1>5, <1>7, <2>1, <2>2 DEF WriterInv, Offset
<1> QED
  BY <1>6, <1>7, <1>8 DEF RingInv

LEMMA PutCopyInv ==
    ASSUME Inv, PutCopy
    PROVE  Inv'
<1> USE DEF Inv
<1> DEFINE slot == CopySlot(wi, wl, woff)
<1>1. wpc = "copy" /\ wi \in 0 .. wlen - 1 /\ wi' = wi + 1
      /\ buffer' = [buffer EXCEPT ![slot] = wdata[wi + 1]]
      /\ UNCHANGED <<in, out, wpc, wdata, wlen, wl, woff, reader, results>>
  BY SMT DEF PutCopy, TypeOK
<1>2. Size \in Nat \ {0} /\ out \in Int /\ KfifoLen \in 0 .. Size
  BY RingFacts, ModulusFacts DEF RingInv
<1>3. /\ wlen \in 0 .. Size /\ wdata \in Seq(Byte) /\ wlen <= Len(wdata)
      /\ rlen \in 0 .. Size /\ Len(rbuf) <= rlen /\ rbuf \in Seq(Byte)
      /\ buffer \in [0 .. Size - 1 -> Byte]
  BY DEF TypeOK
<1>4. /\ slot = Offset(out + (KfifoLen + wi)) /\ slot \in 0 .. Size - 1
      /\ KfifoLen + wi \in 0 .. Size - 1
  BY <1>1, WriterSlots
<1>5. wdata[wi + 1] \in Byte
  BY <1>1, <1>3, SMT
<1>6. TypeOK'
  <2>1. buffer' \in [0 .. Size - 1 -> Byte]
    BY <1>1, <1>3, <1>5
  <2>2. wi' \in 0 .. wlen'
    BY <1>1, <1>3, SMT
  <2> QED
    BY <1>1, <2>1, <2>2 DEF TypeOK, reader, results
<1>7. KfifoLen' = KfifoLen /\ NeverOverfull'
  BY <1>1 DEF KfifoLen, NeverOverfull, RingInv
<1>8. WriterInv'
  <2>1. ASSUME NEW k \in 0 .. wi' - 1
        PROVE  buffer'[CopySlot(k, wl, woff)] = wdata[k + 1]
    <3>1. k \in 0 .. wlen - 1
      BY <1>1, <1>3, SMT
    <3>2. /\ CopySlot(k, wl, woff) = Offset(out + (KfifoLen + k))
          /\ CopySlot(k, wl, woff) \in 0 .. Size - 1
          /\ KfifoLen + k \in 0 .. Size - 1
      BY <1>1, <3>1, WriterSlots
    <3>3. CASE k = wi
      BY <1>1, <1>3, <1>4, <3>3
    <3>4. CASE k # wi
      <4>1. k \in 0 .. wi - 1 /\ KfifoLen + k # KfifoLen + wi
        BY <1>1, <1>2, <1>3, <3>4, SMT
      <4>2. buffer[CopySlot(k, wl, woff)] = wdata[k + 1]
        BY <1>1, <4>1 DEF RingInv, WriterInv
      <4>3. CopySlot(k, wl, woff) # slot
        BY <1>2, <1>4, <3>2, <4>1, SlotsDiffer
      <4> QED
        BY <1>1, <1>3, <3>2, <4>2, <4>3
    <3> QED
      BY <3>3, <3>4
  <2> QED
    BY <1>1, <1>7, <2>1 DEF RingInv, WriterInv
<1>9. ReaderInv'
  <2> SUFFICES ASSUME rpc = "copy"
               PROVE  \A k \in 0 .. Len(rbuf) - 1 :
                          rbuf[k + 1] = buffer'[CopySlot(k, rl, roff)]
    BY <1>1, <1>7 DEF RingInv, ReaderInv, reader
  <2> TAKE k \in 0 .. Len(rbuf) - 1
  <2>1. k \in 0 .. rlen - 1
    BY <1>3, SMT
  <2>2. /\ CopySlot(k, rl, roff) = Offset(out + k)
        /\ CopySlot(k, rl, roff) \in 0 .. Size - 1
        /\ k < KfifoLen
    BY <2>1, ReaderSlots
  <2>3. k \in 0 .. Size - 1 /\ k # KfifoLen + wi
    BY <1>1, <1>2, <1>3, <2>1, <2>2, SMT
  <2>4. CopySlot(k, rl, roff) # slot
    BY <1>2, <1>4, <2>2, <2>3, SlotsDiffer
  <2>5. rbuf[k + 1] = buffer[CopySlot(k, rl, roff)]
    BY DEF RingInv, ReaderInv
  <2> QED
    BY <1>1, <1>3, <2>2, <2>4, <2>5
<1> QED
  BY <1>6, <1>7, <1>8, <1>9 DEF RingInv

\* Publishing adds the bytes of the put to the length.
LEMMA PutCommitLen ==
    ASSUME Inv, PutCommit
    PROVE  /\ in' \in 0 .. Modulus - 1
           /\ KfifoLen' = KfifoLen + wlen
           /\ KfifoLen' \in 0 .. Size
<1> USE DEF Inv
<1>1. /\ Size \in Nat \ {0} /\ KfifoLen \in 0 .. Size
      /\ KfifoLen = IF in < out THEN in - out + Modulus ELSE in - out
      /\ Modulus \in Nat \ {0} /\ Modulus >= 2 * Size
  BY RingFacts, ModulusFacts DEF RingInv
<1>2. /\ in \in 0 .. Modulus - 1 /\ out \in 0 .. Modulus - 1 /\ wlen \in 0 .. Size
      /\ out' = out /\ in' = (in + wlen) % Modulus /\ wlen <= Size - KfifoLen
  BY DEF TypeOK, PutCommit, RingInv, WriterInv
<1>3. /\ in' = IF in + wlen < Modulus THEN in + wlen ELSE in + wlen - Modulus
      /\ in' \in 0 .. Modulus - 1
  BY <1>2, AdvanceIs
<1>4. KfifoLen' = IF in' < out THEN in' - out + Modulus ELSE in' - out
  BY <1>2, <1>3, LenIs DEF KfifoLen
<1> QED
  BY <1>1, <1>2, <1>3, <1>4, SMT

LEMMA PutCommitInv ==
    ASSUME Inv, PutCommit
    PROVE  Inv'
<1> USE DEF Inv
<1>1. /\ in' \in 0 .. Modulus - 1 /\ KfifoLen' = KfifoLen + wlen
      /\ KfifoLen' \in 0 .. Size
  BY PutCommitLen
<1>2. Size \in Nat \ {0} /\ KfifoLen \in 0 .. Size
  BY RingFacts, ModulusFacts DEF RingInv
<1>3. /\ wlen \in 0 .. Size /\ wdata \in Seq(Byte) /\ wlen <= Len(wdata)
      /\ rlen \in 0 .. Size
  BY DEF TypeOK
<1>4. SubSeq(wdata, 1, wlen) \in Seq(Byte)
  BY <1>3, SMT
<1>5. wpc' = "idle" /\ wdata' = <<>> /\ wlen' = 0 /\ wl' = 0 /\ woff' = 0 /\ wi' = 0
      /\ accepted' = SubSeq(wdata, 1, wlen)
      /\ UNCHANGED <<buffer, out, rpc, rlen, rl, roff, rbuf, delivered>>
  BY DEF PutCommit, reader
<1>6. TypeOK'
  BY <1>1, <1>2, <1>4, <1>5, SMT DEF TypeOK
<1>7. NeverOverfull' /\ WriterInv'
  BY <1>1, <1>2, <1>5, SMT DEF NeverOverfull, WriterInv
<1>8. ReaderInv'
  <2>1. rlen <= KfifoLen => rlen <= KfifoLen'
    BY <1>1, <1>2, <1>3, SMT
  <2> QED
    BY <1>5, <2>1 DEF ReaderInv, RingInv
<1> QED
  BY <1>6, <1>7, <1>8 DEF RingInv

LEMMA GetBeginInv ==
    ASSUME Inv, NEW len \in 0 .. MaxRequest, GetBegin(len)
    PROVE  Inv'
<1> USE DEF Inv
<1>1. Size \in Nat \ {0} /\ out \in Int /\ KfifoLen \in 0 .. Size /\ len \in Nat
  BY RingFacts, ModulusFacts, RequestAssumption DEF RingInv
<1>2. Offset(out) \in 0 .. Size - 1
  BY <1>1, DivMod DEF Offset
<1>3. /\ rlen' = Smaller(len, KfifoLen) /\ roff' = Offset(out)
      /\ rl' = Smaller(rlen', Size - Offset(out))
      /\ rbuf' = <<>> /\ rpc' = "copy"
  BY DEF GetBegin
<1>4. /\ rlen' \in 0 .. Size /\ rlen' <= KfifoLen
      /\ rl' \in 0 .. rlen' /\ Len(rbuf') <= rlen' /\ Len(rbuf') = 0
  BY <1>1, <1>2, <1>3, SMT DEF Smaller
<1>5. TypeOK'
  BY <1>2, <1>3, <1>4 DEF TypeOK, GetBegin, fifo, writer, results
<1>6. NeverOverfull' /\ WriterInv' /\ KfifoLen' = KfifoLen
  BY WriterFrame DEF GetBegin, RingInv, NeverOverfull
<1>7. ReaderInv'
  <2>1. out' = out
    BY DEF GetBegin, fifo
  <2>2. \A k \in 0 .. Len(rbuf') - 1 : FALSE
    BY <1>4, SMT
  <2> QED
    BY <1>3, <1>4, <1>6, <2>1, <2>2 DEF ReaderInv, Offset
<1> QED
  BY <1>5, <1>6, <1>7 DEF RingInv

LEMMA GetCopyInv ==
    ASSUME Inv, GetCopy
    PROVE  Inv'
<1> USE DEF Inv
<1> DEFINE n == Len(rbuf)
<1>1. rbuf \in Seq(Byte) /\ rlen \in 0 .. Size /\ buffer \in [0 .. Size - 1 -> Byte]
  BY DEF TypeOK
<1>2. Size \in Nat \ {0}
  BY ModulusFacts
<1>3. rpc = "copy" /\ n \in 0 .. rlen - 1
      /\ rbuf' = Append(rbuf, buffer[CopySlot(n, rl, roff)])
      /\ UNCHANGED <<fifo, writer, rpc, rlen, rl, roff, results>>
  BY <1>1, <1>2, SMT DEF GetCopy
<1>4. CopySlot(n, rl, roff) \in 0 .. Size - 1
  BY <1>3, ReaderSlots
<1>5. rbuf' \in Seq(Byte) /\ Len(rbuf') = n + 1 /\ Len(rbuf') <= rlen
  BY <1>1, <1>2, <1>3, <1>4, SMT
<1>6. TypeOK'
  BY <1>3, <1>5 DEF TypeOK, fifo, writer, results
<1>7. NeverOverfull' /\ WriterInv' /\ KfifoLen' = KfifoLen
  BY <1>3, WriterFrame DEF RingInv, NeverOverfull
<1>8. ReaderInv'
  <2>1. ASSUME NEW k \in 0 .. Len(rbuf') - 1
        PROVE  rbuf'[k + 1] = buffer[CopySlot(k, rl, roff)]
    <3>1. CASE k = n
      BY <1>1, <1>3, <3>1, SMT
    <3>2. CASE k # n
      <4>1. k \in 0 .. n - 1
        BY <1>1, <1>5, <3>2, SMT
      <4>2. rbuf[k + 1] = buffer[CopySlot(k, rl, roff)]
        BY <1>3, <4>1 DEF RingInv, ReaderInv
      <4>3. rbuf'[k + 1] = rbuf[k + 1]
        BY <1>1, <1>3, <4>1, SMT
      <4> QED
        BY <4>2, <4>3
    <3> QED
      BY <3>1, <3>2
  <2> QED
    BY <1>3, <1>7, <2>1 DEF RingInv, ReaderInv, fifo
<1> QED
  BY <1>6, <1>7, <1>8 DEF RingInv

\* Freeing takes the bytes of the get from the length; the slots after the
\* new out are the slots that followed them.
LEMMA GetCommitLen ==
    ASSUME Inv, GetCommit
    PROVE  /\ out' \in 0 .. Modulus - 1
           /\ KfifoLen' = KfifoLen - rlen
           /\ KfifoLen' \in 0 .. Size
           /\ \A k \in Int : Offset(out' + k) = Offset(out + (rlen + k))
<1> USE DEF Inv
<1>1. /\ Size \in Nat \ {0} /\ KfifoLen \in 0 .. Size
      /\ KfifoLen = IF in < out THEN in - out + Modulus ELSE in - out
      /\ Modulus \in Nat \ {0} /\ Modulus >= 2 * Size
  BY RingFacts, ModulusFacts DEF RingInv
<1>2. /\ in \in 0 .. Modulus - 1 /\ out \in 0 .. Modulus - 1 /\ rlen \in 0 .. Size
      /\ in' = in /\ out' = (out + rlen) % Modulus /\ rlen <= KfifoLen
  BY DEF TypeOK, GetCommit, RingInv, ReaderInv
<1>3. /\ out' = IF out + rlen < Modulus THEN out + rlen ELSE out + rlen - Modulus
      /\ out' \in 0 .. Modulus - 1
  BY <1>2, AdvanceIs
<1>4. KfifoLen' = IF in < out' THEN in - out' + Modulus ELSE in - out'
  BY <1>2, <1>3, LenIs DEF KfifoLen
<1>5. KfifoLen' = KfifoLen - rlen /\ KfifoLen' \in 0 .. Size
  BY <1>1, <1>2, <1>3, <1>4, SMT
<1>6. ASSUME NEW k \in Int
      PROVE  Offset(out' + k) = Offset(out + (rlen + k))
  <2> DEFINE x == out + (rlen + k)
  <2>1. x \in Int /\ (out' + k = x \/ out' + k = x - Modulus)
    BY <1>1, <1>2, <1>3, SMT
  <2> HIDE DEF x
  <2>2. Offset(x - Modulus) = Offset(x)
    BY <2>1, OffsetLap
  <2>3. Offset(out' + k) = Offset(x)
    BY <2>1, <2>2
  <2> QED
    BY <2>3 DEF x
<1> QED
  BY <1>3, <1>5, <1>6

LEMMA GetCommitInv ==
    ASSUME Inv, GetCommit
    PROVE  Inv'
<1> USE DEF Inv
<1>1. out' \in 0 .. Modulus - 1 /\ KfifoLen' = KfifoLen - rlen /\ KfifoLen' \in 0 .. Size
  BY GetCommitLen
<1>2. Size \in Nat \ {0} /\ KfifoLen \in 0 .. Size
  BY RingFacts, ModulusFacts DEF RingInv
<1>3. wlen \in 0 .. Size /\ rlen \in 0 .. Size /\ rbuf \in Seq(Byte)
  BY DEF TypeOK
<1>4. rpc' = "idle" /\ rlen' = 0 /\ rl' = 0 /\ roff' = 0 /\ rbuf' = <<>>
      /\ delivered' = rbuf
      /\ UNCHANGED <<buffer, in, wpc, wdata, wlen, wl, woff, wi, accepted>>
  BY DEF GetCommit, writer
<1>5. TypeOK'
  BY <1>1, <1>2, <1>3, <1>4, SMT DEF TypeOK
<1>6. NeverOverfull' /\ ReaderInv'
  BY <1>1, <1>2, <1>4, SMT DEF NeverOverfull, ReaderInv
<1>7. WriterInv'
  <2>1. wlen <= Size - KfifoLen => wlen <= Size - KfifoLen'
    BY <1>1, <1>2, <1>3, SMT
  <2> QED
    BY <1>4, <2>1 DEF WriterInv, RingInv
<1> QED
  BY <1>5, <1>6, <1>7 DEF RingInv

LEMMA StutterInv ==
    ASSUME Inv, UNCHANGED vars
    PROVE  Inv'
<1>1. UNCHANGED <<fifo, writer, reader, results>>
  BY DEF vars
<1>2. TypeOK'
  BY <1>1 DEF Inv, TypeOK, fifo, writer, reader, results
<1> QED
  BY <1>1, <1>2, WriterFrame, ReaderFrame DEF Inv, RingInv, NeverOverfull

--------------------------------------------------------------------------
(* Theorems *)

\* Type correctness together with RingInv is an invariant of the two threads:
\* for every size and index width no call of __kfifo_put or __kfifo_get loses
\* its claim to the slots it is copying.
THEOREM Invariance == Spec => [](TypeOK /\ RingInv)
<1>1. Init => Inv
  BY InitInv
<1>2. Inv /\ [Next]_vars => Inv'
  <2> SUFFICES ASSUME Inv, [Next]_vars PROVE Inv'
    OBVIOUS
  <2>1. CASE \E data \in Requests : PutBegin(data)
    BY <2>1, PutBeginInv
  <2>2. CASE PutCopy
    BY <2>2, PutCopyInv
  <2>3. CASE PutCommit
    BY <2>3, PutCommitInv
  <2>4. CASE \E len \in 0 .. MaxRequest : GetBegin(len)
    BY <2>4, GetBeginInv
  <2>5. CASE GetCopy
    BY <2>5, GetCopyInv
  <2>6. CASE GetCommit
    BY <2>6, GetCommitInv
  <2>7. CASE UNCHANGED vars
    BY <2>7, StutterInv
  <2> QED
    BY <2>1, <2>2, <2>3, <2>4, <2>5, <2>6, <2>7 DEF Next, PutStep, GetStep
<1> QED
  BY <1>1, <1>2, PTL DEF Spec, Inv

\* The comment of __kfifo_put and __kfifo_get holds: one reader and one writer
\* never touch the same byte of the buffer at once.
THEOREM RaceFree == Spec => []NoDataRace
<1>1. TypeOK /\ RingInv => NoDataRace
  <2> SUFFICES ASSUME TypeOK, RingInv,
                      wpc = "copy", wi < wlen, rpc = "copy", Len(rbuf) < rlen
               PROVE  CopySlot(wi, wl, woff) # CopySlot(Len(rbuf), rl, roff)
    BY DEF NoDataRace
  <2>1. wi \in 0 .. wlen - 1 /\ Len(rbuf) \in 0 .. rlen - 1
        /\ rlen \in 0 .. Size /\ Size \in Nat
    BY ModulusFacts, SMT DEF TypeOK
  <2>2. out \in Int /\ KfifoLen \in 0 .. Size
    BY RingFacts DEF RingInv
  <2>3. CopySlot(wi, wl, woff) = Offset(out + (KfifoLen + wi))
        /\ KfifoLen + wi \in 0 .. Size - 1
    BY <2>1, WriterSlots
  <2>4. CopySlot(Len(rbuf), rl, roff) = Offset(out + Len(rbuf)) /\ Len(rbuf) < KfifoLen
    BY <2>1, ReaderSlots
  <2>5. Len(rbuf) \in 0 .. Size - 1 /\ Len(rbuf) # KfifoLen + wi
    BY <2>1, <2>2, <2>3, <2>4, SMT
  <2> QED
    BY <2>2, <2>3, <2>4, <2>5, SlotsDiffer
<1> QED
  BY <1>1, Invariance, PTL

\* The contents are a sequence of KfifoLen bytes.
LEMMA ContentsType ==
    ASSUME Inv
    PROVE  /\ Contents \in Seq(Byte) /\ Len(Contents) = KfifoLen
           /\ \A k \in 1 .. KfifoLen : Contents[k] = buffer[Offset(out + k - 1)]
           /\ KfifoLen \in 0 .. Size /\ Size \in Nat \ {0} /\ out \in Int
<1>1. KfifoLen \in 0 .. Size /\ Size \in Nat \ {0} /\ out \in Int
  BY RingFacts, ModulusFacts DEF Inv, RingInv
<1>2. ASSUME NEW k \in 1 .. KfifoLen
      PROVE  buffer[Offset(out + k - 1)] \in Byte
  <2>1. out + k - 1 \in Int
    BY <1>1, SMT
  <2>2. Offset(out + k - 1) \in 0 .. Size - 1
    BY <1>1, <2>1, DivMod DEF Offset
  <2> QED
    BY <2>2 DEF Inv, TypeOK
<1>3. Contents \in [1 .. KfifoLen -> Byte]
  BY <1>2 DEF Contents
<1>4. KfifoLen \in Nat
  BY <1>1, SMT
<1>5. Contents \in Seq(Byte) /\ Len(Contents) = KfifoLen
  BY <1>3, <1>4, SMT
<1> QED
  BY <1>1, <1>5 DEF Contents

\* A byte copied by a put in progress is not part of the contents yet.
LEMMA PutCopyHidden ==
    ASSUME Inv, PutCopy
    PROVE  Contents' = Contents
<1> DEFINE slot == CopySlot(wi, wl, woff)
<1>1. wpc = "copy" /\ wi \in 0 .. wlen - 1
      /\ buffer' = [buffer EXCEPT ![slot] = wdata[wi + 1]]
      /\ in' = in /\ out' = out /\ buffer \in [0 .. Size - 1 -> Byte]
  BY SMT DEF PutCopy, Inv, TypeOK
<1>2. KfifoLen' = KfifoLen
  BY <1>1 DEF KfifoLen
<1>3. KfifoLen \in 0 .. Size /\ Size \in Nat \ {0} /\ out \in Int
  BY ContentsType
<1>4. slot = Offset(out + (KfifoLen + wi)) /\ KfifoLen + wi \in 0 .. Size - 1
      /\ wi \in Nat
  BY <1>1, WriterSlots DEF Inv
<1>5. ASSUME NEW k \in 1 .. KfifoLen
      PROVE  buffer'[Offset(out + k - 1)] = buffer[Offset(out + k - 1)]
  <2>1. k - 1 \in 0 .. Size - 1 /\ k - 1 # KfifoLen + wi /\ out + (k - 1) = out + k - 1
    BY <1>3, <1>4, SMT
  <2>2. Offset(out + k - 1) # slot
    BY <1>3, <1>4, <2>1, SlotsDiffer
  <2> QED
    BY <1>1, <2>2
<1> QED
  BY <1>1, <1>2, <1>5 DEF Contents

\* Storing in is the put of the abstract queue.
LEMMA PutCommitPuts ==
    ASSUME Inv, PutCommit
    PROVE  Queue!Put
<1> DEFINE d == SubSeq(wdata, 1, wlen)
<1>1. /\ KfifoLen' = KfifoLen + wlen /\ KfifoLen' \in 0 .. Size
  BY PutCommitLen
<1>3. /\ Contents \in Seq(Byte) /\ Len(Contents) = KfifoLen
      /\ \A k \in 1 .. KfifoLen : Contents[k] = buffer[Offset(out + k - 1)]
      /\ KfifoLen \in 0 .. Size /\ Size \in Nat \ {0} /\ out \in Int
  BY ContentsType
<1>4. /\ wdata \in Seq(Byte) /\ wlen \in 0 .. Size /\ wlen <= Len(wdata)
      /\ wpc = "copy" /\ wi = wlen /\ accepted' = d /\ delivered' = delivered
      /\ buffer' = buffer /\ out' = out
  BY DEF PutCommit, Inv, TypeOK
<1>5. /\ d \in Seq(Byte) /\ Len(d) = wlen
      /\ \A k \in 1 .. wlen : d[k] = wdata[k]
  BY <1>3, <1>4, SMT
<1> HIDE DEF d
<1>6. Contents' \in Seq(Byte) /\ Len(Contents') = KfifoLen + wlen
      /\ \A k \in 1 .. KfifoLen + wlen : Contents'[k] = buffer[Offset(out + k - 1)]
  <2>1. Contents' = [k \in 1 .. KfifoLen + wlen |-> buffer[Offset(out + k - 1)]]
    BY <1>1, <1>4 DEF Contents, Offset
  <2>2. ASSUME NEW k \in 1 .. KfifoLen + wlen
        PROVE  buffer[Offset(out + k - 1)] \in Byte
    <3>1. out + k - 1 \in Int
      BY <1>3, <1>4, SMT
    <3>2. Offset(out + k - 1) \in 0 .. Size - 1
      BY <1>3, <3>1, DivMod DEF Offset
    <3> QED
      BY <3>2 DEF Inv, TypeOK
  <2>3. Contents' \in [1 .. KfifoLen + wlen -> Byte]
    BY <2>1, <2>2, Zenon
  <2>4. KfifoLen + wlen \in Nat
    BY <1>3, <1>4, SMT
  <2>5. Contents' \in Seq(Byte) /\ Len(Contents') = KfifoLen + wlen
    BY <2>3, <2>4, SMT
  <2> QED
    BY <2>1, <2>5, Zenon
<1>7. ASSUME NEW k \in 1 .. wlen
      PROVE  Contents'[KfifoLen + k] = d[k]
  <2>1. k - 1 \in 0 .. wlen - 1 /\ k - 1 + 1 = k
        /\ KfifoLen + k \in 1 .. KfifoLen + wlen
        /\ out + (KfifoLen + k) - 1 = out + (KfifoLen + (k - 1))
    BY <1>3, <1>4, SMT
  <2>2. buffer[CopySlot(k - 1, wl, woff)] = wdata[k]
    BY <1>4, <2>1 DEF Inv, RingInv, WriterInv
  <2>3. CopySlot(k - 1, wl, woff) = Offset(out + (KfifoLen + (k - 1)))
    BY <1>4, <2>1, WriterSlots DEF Inv
  <2> QED
    BY <1>5, <1>6, <2>1, <2>2, <2>3
<1>8. Contents' = Contents \o d
  <2>1. Contents \o d \in Seq(Byte) /\ Len(Contents \o d) = KfifoLen + wlen
        /\ \A k \in 1 .. KfifoLen + wlen :
              (Contents \o d)[k] = IF k <= KfifoLen THEN Contents[k] ELSE d[k - KfifoLen]
    BY <1>3, <1>5, ConcatProperties
  <2>2. ASSUME NEW k \in 1 .. KfifoLen + wlen
        PROVE  Contents'[k] = (Contents \o d)[k]
    <3>1. CASE k <= KfifoLen
      <4>1. k \in 1 .. KfifoLen
        BY <1>3, <1>4, <3>1, SMT
      <4>2. (Contents \o d)[k] = Contents[k]
        BY <2>1, <3>1
      <4> QED
        BY <1>3, <1>6, <4>1, <4>2
    <3>2. CASE ~(k <= KfifoLen)
      <4>1. k - KfifoLen \in 1 .. wlen /\ KfifoLen + (k - KfifoLen) = k
        BY <1>3, <1>4, <3>2, SMT
      <4>2. (Contents \o d)[k] = d[k - KfifoLen]
        BY <2>1, <3>2
      <4>3. Contents'[KfifoLen + (k - KfifoLen)] = d[k - KfifoLen]
        BY <1>7, <4>1
      <4> QED
        BY <4>1, <4>2, <4>3
    <3> QED
      BY <3>1, <3>2
  <2> QED
    BY <1>6, <2>1, <2>2, SeqEqual
<1>9. wlen \in 0 .. (Size - Len(Contents)) /\ d \in [1 .. wlen -> Byte]
  BY <1>1, <1>3, <1>4, <1>5, SMT
<1> QED
  BY <1>4, <1>8, <1>9 DEF Queue!Put

\* Storing out is the get of the abstract queue.
LEMMA GetCommitGets ==
    ASSUME Inv, GetCommit
    PROVE  Queue!Get
<1>1. /\ KfifoLen' = KfifoLen - rlen /\ KfifoLen' \in 0 .. Size
      /\ out' \in 0 .. Modulus - 1 /\ Modulus \in Nat
      /\ \A k \in Int : Offset(out' + k) = Offset(out + (rlen + k))
  BY GetCommitLen, ModulusFacts
<1>2. out' \in Int
  BY <1>1, SMT
<1>3. /\ Contents \in Seq(Byte) /\ Len(Contents) = KfifoLen
      /\ \A k \in 1 .. KfifoLen : Contents[k] = buffer[Offset(out + k - 1)]
      /\ KfifoLen \in 0 .. Size /\ Size \in Nat \ {0} /\ out \in Int
  BY ContentsType
<1>4. /\ rbuf \in Seq(Byte) /\ rlen \in 0 .. Size /\ Len(rbuf) = rlen
      /\ rpc = "copy" /\ delivered' = rbuf /\ accepted' = accepted
      /\ buffer' = buffer
  BY DEF GetCommit, Inv, TypeOK
<1>5. rlen \in 0 .. Len(Contents)
  BY <1>1, <1>3, <1>4, SMT
<1>6. ASSUME NEW k \in 1 .. rlen
      PROVE  rbuf[k] = Contents[k]
  <2>1. k - 1 \in 0 .. rlen - 1 /\ k - 1 + 1 = k /\ k \in 1 .. KfifoLen
        /\ out + (k - 1) = out + k - 1
    BY <1>3, <1>4, <1>5, SMT
  <2>2. rbuf[k] = buffer[CopySlot(k - 1, rl, roff)]
    BY <1>4, <2>1 DEF Inv, RingInv, ReaderInv
  <2>3. CopySlot(k - 1, rl, roff) = Offset(out + (k - 1))
    BY <1>4, <2>1, ReaderSlots DEF Inv
  <2> QED
    BY <1>3, <2>1, <2>2, <2>3
<1>7. rbuf = SubSeq(Contents, 1, rlen)
  BY <1>3, <1>4, <1>5, <1>6, SMT
<1>8. Contents' = SubSeq(Contents, rlen + 1, Len(Contents))
  <2> DEFINE rest == SubSeq(Contents, rlen + 1, Len(Contents))
  <2>1. rest \in Seq(Byte) /\ Len(rest) = KfifoLen - rlen
        /\ \A k \in 1 .. KfifoLen - rlen : rest[k] = Contents[rlen + k]
    BY <1>3, <1>4, <1>5, SMT
  <2>2. /\ Contents' \in Seq(Byte) /\ Len(Contents') = KfifoLen - rlen
        /\ \A k \in 1 .. KfifoLen - rlen : Contents'[k] = buffer[Offset(out' + k - 1)]
    <3>1. Contents' = [k \in 1 .. KfifoLen - rlen |-> buffer[Offset(out' + k - 1)]]
      BY <1>1, <1>4 DEF Contents, Offset
    <3>2. ASSUME NEW k \in 1 .. KfifoLen - rlen
          PROVE  buffer[Offset(out' + k - 1)] \in Byte
      <4>1. out' + k - 1 \in Int
        BY <1>2, <1>3, <1>4, SMT
      <4>2. Offset(out' + k - 1) \in 0 .. Size - 1
        BY <1>3, <4>1, DivMod DEF Offset
      <4> QED
        BY <4>2 DEF Inv, TypeOK
    <3>3. Contents' \in [1 .. KfifoLen - rlen -> Byte]
      BY <3>1, <3>2, Zenon
    <3>4. KfifoLen - rlen \in Nat
      BY <1>3, <1>4, <1>5, SMT
    <3>5. Contents' \in Seq(Byte) /\ Len(Contents') = KfifoLen - rlen
      BY <3>3, <3>4, SMT
    <3> QED
      BY <3>1, <3>5, Zenon
  <2>3. ASSUME NEW k \in 1 .. KfifoLen - rlen
        PROVE  Contents'[k] = rest[k]
    <3>1. /\ k - 1 \in Int /\ rlen + k \in 1 .. KfifoLen
          /\ out' + (k - 1) = out' + k - 1
          /\ out + (rlen + (k - 1)) = out + (rlen + k) - 1
      BY <1>2, <1>3, <1>4, SMT
    <3>2. Offset(out' + k - 1) = Offset(out + (rlen + k) - 1)
      BY <1>1, <3>1
    <3> QED
      BY <1>3, <2>1, <2>2, <3>1, <3>2
  <2> HIDE DEF rest
  <2>4. Contents' = rest
    BY <2>1, <2>2, <2>3, SMT
  <2> QED
    BY <2>4 DEF rest
<1> QED
  BY <1>4, <1>5, <1>7, <1>8 DEF Queue!Get

\* The ring of fifo.c implements the bounded queue of bytes: every accepted
\* byte is delivered once, in order and unaltered, by the calls of one writer
\* and one reader interleaved in any way.
THEOREM ImplementsQueue == Spec => QueueSpec
<1>1. Init => Queue!Init
  <2> SUFFICES ASSUME Init PROVE Queue!Init
    OBVIOUS
  <2>1. Inv
    BY InitInv
  <2>2. Modulus \in Nat \ {0} /\ 0 \in 0 .. Modulus - 1
    BY ModulusFacts, SMT
  <2>3. (0 - 0) % Modulus = 0
    BY <2>2, LenIs, SMT
  <2>4. Contents = <<>>
    BY <2>3, SMT DEF Init, Contents, KfifoLen
  <2> QED
    BY <2>4 DEF Init, Queue!Init
<1>2. Inv /\ [Next]_vars => [Queue!Next]_(Queue!vars)
  <2> SUFFICES ASSUME Inv, [Next]_vars PROVE [Queue!Next]_(Queue!vars)
    OBVIOUS
  <2>1. ASSUME UNCHANGED <<fifo, results>>
        PROVE  UNCHANGED Queue!vars
    BY <2>1 DEF fifo, results, Contents, KfifoLen, Offset, Queue!vars
  <2>2. CASE \E data \in Requests : PutBegin(data)
    BY <2>1, <2>2 DEF PutBegin
  <2>3. CASE PutCopy
    BY <2>3, PutCopyHidden DEF PutCopy, results, Queue!vars
  <2>4. CASE PutCommit
    BY <2>4, PutCommitPuts DEF Queue!Next
  <2>5. CASE \E len \in 0 .. MaxRequest : GetBegin(len)
    BY <2>1, <2>5 DEF GetBegin
  <2>6. CASE GetCopy
    BY <2>1, <2>6 DEF GetCopy
  <2>7. CASE GetCommit
    BY <2>7, GetCommitGets DEF Queue!Next
  <2>8. CASE UNCHANGED vars
    BY <2>1, <2>8 DEF vars
  <2> QED
    BY <2>2, <2>3, <2>4, <2>5, <2>6, <2>7, <2>8 DEF Next, PutStep, GetStep
<1>3. Spec => []Inv
  BY Invariance DEF Inv
<1> QED
  BY <1>1, <1>2, <1>3, PTL DEF Spec, QueueSpec, Queue!Spec
==========================================================================
