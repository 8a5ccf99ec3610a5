-------------------------- MODULE UtilityProofs --------------------------
(***************************************************************************)
(* The two utilities whose correctness needs an invariant of its own, for  *)
(* any instance.  src/hash/hash.c: the table counts its entries, lets      *)
(* every probe end and find its key, and is a map, whatever the hash       *)
(* function and the sequence of sizes.  src/util/fork_util.c: for any      *)
(* number of threads, spawn_and_wait leaves no zombie, although the        *)
(* SIGCHLD handler reaps at will.                                          *)
(***************************************************************************)
EXTENDS HashTable, Spawn, WellFoundedInduction, FiniteSetTheorems, TLAPS

--------------------------------------------------------------------------
(* The inductive invariant of the table *)

\* How far a probe that starts at h goes before it comes to i.
Dist(h, i, n) == IF h <= i THEN i - h ELSE i - h + n

\* The cells a probe for the key of cell i passes.
Path(i) == Passed(HASH_POSITION(cells[i].key, size), i, size)

\* A key is in one cell of the table or of the part of the old array that has
\* not been moved, and the key to be added is in none.
Unique ==
    /\ \A i, j \in Used(cells) : cells[i].key = cells[j].key => i = j
    /\ \A i, j \in Waiting : old[i].key = old[j].key => i = j
    /\ \A i \in Used(cells), j \in Waiting : cells[i].key # old[j].key
    /\ op = "grow" => /\ arg.key \in Keys
                      /\ \A i \in Used(cells) : cells[i].key # arg.key
                      /\ \A j \in Waiting : old[j].key # arg.key

\* The arrays: an old one is moved from its first cell to its last.
Arrays ==
    /\ size = Primes[prime_offset]
    /\ op = "grow" => \E p \in 1..Len(Primes) : DOMAIN old = 0..(Primes[p] - 1) /\ cur \in 0..Primes[p]
    /\ op # "grow" => old = Blank(0)
    /\ op = "rehash" => cur \in 0..(size - 1)

Counting == CountsEntries /\ (op = "grow" => count < resize_threshold(size))

\* No probe is cut off, ...
Reached == op # "rehash" => \A i \in Used(cells) : \A j \in Path(i) : Occupied(cells, j)

\* ... except that a removal has left a hole at h, in the way of entries that
\* the loop has not come to.
Hole(h) ==
    /\ ~Occupied(cells, h)
    /\ \A j \in Passed(NEXT_CELL(h, size), cur, size) : Occupied(cells, j)
    /\ \A i \in Used(cells) : \A j \in Path(i) :
          Occupied(cells, j) \/ (j = h /\ i \notin Passed(NEXT_CELL(h, size), cur, size))

\* The loop started by a callback stays behind an empty cell e and so does not
\* come back to the callback's cell.
Behind(h) ==
    each.at = "changed" => \E e \in 0..(size - 1) :
        /\ ~Occupied(cells, e) /\ e # h
        /\ Dist(each.pos, h, size) < Dist(each.pos, cur, size)
        /\ Dist(each.pos, cur, size) <= Dist(each.pos, e, size)

Repair == op = "rehash" => \E h \in 0..(size - 1) : Hole(h) /\ Behind(h)

\* Where hash_table_for_each is.
Scanned ==
    /\ each.at # "none" => op # "grow"
    /\ op = "rehash" => each.at \in {"none", "changed"}
    /\ each.at \in {"fn", "changed"} => each.pos < size /\ each.key \in seen
    /\ each.at = "fn" => Occupied(cells, each.pos) /\ cells[each.pos].key = each.key
    /\ each.at # "none" => \A i \in Used(cells) : i < each.pos => cells[i].key \in seen

IndInv == TypeOK /\ Arrays /\ Unique /\ Counting /\ Reached /\ Repair /\ Scanned

--------------------------------------------------------------------------
(* Probes *)

LEMMA Consts ==
    /\ INVALID_PTR \notin Keys /\ HashValues \subseteq Nat
    /\ \A p \in 1..Len(Primes) : Primes[p] \in Nat /\ Primes[p] > 1
    /\ Len(Primes) \in Nat /\ Len(Primes) > 0
BY HashAssumption

LEMMA PassedDist ==
    ASSUME NEW n \in Nat, NEW h \in 0..(n - 1), NEW i \in 0..(n - 1)
    PROVE  /\ Passed(h, i, n) \subseteq 0..(n - 1)
           /\ \A j \in 0..(n - 1) : j \in Passed(h, i, n) <=> Dist(h, j, n) < Dist(h, i, n)
BY DEF Passed, Dist

LEMMA HomeIn ==
    ASSUME NEW k \in Keys, NEW n \in Nat, n > 0, hash_function \in [Keys -> HashValues]
    PROVE  HASH_POSITION(k, n) \in 0..(n - 1)
<1>1. hash_function[k] \in Nat
  BY Consts
<1>2. \A x \in Nat : x % n \in 0..(n - 1)
  OBVIOUS
<1> QED
  BY <1>1, <1>2 DEF HASH_POSITION

\* A set of naturals has a least element.
LEMMA LeastExists ==
    ASSUME NEW S \in SUBSET Nat, S # {}
    PROVE  \E x \in S : \A y \in S : x <= y
<1> DEFINE R == OpToRel(<, Nat)
<1>0. IsWellFoundedOn(R, Nat)
  BY NatLessThanWellFounded, Zenon
<1>1. \A x, y \in Nat : y < x => <<y, x>> \in R
  BY DEF OpToRel
<1> HIDE DEF R
<1>2. PICK x \in S : \A y \in S : ~(<<y, x>> \in R)
  BY <1>0, WFMin
<1>3. \A y \in S : x <= y
  <2> TAKE y \in S
  <2>1. ~(y < x)
    BY <1>1, <1>2, Zenon
  <2> QED
    BY <2>1
<1> QED
  BY <1>3

\* A probe comes to an end where there is a free cell.
LEMMA FindEnds ==
    ASSUME NEW n \in Nat, n > 0, NEW cs \in [0..(n - 1) -> Cell], NEW k \in Keys,
           hash_function \in [Keys -> HashValues],
           \E e \in 0..(n - 1) : ~Occupied(cs, e)
    PROVE  find_cell(cs, n, k) \in 0..(n - 1) /\ StopsAt(cs, n, k, find_cell(cs, n, k))
<1> DEFINE h == HASH_POSITION(k, n)
           Good(j) == ~Occupied(cs, j) \/ cs[j].key = k
           D == {d \in Nat : \E j \in 0..(n - 1) : Good(j) /\ d = Dist(h, j, n)}
<1>2. h \in 0..(n - 1)
  BY HomeIn
<1> HIDE DEF h
<1>3. \A j \in 0..(n - 1) : Dist(h, j, n) \in Nat
  BY <1>2 DEF Dist
<1> HIDE DEF Good
<1>4. D # {} /\ D \subseteq Nat
  <2>1. PICK e \in 0..(n - 1) : ~Occupied(cs, e)
    OBVIOUS
  <2>2. Dist(h, e, n) \in D
    BY <1>3, <2>1 DEF Good
  <2> QED
    BY <2>2
<1>5. PICK d \in D : \A y \in D : d <= y
  <2> HIDE DEF D
  <2> QED
    BY <1>4, LeastExists
<1>6. PICK c \in 0..(n - 1) : Good(c) /\ d = Dist(h, c, n)
  OBVIOUS
<1>7. \A j \in Passed(h, c, n) : j \in 0..(n - 1) /\ ~Good(j)
  <2> TAKE j \in Passed(h, c, n)
  <2>1. j \in 0..(n - 1) /\ Dist(h, j, n) < d /\ d \in Nat
    BY <1>2, <1>6, PassedDist
  <2> QED
    BY <1>3, <1>5, <2>1
<1>8. StopsAt(cs, n, k, c)
  BY <1>6, <1>7 DEF StopsAt, Good, h
<1> QED
  BY <1>8 DEF find_cell

\* It ends in one place.
LEMMA FindOne ==
    ASSUME NEW n \in Nat, n > 0, NEW cs, NEW k \in Keys, hash_function \in [Keys -> HashValues],
           NEW c \in 0..(n - 1), StopsAt(cs, n, k, c)
    PROVE  find_cell(cs, n, k) = c
<1> DEFINE h == HASH_POSITION(k, n)
<1>1. h \in 0..(n - 1)
  BY HomeIn
<1>2. \A d \in 0..(n - 1) : StopsAt(cs, n, k, d) => d = c
  <2> SUFFICES ASSUME NEW d \in 0..(n - 1), StopsAt(cs, n, k, d), d # c PROVE FALSE
    OBVIOUS
  <2>1. d \notin Passed(h, c, n) /\ c \notin Passed(h, d, n)
    BY DEF StopsAt
  <2> HIDE DEF h
  <2>2. ~(Dist(h, d, n) < Dist(h, c, n)) /\ ~(Dist(h, c, n) < Dist(h, d, n))
    BY <1>1, <2>1, PassedDist
  <2> QED
    BY <1>1, <2>2 DEF Dist
<1> QED
  BY <1>2 DEF find_cell

--------------------------------------------------------------------------
(* Cells and their number *)

LEMMA CellFacts ==
    /\ Empty \in Cell /\ Empty.key = INVALID_PTR
    /\ \A k \in Keys, v \in Values : Pair(k, v) \in Cell /\ Pair(k, v).key = k /\ Pair(k, v).value = v
    /\ \A c \in Cell : c.key # INVALID_PTR => c.key \in Keys /\ c.value \in Values
BY Consts DEF Cell, Empty, Pair

LEMMA SizeFacts ==
    ASSUME TypeOK, Arrays
    PROVE  /\ size \in Nat /\ size > 1 /\ cells \in [0..(size - 1) -> Cell]
           /\ resize_threshold(size) \in Nat /\ resize_threshold(size) < size
           /\ hash_function \in [Keys -> HashValues]
           /\ Used(cells) = {i \in 0..(size - 1) : Occupied(cells, i)}
           /\ \A i \in Used(cells) : cells[i].key \in Keys /\ cells[i].value \in Values
<1>1. size \in Nat /\ size > 1 /\ cells \in [0..(size - 1) -> Cell] /\ hash_function \in [Keys -> HashValues]
  BY Consts DEF TypeOK, Arrays
<1>2. resize_threshold(size) \in Nat /\ resize_threshold(size) < size
  BY <1>1 DEF resize_threshold
<1>3. Used(cells) = {i \in 0..(size - 1) : Occupied(cells, i)}
  BY <1>1 DEF Used
<1>4. \A i \in Used(cells) : cells[i] \in Cell /\ cells[i].key # INVALID_PTR
  BY <1>1, <1>3 DEF Occupied
<1> QED
  BY <1>1, <1>2, <1>3, <1>4, CellFacts

\* The cells of either array that are in use are finitely many.
LEMMA FiniteFacts ==
    ASSUME TypeOK, Arrays
    PROVE  /\ IsFiniteSet(Used(cells)) /\ Cardinality(Used(cells)) \in Nat
           /\ IsFiniteSet(Waiting) /\ Cardinality(Waiting) \in Nat
           /\ op # "grow" => Waiting = {} /\ Cardinality(Waiting) = 0
<1>1. IsFiniteSet(0..(size - 1)) /\ Used(cells) \subseteq 0..(size - 1)
  BY SizeFacts, FS_Interval
<1>2. op # "grow" => Waiting = {}
  BY DEF Arrays, Blank, Waiting, Used
<1>3. IsFiniteSet(Waiting)
  <2>1. CASE op = "grow"
    <3>1. PICK p \in 1..Len(Primes) : DOMAIN old = 0..(Primes[p] - 1)
      BY <2>1 DEF Arrays
    <3>a. Primes[p] - 1 \in Int /\ 0 \in Int
      BY Consts
    <3>2. IsFiniteSet(0..(Primes[p] - 1))
      BY <3>a, FS_Interval
    <3>3. Waiting \subseteq 0..(Primes[p] - 1)
      BY <3>1 DEF Waiting, Used
    <3> QED
      BY <3>2, <3>3, FS_Subset
  <2> QED
    BY <1>2, <2>1, FS_EmptySet
<1> QED
  BY <1>1, <1>2, <1>3, FS_Subset, FS_CardinalityType, FS_EmptySet

\* A table with fewer entries than cells has a free cell.
LEMMA FreeCellExists ==
    ASSUME TypeOK, Arrays, Cardinality(Used(cells)) <= resize_threshold(size)
    PROVE  ProbesEnd
<1> SUFFICES ASSUME \A i \in 0..(size - 1) : Occupied(cells, i) PROVE FALSE
  BY DEF ProbesEnd
<1>1. Used(cells) = 0..(size - 1)
  BY SizeFacts
<1>2. Cardinality(0..(size - 1)) = size
  BY SizeFacts, FS_Interval
<1> QED
  BY <1>1, <1>2, SizeFacts

LEMMA Free == ASSUME TypeOK, Arrays, Counting PROVE ProbesEnd
<1>1. Cardinality(Used(cells)) <= resize_threshold(size)
  <2>1. count = Cardinality(Used(cells)) + Cardinality(Waiting) /\ count <= resize_threshold(size)
    BY DEF Counting, CountsEntries
  <2> QED
    BY <2>1, FiniteFacts, SizeFacts
<1> QED
  BY <1>1, FreeCellExists

\* What find_cell finds in a table whose probes are not cut off.
LEMMA Found ==
    ASSUME TypeOK, Arrays, Unique, Counting, Reached, op # "rehash", NEW k \in Keys
    PROVE  LET c == find_cell(cells, size, k) IN
           /\ c \in 0..(size - 1)
           /\ Occupied(cells, c) => c \in Used(cells) /\ cells[c].key = k
           /\ ~Occupied(cells, c) => c \notin Used(cells) /\ \A i \in Used(cells) : cells[i].key # k
           /\ \A j \in Passed(HASH_POSITION(k, size), c, size) : Occupied(cells, j)
<1> DEFINE c == find_cell(cells, size, k)
<1>0. c \in 0..(size - 1) /\ StopsAt(cells, size, k, c)
  BY Free, SizeFacts, FindEnds DEF ProbesEnd
<1>1. \A i \in Used(cells) : cells[i].key = k => c = i
  <2> SUFFICES ASSUME NEW i \in Used(cells), cells[i].key = k PROVE c = i
    OBVIOUS
  <2>0. HASH_POSITION(k, size) \in 0..(size - 1) /\ i \in 0..(size - 1) /\ Occupied(cells, i)
    BY SizeFacts, HomeIn
  <2>1. i \notin Passed(HASH_POSITION(k, size), i, size)
        /\ Passed(HASH_POSITION(k, size), i, size) \subseteq 0..(size - 1)
    BY <2>0, SizeFacts, PassedDist DEF Dist
  <2>2. \A j \in Passed(HASH_POSITION(k, size), i, size) : Occupied(cells, j) /\ cells[j].key # k
    BY <2>1, SizeFacts DEF Reached, Path, Unique
  <2> QED
    BY <2>0, <2>2, SizeFacts, FindOne DEF StopsAt
<1> HIDE DEF c
<1> QED
  BY <1>0, <1>1, SizeFacts DEF StopsAt, c

\* An entry with a new key goes into the cell find_cell returns.
LEMMA Insert ==
    ASSUME TypeOK, Arrays, Unique, Counting, Reached, op # "rehash",
           NEW e \in Cell, e.key \in Keys, \A i \in Used(cells) : cells[i].key # e.key,
           cells' = [cells EXCEPT ![find_cell(cells, size, e.key)] = e], UNCHANGED <<size, hash_function>>
    PROVE  /\ cells' \in [0..(size - 1) -> Cell]
           /\ \E c \in 0..(size - 1) :
                /\ c \notin Used(cells) /\ Used(cells') = Used(cells) \cup {c} /\ cells'[c] = e
                /\ \A i \in Used(cells) : cells'[i] = cells[i]
           /\ Cardinality(Used(cells')) = Cardinality(Used(cells)) + 1
           /\ \A i \in Used(cells)' : \A j \in Path(i)' : Occupied(cells', j)
<1>0. PICK c \in 0..(size - 1) :
         /\ c = find_cell(cells, size, e.key)
         /\ Occupied(cells, c) => c \in Used(cells) /\ cells[c].key = e.key
         /\ \A j \in Passed(HASH_POSITION(e.key, size), c, size) : Occupied(cells, j)
  BY Found
<1>1. ~Occupied(cells, c) /\ c \notin Used(cells)
  BY <1>0 DEF Used
<1>2. cells' = [cells EXCEPT ![c] = e] /\ cells \in [0..(size - 1) -> Cell]
  BY <1>0, SizeFacts
<1>3. /\ cells' \in [0..(size - 1) -> Cell] /\ cells'[c] = e
      /\ \A i \in 0..(size - 1) : i # c => cells'[i] = cells[i]
  BY <1>0, <1>2
<1>4. Occupied(cells', c) /\ \A i \in 0..(size - 1) : Occupied(cells, i) => Occupied(cells', i)
  BY <1>1, <1>3, Consts DEF Occupied
<1>5. Used(cells') = Used(cells) \cup {c}
  BY <1>0, <1>3, <1>4, SizeFacts DEF Used, Occupied
<1>6. \A i \in Used(cells) : cells'[i] = cells[i]
  BY <1>1, <1>3, SizeFacts
<1>7. Cardinality(Used(cells')) = Cardinality(Used(cells)) + 1
  BY <1>1, <1>5, FiniteFacts, FS_AddElement
<1>8. \A i \in Used(cells') : \A j \in Path(i)' : Occupied(cells', j)
  <2>1. ASSUME NEW i \in Used(cells') PROVE \A j \in Path(i)' : j \in 0..(size - 1)
    <3>1. i \in 0..(size - 1) /\ cells'[i].key \in Keys
      BY <1>0, <1>3, <1>5, <1>6, SizeFacts
    <3>2. HASH_POSITION(cells'[i].key, size) \in 0..(size - 1)
      BY <3>1, HomeIn, SizeFacts
    <3> QED
      BY <3>1, <3>2, PassedDist, SizeFacts DEF Path, HASH_POSITION
  <2>2. \A j \in Path(c)' : Occupied(cells', j)
    BY <1>0, <1>3, <1>4, <1>5, <2>1 DEF Path, HASH_POSITION
  <2>3. \A i \in Used(cells) : \A j \in Path(i)' : Occupied(cells', j)
    BY <1>4, <1>5, <1>6, <2>1 DEF Reached, Path, HASH_POSITION
  <2> QED
    BY <1>5, <2>2, <2>3
<1> QED
  BY <1>0, <1>1, <1>3, <1>5, <1>6, <1>7, <1>8

--------------------------------------------------------------------------
(* The steps *)

LEMMA InitInv == Init => IndInv
<1> SUFFICES ASSUME Init PROVE IndInv
  OBVIOUS
<1> USE Consts, CellFacts DEF Init
<1>0. Primes[1] \in Nat /\ Primes[1] > 1
  OBVIOUS
<1>1. cells \in [0..(Primes[1] - 1) -> Cell] /\ Used(cells) = {} /\ Waiting = {}
  BY DEF Blank, Used, Waiting, Occupied
<1>2. TypeOK
  BY <1>0, <1>1 DEF TypeOK, NoEach, Returned, Blank
<1>3. Arrays /\ Unique /\ Reached /\ Repair /\ Scanned
  BY <1>1 DEF Arrays, Unique, Reached, Repair, Scanned, NoEach
<1>4. Counting
  BY <1>0, <1>1, FS_EmptySet DEF Counting, CountsEntries, resize_threshold
<1> QED
  BY <1>2, <1>3, <1>4 DEF IndInv

\* When no loop is under way.
LEMMA IdleFacts ==
    ASSUME IndInv, op = "idle"
    PROVE  Waiting = {} /\ count = Cardinality(Used(cells)) /\ count \in Nat
<1>1. count = Cardinality(Used(cells)) + Cardinality(Waiting)
  BY DEF IndInv, Counting, CountsEntries
<1> QED
  BY <1>1, FiniteFacts DEF IndInv

LEMMA SameTable ==
    ASSUME IndInv, UNCHANGED <<hash_function, table>>, TypeOK', Scanned', Repair'
    PROVE  IndInv'
  BY DEF IndInv, table, Arrays, Unique, Counting, CountsEntries, Reached, Path, HASH_POSITION,
         Used, Waiting, Occupied, resize_threshold

LEMMA GetInv == ASSUME IndInv, NEW k \in Keys, hash_table_get(k) PROVE IndInv'
<1> USE DEF hash_table_get
<1>1. reply'.key \in Keys \cup {NULL} /\ reply'.value \in Values \cup {NULL}
  <2>1. LET c == find_cell(cells, size, k) IN Occupied(cells, c) => cells[c].value \in Values
    BY Found, SizeFacts DEF IndInv
  <2> QED
    BY <2>1 DEF Returned
<1>2. TypeOK' /\ UNCHANGED <<op, cells, size, each, seen>>
  BY <1>1 DEF IndInv, TypeOK, table
<1>3. Scanned' /\ Repair'
  BY <1>2 DEF IndInv, Scanned, Repair, Used, Occupied
<1> QED
  BY <1>2, <1>3, SameTable

LEMMA EachInv == ASSUME IndInv, Each PROVE IndInv'
<1>0. UNCHANGED <<hash_function, table>> /\ UNCHANGED reply /\ op = "idle"
  BY DEF Each, hash_table_for_each, EachCell, FnReturns, FnStops, EachEnds
<1>1. UNCHANGED <<cells, size, op, count, prime_offset, cur, old, arg>>
  BY <1>0 DEF table
<1>2. each \in [at : {"none", "scan", "fn", "changed"}, pos : 0..size, key : Keys \cup {INVALID_PTR}]
      /\ seen \subseteq Keys /\ size \in Nat
  BY SizeFacts DEF IndInv, TypeOK
<1>3. /\ each' \in [at : {"none", "scan", "fn", "changed"}, pos : 0..size, key : Keys \cup {INVALID_PTR}]
      /\ seen' \subseteq Keys /\ Scanned'
  <2> USE DEF Used, Occupied
  <2>1. CASE hash_table_for_each
    BY <1>0, <1>1, <1>2, <2>1, SizeFacts DEF hash_table_for_each, NoEach, Scanned, IndInv
  <2>2. CASE FnStops \/ EachEnds
    BY <1>0, <1>1, <1>2, <2>2 DEF FnStops, EachEnds, NoEach, Scanned
  <2>3. CASE \E i \in 0..(size - 1) : i = each.pos /\ Occupied(cells, i) /\ CallFn(i) /\ each.at # "none"
    <3>1. PICK i \in 0..(size - 1) : i = each.pos /\ Occupied(cells, i) /\ CallFn(i) /\ each.at # "none"
      BY <2>3
    <3>2. cells[i].key \in Keys
      BY <3>1, SizeFacts DEF IndInv
    <3> QED
      BY <1>0, <1>1, <1>2, <3>1, <3>2 DEF CallFn, Scanned, IndInv
  <2>4. CASE EachCell
    <3>1. CASE Occupied(cells, each.pos)
      BY <1>2, <2>3, <2>4, <3>1 DEF EachCell
    <3>2. CASE ~Occupied(cells, each.pos)
      BY <1>0, <1>1, <1>2, <2>4, <3>2, SizeFacts DEF EachCell, Scanned, IndInv
    <3> QED
      BY <3>1, <3>2
  <2>5. CASE FnReturns
    <3>0. each.pos \in 0..(size - 1) /\ each.key \in seen /\ each.at # "none"
      BY <1>2, <2>5 DEF FnReturns, IndInv, Scanned
    <3>1. CASE Occupied(cells, each.pos) /\ cells[each.pos].key # each.key
      BY <2>3, <2>5, <3>0, <3>1 DEF FnReturns
    <3>2. CASE ~(Occupied(cells, each.pos) /\ cells[each.pos].key # each.key)
      <4>1. each' = [at |-> "scan", pos |-> each.pos + 1, key |-> INVALID_PTR] /\ UNCHANGED seen
        BY <2>5, <3>2 DEF FnReturns
      <4>2. \A i \in Used(cells) : i < each.pos + 1 => cells[i].key \in seen
        BY <1>2, <3>0, <3>2, SizeFacts DEF IndInv, Scanned
      <4> QED
        BY <1>0, <1>1, <1>2, <3>0, <4>1, <4>2 DEF Scanned
    <3> QED
      BY <3>1, <3>2
  <2> QED
    BY <2>1, <2>2, <2>4, <2>5 DEF Each
<1>4. TypeOK'
  BY <1>0, <1>1, <1>3 DEF IndInv, TypeOK
<1>5. Repair'
  BY <1>0, <1>1 DEF Repair
<1> QED
  BY <1>0, <1>3, <1>4, <1>5, SameTable

\* Who may change the entry of k.
LEMMA Changes ==
    ASSUME IndInv, NEW k \in Keys, MayChange(k)
    PROVE  /\ op = "idle"
           /\ each' \in [at : {"none", "scan", "fn", "changed"}, pos : 0..size, key : Keys \cup {INVALID_PTR}]
           /\ \/ each.at = "none" /\ each' = each
              \/ /\ each.at = "fn" /\ each.key = k /\ each'.at = "changed"
                 /\ each'.pos = each.pos /\ each'.key = each.key
                 /\ each.pos \in 0..(size - 1) /\ each.key \in seen
                 /\ Occupied(cells, each.pos) /\ cells[each.pos].key = k
<1>1. each \in [at : {"none", "scan", "fn", "changed"}, pos : 0..size, key : Keys \cup {INVALID_PTR}]
      /\ size \in Nat
  BY SizeFacts DEF IndInv, TypeOK
<1> QED
  BY <1>1 DEF MayChange, IndInv, Scanned

LEMMA UpdateInv == ASSUME IndInv, NEW k \in Keys, NEW v \in Values, UpdateItem(k, v) PROVE IndInv'
<1> USE DEF UpdateItem
<1>0. op = "idle" /\ UNCHANGED <<hash_function, size, count, prime_offset, op, cur, old, arg, seen>>
      /\ size \in Nat /\ cells \in [0..(size - 1) -> Cell]
  BY SizeFacts DEF MayChange, IndInv
<1>1. PICK c \in 0..(size - 1) : /\ Occupied(cells, c) /\ cells[c].key = k
                                 /\ cells' = [cells EXCEPT ![c] = Pair(k, v)]
  BY <1>0, Found DEF IndInv
<1>2. cells' \in [0..(size - 1) -> Cell] /\ \A i \in 0..(size - 1) : cells'[i].key = cells[i].key
  <2>1. Pair(k, v) \in Cell /\ Pair(k, v).key = k
    BY CellFacts
  <2> HIDE DEF UpdateItem
  <2> QED
    BY <1>0, <1>1, <2>1
<1>3. Used(cells') = Used(cells) /\ \A i \in Used(cells) : i \in 0..(size - 1) /\ cells'[i].key = cells[i].key
  BY <1>0, <1>2 DEF Used, Occupied
<1>4. TypeOK'
  BY <1>0, <1>2, Changes DEF IndInv, TypeOK, Returned
<1>5. Arrays' /\ UNCHANGED Waiting
  BY <1>0 DEF IndInv, Arrays, Waiting, Used, Occupied
<1>6. Unique'
  <2>1. Waiting' = {} /\ op' # "grow"
    BY <1>0, <1>5, IdleFacts
  <2>2. \A i, j \in Used(cells') : cells'[i].key = cells'[j].key => i = j
    BY <1>3 DEF IndInv, Unique
  <2> QED
    BY <2>1, <2>2 DEF Unique
<1>7. Counting'
  BY <1>0, <1>3, <1>5 DEF IndInv, Counting, CountsEntries, resize_threshold
<1>8. Reached'
  <2>1. \A i \in Used(cells) : Path(i)' = Path(i) /\ Path(i) \subseteq 0..(size - 1)
    <3> TAKE i \in Used(cells)
    <3>1. HASH_POSITION(cells[i].key, size) \in 0..(size - 1)
      BY SizeFacts, HomeIn DEF IndInv
    <3> QED
      BY <1>0, <1>3, <3>1, PassedDist DEF Path, HASH_POSITION
  <2> QED
    BY <1>0, <1>2, <1>3, <2>1 DEF IndInv, Reached, Occupied
<1>9. Scanned' /\ Repair'
  BY <1>0, <1>2, <1>3, Changes DEF IndInv, Scanned, Repair, Occupied
<1> QED
  BY <1>4, <1>5, <1>6, <1>7, <1>8, <1>9 DEF IndInv

LEMMA AddInv == ASSUME IndInv, NEW k \in Keys, NEW v \in Values, AddItem(k, v) PROVE IndInv'
<1>0. /\ op = "idle" /\ each.at = "none" /\ UNCHANGED <<hash_function, size, prime_offset, op, cur, old, arg, each, seen>>
      /\ count < resize_threshold(size) /\ count' = count + 1 /\ reply' = Returned("put", k, FALSE, v)
      /\ cells' = [cells EXCEPT ![find_cell(cells, size, Pair(k, v).key)] = Pair(k, v)]
      /\ ~Occupied(cells, find_cell(cells, size, k))
      /\ Pair(k, v) \in Cell /\ Pair(k, v).key = k
  BY CellFacts DEF AddItem, OutsideEach
<1>1. \A i \in Used(cells) : cells[i].key # k
  BY <1>0, Found DEF IndInv
<1>2. /\ cells' \in [0..(size - 1) -> Cell]
      /\ Cardinality(Used(cells')) = Cardinality(Used(cells)) + 1
      /\ \A i \in Used(cells)' : \A j \in Path(i)' : Occupied(cells', j)
  BY <1>0, <1>1, Insert DEF IndInv
<1>3. PICK c \in 0..(size - 1) :
         /\ c \notin Used(cells) /\ Used(cells') = Used(cells) \cup {c} /\ cells'[c] = Pair(k, v)
         /\ \A i \in Used(cells) : cells'[i] = cells[i]
  BY <1>0, <1>1, Insert DEF IndInv
<1>4. TypeOK'
  <2>1. count + 1 \in 0..size
    BY <1>0, IdleFacts, SizeFacts DEF IndInv
  <2> QED
    BY <1>0, <1>2, <2>1 DEF IndInv, TypeOK, Returned
<1>5. Arrays' /\ Waiting' = {}
  <2>1. UNCHANGED Waiting
    BY <1>0 DEF Waiting, Used, Occupied
  <2> QED
    BY <1>0, <2>1, IdleFacts DEF IndInv, Arrays
<1>6. Unique'
  <2>1. \A i, j \in Used(cells') : cells'[i].key = cells'[j].key => i = j
    BY <1>0, <1>1, <1>3 DEF IndInv, Unique
  <2> QED
    BY <1>0, <1>5, <2>1 DEF Unique
<1>7. Counting'
  <2>1. Cardinality(Waiting') = 0 /\ Cardinality(Used(cells)) \in Nat /\ resize_threshold(size) \in Nat
    BY <1>5, FS_EmptySet, FiniteFacts, SizeFacts DEF IndInv
  <2>2. count = Cardinality(Used(cells)) /\ resize_threshold(size)' = resize_threshold(size)
    BY <1>0, IdleFacts DEF resize_threshold
  <2> QED
    BY <1>0, <1>2, <2>1, <2>2 DEF Counting, CountsEntries
<1>8. Reached' /\ Repair' /\ Scanned'
  BY <1>0, <1>2 DEF Reached, Repair, Scanned
<1> QED
  BY <1>4, <1>5, <1>6, <1>7, <1>8 DEF IndInv

LEMMA GrowInv == ASSUME IndInv, NEW k \in Keys, NEW v \in Values, GrowTable(k, v) PROVE IndInv'
<1>0. /\ op = "idle" /\ each.at = "none" /\ UNCHANGED <<hash_function, count, each, seen, reply>>
      /\ LargeEnough(2 * size) # {} /\ ~Occupied(cells, find_cell(cells, size, k))
      /\ size' = Primes[prime_size(2 * size)] /\ prime_offset' = prime_size(2 * size)
      /\ cells' = Blank(size') /\ old' = cells /\ arg' = Pair(k, v) /\ op' = "grow" /\ cur' = 0
  BY DEF GrowTable, OutsideEach
<1>1. prime_offset' \in 1..Len(Primes) /\ size' >= 2 * size
  <2>1. LargeEnough(2 * size) \in SUBSET Nat /\ prime_offset \in 1..Len(Primes)
    BY Consts DEF LargeEnough, IndInv, TypeOK
  <2>2. prime_size(2 * size) \in LargeEnough(2 * size)
    BY <1>0, <2>1, LeastExists DEF prime_size
  <2> QED
    BY <1>0, <2>1, <2>2, Consts DEF LargeEnough
<1>2. size' \in Nat /\ size' > 1 /\ size \in Nat /\ size > 1 /\ cells \in [0..(size - 1) -> Cell]
      /\ size' = Primes[prime_offset']
  BY <1>0, <1>1, Consts, SizeFacts DEF IndInv
<1>3. cells' \in [0..(size' - 1) -> Cell] /\ Used(cells') = {}
  BY <1>0, <1>2, CellFacts DEF Blank, Used, Occupied
<1>4. Waiting' = Used(cells)
  BY <1>0, <1>2 DEF Waiting, Used, Occupied
<1>5. \A i \in Used(cells) : cells[i].key # k
  BY <1>0, Found DEF IndInv
<1>6. TypeOK'
  <2>1. arg' \in Cell
    BY <1>0, CellFacts
  <2>2. DOMAIN old' \subseteq Nat /\ \A i \in DOMAIN old' : old'[i] \in Cell
    BY <1>0, <1>2
  <2>3. each' \in [at : {"none", "scan", "fn", "changed"}, pos : 0..size', key : Keys \cup {INVALID_PTR}]
    BY <1>0, <1>1, <1>2 DEF IndInv, TypeOK
  <2>4. count' \in 0..size'
    BY <1>0, <1>1, <1>2 DEF IndInv, TypeOK
  <2> QED
    BY <1>0, <1>1, <1>2, <1>3, <2>1, <2>2, <2>3, <2>4 DEF IndInv, TypeOK
<1>7. Arrays'
  <2>1. DOMAIN old' = 0..(Primes[prime_offset] - 1) /\ prime_offset \in 1..Len(Primes) /\ cur' \in 0..Primes[prime_offset]
    BY <1>0, <1>2, Consts DEF IndInv, TypeOK, Arrays
  <2> QED
    BY <1>0, <1>2, <2>1 DEF Arrays
<1>8. Unique'
  BY <1>0, <1>3, <1>4, <1>5, CellFacts DEF IndInv, Unique
<1>9. Counting'
  <2>1. count = Cardinality(Used(cells)) /\ count \in Nat /\ count <= resize_threshold(size)
    BY <1>0, IdleFacts DEF IndInv, Counting, CountsEntries
  <2>2. resize_threshold(size) < resize_threshold(size')
    BY <1>1, <1>2 DEF resize_threshold
  <2>3. Cardinality(Used(cells')) = 0
    BY <1>3, FS_EmptySet
  <2>4. resize_threshold(size) \in Nat /\ resize_threshold(size') \in Nat
    BY <1>2 DEF resize_threshold
  <2> QED
    BY <1>0, <1>4, <2>1, <2>2, <2>3, <2>4 DEF Counting, CountsEntries, resize_threshold
<1>10. Reached' /\ Repair' /\ Scanned'
  BY <1>0, <1>3 DEF Reached, Repair, Scanned
<1> QED
  BY <1>6, <1>7, <1>8, <1>9, <1>10 DEF IndInv

\* The old array while it is moved.
LEMMA OldFacts ==
    ASSUME IndInv, op = "grow"
    PROVE  /\ \A i \in Waiting : old[i] \in Cell /\ old[i].key \in Keys /\ i \in Nat
           /\ cur \in DOMAIN old /\ Occupied(old, cur) => cur \in Waiting
           /\ cur \notin DOMAIN old => Waiting = {}
           /\ cur \in Nat /\ each.at = "none"
<1>1. cur \in Nat /\ DOMAIN old \subseteq Nat /\ \A i \in DOMAIN old : old[i] \in Cell
  BY DEF IndInv, TypeOK
<1>2. PICK p \in 1..Len(Primes) : DOMAIN old = 0..(Primes[p] - 1) /\ cur \in 0..Primes[p]
  BY DEF IndInv, Arrays
<1>3. Primes[p] \in Nat
  BY Consts
<1> QED
  BY <1>1, <1>2, <1>3, CellFacts DEF Waiting, Used, Occupied, IndInv, Scanned

LEMMA MoveInv == ASSUME IndInv, MoveOld PROVE IndInv'
<1>0. /\ op = "grow" /\ cur \in DOMAIN old /\ cur' = cur + 1 /\ cur \in Nat /\ each.at = "none"
      /\ UNCHANGED <<hash_function, size, count, prime_offset, op, old, arg, each, seen, reply>>
  BY OldFacts DEF MoveOld
<1>1. /\ Waiting' = Waiting \ {cur}
      /\ Arrays'
  <2>1. Waiting' = Waiting \ {cur}
    BY <1>0 DEF IndInv, TypeOK, Waiting, Used, Occupied
  <2>2. \E p \in 1..Len(Primes) : DOMAIN old = 0..(Primes[p] - 1) /\ cur' \in 0..Primes[p]
    <3>1. PICK p \in 1..Len(Primes) : DOMAIN old = 0..(Primes[p] - 1) /\ cur \in 0..Primes[p]
      BY <1>0 DEF IndInv, Arrays
    <3>2. Primes[p] \in Nat
      BY Consts
    <3> QED
      BY <1>0, <3>1, <3>2
  <2> QED
    BY <1>0, <2>1, <2>2 DEF IndInv, Arrays
<1>2. Repair' /\ Scanned'
  BY <1>0 DEF Repair, Scanned
<1>3. CASE ~Occupied(old, cur)
  <2>1. UNCHANGED cells /\ Waiting' = Waiting
    BY <1>0, <1>1, <1>3 DEF MoveOld, Waiting, Used
  <2>2. TypeOK'
    BY <1>0, <2>1 DEF IndInv, TypeOK
  <2>3. Unique' /\ Counting' /\ Reached'
    BY <1>0, <2>1 DEF IndInv, Unique, Counting, CountsEntries, Reached, Path, HASH_POSITION, resize_threshold,
                      Used, Occupied
  <2> QED
    BY <1>1, <1>2, <2>2, <2>3 DEF IndInv
<1>4. CASE Occupied(old, cur)
  <2>0. PICK w \in Waiting : w = cur
    BY <1>0, <1>4, OldFacts
  <2>1. old[w] \in Cell /\ old[w].key \in Keys /\ \A i \in Used(cells) : cells[i].key # old[w].key
    BY <1>0, <2>0, OldFacts DEF IndInv, Unique
  <2>2. cells' = [cells EXCEPT ![find_cell(cells, size, old[w].key)] = old[w]]
    BY <1>4, <2>0 DEF MoveOld, FreeCell
  <2>3. /\ cells' \in [0..(size - 1) -> Cell]
        /\ Cardinality(Used(cells')) = Cardinality(Used(cells)) + 1
        /\ \A i \in Used(cells)' : \A j \in Path(i)' : Occupied(cells', j)
    BY <1>0, <2>1, <2>2, Insert DEF IndInv
  <2>4. PICK c \in 0..(size - 1) :
           /\ c \notin Used(cells) /\ Used(cells') = Used(cells) \cup {c} /\ cells'[c] = old[w]
           /\ \A i \in Used(cells) : cells'[i] = cells[i]
    BY <1>0, <2>1, <2>2, Insert DEF IndInv
  <2>5. TypeOK'
    BY <1>0, <2>3 DEF IndInv, TypeOK
  <2>6. Unique'
    <3>1. \A i, j \in Used(cells') : cells'[i].key = cells'[j].key => i = j
      BY <2>1, <2>4 DEF IndInv, Unique
    <3>2. \A i \in Used(cells'), j \in Waiting' : cells'[i].key # old'[j].key
      BY <1>0, <1>1, <2>0, <2>4 DEF IndInv, Unique
    <3>3. \A i \in Used(cells') : cells'[i].key # arg'.key
      BY <1>0, <2>0, <2>4 DEF IndInv, Unique
    <3> QED
      BY <1>0, <1>1, <3>1, <3>2, <3>3 DEF IndInv, Unique
  <2>7. Counting'
    <3>1. Cardinality(Waiting') = Cardinality(Waiting) - 1
      BY <1>1, <2>0, FiniteFacts, FS_RemoveElement DEF IndInv
    <3> QED
      BY <1>0, <2>3, <3>1, FiniteFacts DEF IndInv, Counting, CountsEntries, resize_threshold
  <2> QED
    BY <1>0, <1>1, <1>2, <2>3, <2>5, <2>6, <2>7 DEF IndInv, Reached
<1> QED
  BY <1>3, <1>4

LEMMA AddGrownInv == ASSUME IndInv, AddToGrown PROVE IndInv'
<1>0. /\ op = "grow" /\ Waiting = {} /\ each.at = "none" /\ count' = count + 1
      /\ op' = "idle" /\ cur' = 0 /\ old' = Blank(0) /\ arg' = Empty
      /\ UNCHANGED <<hash_function, size, prime_offset, each, seen>>
      /\ reply' = Returned("put", arg.key, FALSE, arg.value)
      /\ cells' = [cells EXCEPT ![find_cell(cells, size, arg.key)] = arg]
      /\ arg \in Cell /\ arg.key \in Keys /\ arg.value \in Values /\ \A i \in Used(cells) : cells[i].key # arg.key
  BY OldFacts, CellFacts, Consts DEF AddToGrown, IndInv, TypeOK, Unique
<1>2. /\ cells' \in [0..(size - 1) -> Cell]
      /\ Cardinality(Used(cells')) = Cardinality(Used(cells)) + 1
      /\ \A i \in Used(cells)' : \A j \in Path(i)' : Occupied(cells', j)
  BY <1>0, Insert DEF IndInv
<1>3. PICK c \in 0..(size - 1) :
         /\ c \notin Used(cells) /\ Used(cells') = Used(cells) \cup {c} /\ cells'[c] = arg
         /\ \A i \in Used(cells) : cells'[i] = cells[i]
  BY <1>0, Insert DEF IndInv
<1>c. count = Cardinality(Used(cells)) /\ count \in Nat /\ count < resize_threshold(size)
  BY <1>0, FiniteFacts, FS_EmptySet DEF IndInv, Counting, CountsEntries
<1>4. TypeOK'
  <2>1. count + 1 \in 0..size
    BY <1>c, SizeFacts DEF IndInv
  <2>2. DOMAIN old' \subseteq Nat /\ \A i \in DOMAIN old' : old'[i] \in Cell
    BY <1>0 DEF Blank
  <2> QED
    BY <1>0, <1>2, <2>1, <2>2, CellFacts DEF IndInv, TypeOK, Returned
<1>5. Arrays' /\ Waiting' = {}
  BY <1>0 DEF IndInv, Arrays, Waiting, Used, Blank
<1>6. Unique'
  <2>1. \A i, j \in Used(cells') : cells'[i].key = cells'[j].key => i = j
    BY <1>0, <1>3 DEF IndInv, Unique
  <2> QED
    BY <1>0, <1>5, <2>1 DEF Unique
<1>7. Counting'
  <2>1. Cardinality(Waiting') = 0 /\ Cardinality(Used(cells)) \in Nat /\ resize_threshold(size) \in Nat
    BY <1>5, FS_EmptySet, FiniteFacts, SizeFacts DEF IndInv
  <2>2. resize_threshold(size)' = resize_threshold(size)
    BY <1>0 DEF resize_threshold
  <2> QED
    BY <1>0, <1>2, <1>c, <2>1, <2>2 DEF Counting, CountsEntries
<1>8. Reached' /\ Repair' /\ Scanned'
  BY <1>0, <1>2 DEF Reached, Repair, Scanned
<1> QED
  BY <1>4, <1>5, <1>6, <1>7, <1>8 DEF IndInv

LEMMA ClearInv == ASSUME IndInv, hash_table_clear PROVE IndInv'
<1>0. /\ op = "idle" /\ each.at = "none" /\ count' = 0 /\ cells' = Blank(size)
      /\ UNCHANGED <<hash_function, size, prime_offset, op, cur, old, arg, each, seen>>
      /\ reply' = Returned("clear", NULL, FALSE, NULL) /\ size \in Nat /\ size > 1
  BY SizeFacts DEF hash_table_clear, IndInv
<1>1. cells' \in [0..(size - 1) -> Cell] /\ Used(cells') = {} /\ Waiting' = Waiting
  BY <1>0, CellFacts DEF Blank, Used, Occupied, Waiting
<1>2. TypeOK'
  BY <1>0, <1>1 DEF IndInv, TypeOK, Returned
<1>3. Arrays' /\ Unique' /\ Reached' /\ Repair' /\ Scanned'
  BY <1>0, <1>1, IdleFacts DEF IndInv, Arrays, Unique, Reached, Repair, Scanned
<1>4. Counting'
  BY <1>0, <1>1, IdleFacts, FS_EmptySet DEF Counting, CountsEntries, resize_threshold
<1> QED
  BY <1>2, <1>3, <1>4 DEF IndInv

\* Going on to the next cell.
LEMMA NextCell ==
    ASSUME NEW n \in Nat, n > 1, NEW i \in 0..(n - 1)
    PROVE  /\ NEXT_CELL(i, n) \in 0..(n - 1) /\ NEXT_CELL(i, n) # i
           /\ \A h \in 0..(n - 1) : Dist(h, i, n) < n - 1 => Dist(h, NEXT_CELL(i, n), n) = Dist(h, i, n) + 1
           /\ \A j \in 0..(n - 1) : j # i => Dist(i, j, n) = Dist(NEXT_CELL(i, n), j, n) + 1
           /\ Dist(i, i, n) = 0 /\ Dist(NEXT_CELL(i, n), i, n) = n - 1
           /\ \A j \in 0..(n - 1) : Dist(i, j, n) \in 0..(n - 1)
BY DEF NEXT_CELL, Dist

\* The cells of Passed(h + 1, i) lie strictly between h and i.
LEMMA Between ==
    ASSUME NEW n \in Nat, n > 1, NEW h \in 0..(n - 1), NEW i \in 0..(n - 1), NEW j \in 0..(n - 1)
    PROVE  /\ i # h => (j \in Passed(NEXT_CELL(h, n), i, n) <=> j # h /\ Dist(h, j, n) < Dist(h, i, n))
           /\ j \in Passed(NEXT_CELL(h, n), h, n) <=> j # h
<1>1. NEXT_CELL(h, n) \in 0..(n - 1)
  BY NextCell
<1>2. j \in Passed(NEXT_CELL(h, n), i, n) <=> Dist(NEXT_CELL(h, n), j, n) < Dist(NEXT_CELL(h, n), i, n)
  BY <1>1, PassedDist
<1>3. j \in Passed(NEXT_CELL(h, n), h, n) <=> Dist(NEXT_CELL(h, n), j, n) < Dist(NEXT_CELL(h, n), h, n)
  BY <1>1, PassedDist
<1> QED
  BY <1>2, <1>3 DEF NEXT_CELL, Dist

\* One cell more lies between h and the next cell.
LEMMA NextPassed ==
    ASSUME NEW n \in Nat, n > 1, NEW h \in 0..(n - 1), NEW i \in 0..(n - 1), NEW j \in 0..(n - 1), i # h
    PROVE  j \in Passed(NEXT_CELL(h, n), NEXT_CELL(i, n), n) <=> j \in Passed(NEXT_CELL(h, n), i, n) \/ j = i
<1>1. NEXT_CELL(i, n) \in 0..(n - 1)
  BY NextCell
<1>2. CASE NEXT_CELL(i, n) = h
  <2>1. j \in Passed(NEXT_CELL(h, n), h, n) <=> j # h
    BY Between
  <2>2. j \in Passed(NEXT_CELL(h, n), i, n) <=> j # h /\ Dist(h, j, n) < Dist(h, i, n)
    BY Between
  <2> QED
    BY <1>2, <2>1, <2>2 DEF NEXT_CELL, Dist
<1>3. CASE NEXT_CELL(i, n) # h
  <2>1. j \in Passed(NEXT_CELL(h, n), NEXT_CELL(i, n), n)
          <=> j # h /\ Dist(h, j, n) < Dist(h, NEXT_CELL(i, n), n)
    BY <1>1, <1>3, Between
  <2>2. j \in Passed(NEXT_CELL(h, n), i, n) <=> j # h /\ Dist(h, j, n) < Dist(h, i, n)
    BY Between
  <2> QED
    BY <1>3, <2>1, <2>2 DEF NEXT_CELL, Dist
<1> QED
  BY <1>2, <1>3

\* A probe that passes h on its way to i passes what lies between h and i.
LEMMA Onwards ==
    ASSUME NEW n \in Nat, NEW p \in 0..(n - 1), NEW h \in 0..(n - 1), NEW c \in 0..(n - 1), NEW i \in 0..(n - 1),
           Dist(p, h, n) < Dist(p, i, n), Dist(h, c, n) < Dist(h, i, n)
    PROVE  Dist(p, c, n) < Dist(p, i, n)
BY DEF Dist

\* The way to an entry.
LEMMA PathFacts ==
    ASSUME IndInv, NEW i \in Used(cells)
    PROVE  LET p == HASH_POSITION(cells[i].key, size) IN
           /\ p \in 0..(size - 1) /\ i \in 0..(size - 1) /\ Path(i) = Passed(p, i, size)
           /\ Path(i) \subseteq 0..(size - 1) /\ i \notin Path(i)
           /\ \A j \in 0..(size - 1) : j \in Path(i) <=> Dist(p, j, size) < Dist(p, i, size)
<1> DEFINE p == HASH_POSITION(cells[i].key, size)
<1>1. p \in 0..(size - 1) /\ i \in 0..(size - 1) /\ size \in Nat
  BY SizeFacts, HomeIn DEF IndInv
<1>2. Path(i) = Passed(p, i, size)
  BY DEF Path
<1> HIDE DEF p
<1>3. Path(i) \subseteq 0..(size - 1) /\ \A j \in 0..(size - 1) : j \in Path(i) <=> Dist(p, j, size) < Dist(p, i, size)
  BY <1>1, <1>2, PassedDist
<1>4. i \notin Path(i)
  BY <1>1, <1>3 DEF Dist
<1> QED
  BY <1>1, <1>2, <1>3, <1>4 DEF p

LEMMA RemoveInv == ASSUME IndInv, NEW k \in Keys, hash_table_remove(k) PROVE IndInv'
<1>0. /\ MayChange(k) /\ op = "idle" /\ UNCHANGED <<hash_function, size, prime_offset, old, arg, seen>>
      /\ size \in Nat /\ size > 1 /\ cells \in [0..(size - 1) -> Cell]
      /\ reply'.key \in Keys \cup {NULL} /\ reply'.value \in Values \cup {NULL}
  BY SizeFacts DEF hash_table_remove, MayChange, IndInv, Returned
<1>1. CASE ~Occupied(cells, find_cell(cells, size, k))
  <2>1. UNCHANGED <<hash_function, table>> /\ UNCHANGED <<cells, size, op, count, cur>>
    BY <1>0, <1>1 DEF hash_table_remove, table
  <2>2. TypeOK'
    BY <1>0, <2>1, Changes DEF IndInv, TypeOK
  <2>3. Scanned'
    <3>1. UNCHANGED each
      BY <1>0, <1>1, Changes, Found, SizeFacts DEF IndInv
    <3> QED
      BY <1>0, <2>1, <3>1 DEF IndInv, Scanned, Used, Occupied
  <2>4. Repair'
    BY <1>0, <2>1 DEF Repair
  <2> QED
    BY <2>1, <2>2, <2>3, <2>4, SameTable
<1>2. CASE Occupied(cells, find_cell(cells, size, k))
  <2>1. PICK c \in 0..(size - 1) :
           /\ Occupied(cells, c) /\ cells[c].key = k /\ c \in Used(cells)
           /\ cells' = [cells EXCEPT ![c] = Empty] /\ cur' = NEXT_CELL(c, size)
    BY <1>0, <1>2, Found DEF hash_table_remove, IndInv
  <2>2. count' = count - 1 /\ op' = "rehash"
    BY <1>2 DEF hash_table_remove
  <2>3. /\ cells' \in [0..(size - 1) -> Cell] /\ ~Occupied(cells', c)
        /\ \A i \in 0..(size - 1) : i # c => cells'[i] = cells[i]
    BY <1>0, <2>1, CellFacts DEF Occupied
  <2>4. Used(cells') = Used(cells) \ {c} /\ \A i \in Used(cells') : i \in 0..(size - 1) /\ cells'[i] = cells[i]
    BY <1>0, <2>3 DEF Used, Occupied
  <2>5. cur' \in 0..(size - 1)
    BY <1>0, <2>1, NextCell
  <2>6. Cardinality(Used(cells')) = Cardinality(Used(cells)) - 1 /\ Cardinality(Used(cells')) \in Nat
    BY <2>1, <2>4, FiniteFacts, FS_RemoveElement, FS_CardinalityType DEF IndInv
  <2>7. TypeOK'
    <3>1. count' \in 0..size
      BY <1>0, <2>2, <2>6, IdleFacts DEF IndInv, TypeOK
    <3> QED
      BY <1>0, <2>2, <2>3, <2>5, <3>1, Changes DEF IndInv, TypeOK
  <2>8. Arrays' /\ Waiting' = {}
    BY <1>0, <2>2, <2>5 DEF IndInv, Arrays, Waiting, Used, Blank
  <2>9. Unique' /\ Reached'
    BY <2>2, <2>4, <2>8 DEF IndInv, Unique, Reached
  <2>10. Counting'
    <3>1. Cardinality(Waiting') = 0 /\ resize_threshold(size)' = resize_threshold(size) /\ resize_threshold(size) \in Nat
      BY <1>0, <2>8, FS_EmptySet, SizeFacts DEF IndInv, resize_threshold
    <3> QED
      BY <1>0, <2>2, <2>6, <3>1, IdleFacts DEF IndInv, Counting, CountsEntries
  <2>11. Hole(c)'
    <3>1. Passed(NEXT_CELL(c, size)', cur', size') = {}
      BY <1>0, <2>1, <2>5 DEF Passed, NEXT_CELL
    <3>2. \A i \in Used(cells') : \A j \in Path(i)' : Occupied(cells', j) \/ j = c
      <4> TAKE i \in Used(cells')
      <4>1. Path(i)' = Path(i) /\ i \in Used(cells) /\ Path(i) \subseteq 0..(size - 1)
        BY <1>0, <2>4, PathFacts DEF Path, HASH_POSITION
      <4> QED
        BY <1>0, <2>3, <4>1 DEF IndInv, Reached, Occupied
    <3> QED
      BY <2>3, <3>1, <3>2 DEF Hole
  <2>12. Behind(c)'
    <3> SUFFICES ASSUME each'.at = "changed"
                 PROVE  \E e \in 0..(size' - 1) :
                          /\ ~Occupied(cells', e) /\ e # c
                          /\ Dist(each'.pos, c, size') < Dist(each'.pos, cur', size')
                          /\ Dist(each'.pos, cur', size') <= Dist(each'.pos, e, size')
      BY DEF Behind, Dist
    <3>1. each'.pos = c
      BY <1>0, <2>1, Changes, SizeFacts DEF IndInv, Unique
    <3>2. PICK e \in 0..(size - 1) : ~Occupied(cells, e)
      BY Free DEF IndInv, ProbesEnd
    <3>3. e # c /\ ~Occupied(cells', e)
      BY <2>1, <2>3, <3>2 DEF Occupied
    <3>4. Dist(c, c, size) < Dist(c, cur', size) /\ Dist(c, cur', size) <= Dist(c, e, size)
      BY <1>0, <2>1, <3>3 DEF Dist, NEXT_CELL
    <3> QED
      BY <1>0, <3>1, <3>3, <3>4
  <2>13. Repair'
    BY <1>0, <2>11, <2>12 DEF Repair
  <2>14. Scanned'
    BY <1>0, <2>2, <2>4, Changes DEF IndInv, Scanned
  <2> QED
    BY <2>7, <2>8, <2>9, <2>10, <2>13, <2>14 DEF IndInv
<1> QED
  BY <1>1, <1>2

\* The loop of a callback's removal goes on and stays behind the cell e.
LEMMA StillBehind ==
    ASSUME NEW n \in Nat, n > 1, NEW s \in 0..(n - 1), NEW h \in 0..(n - 1), NEW u \in 0..(n - 1), NEW e \in 0..(n - 1),
           u # e, Dist(s, h, n) < Dist(s, u, n), Dist(s, u, n) <= Dist(s, e, n)
    PROVE  /\ Dist(s, h, n) < Dist(s, NEXT_CELL(u, n), n)
           /\ Dist(s, u, n) < Dist(s, NEXT_CELL(u, n), n)
           /\ Dist(s, NEXT_CELL(u, n), n) <= Dist(s, e, n)
           /\ h < s => u < s
BY DEF Dist, NEXT_CELL

LEMMA RehashInv == ASSUME IndInv, Rehash PROVE IndInv'
<1>0. /\ op = "rehash" /\ Occupied(cells, cur) /\ cur' = NEXT_CELL(cur, size)
      /\ UNCHANGED <<hash_function, size, count, prime_offset, op, old, arg, each, seen, reply>>
      /\ size \in Nat /\ size > 1 /\ cells \in [0..(size - 1) -> Cell]
  BY SizeFacts DEF Rehash, IndInv
<1>1. PICK h \in 0..(size - 1) : Hole(h) /\ Behind(h)
  BY <1>0 DEF IndInv, Repair
<1>2. PICK u \in 0..(size - 1) : u = cur
  BY <1>0 DEF IndInv, Arrays
<1>3. u # h /\ u \in Used(cells) /\ h \notin Used(cells) /\ ~Occupied(cells, h) /\ Occupied(cells, u)
  BY <1>0, <1>1, <1>2 DEF Hole, Used
<1> DEFINE k == cells[u].key
           p == HASH_POSITION(k, size)
<1>4. k \in Keys /\ p \in 0..(size - 1) /\ Path(u) = Passed(p, u, size) /\ u \notin Path(u)
      /\ Path(u) \subseteq 0..(size - 1)
      /\ \A j \in 0..(size - 1) : j \in Path(u) <=> Dist(p, j, size) < Dist(p, u, size)
  BY <1>3, PathFacts, SizeFacts DEF IndInv
<1>5. \A j \in Path(u) : j # h => Occupied(cells, j) /\ cells[j].key # k
  BY <1>0, <1>1, <1>3, <1>4 DEF Hole, IndInv, Unique, Used
<1>6. cur' \in 0..(size - 1) /\ Waiting' = {} /\ op' # "grow" /\ Arrays' /\ cur' = NEXT_CELL(u, size)
  <2>1. cur' \in 0..(size - 1)
    BY <1>0, <1>2, NextCell
  <2> QED
    BY <1>0, <1>2, <2>1 DEF IndInv, Arrays, Waiting, Used, Blank
<1>7. each.at = "changed" =>
        /\ each.pos \in 0..(size - 1)
        /\ \E e \in 0..(size - 1) :
             /\ ~Occupied(cells, e) /\ e # h /\ e # u
             /\ Dist(each.pos, h, size) < Dist(each.pos, cur', size)
             /\ Dist(each.pos, u, size) < Dist(each.pos, cur', size)
             /\ Dist(each.pos, cur', size) <= Dist(each.pos, e, size)
             /\ h < each.pos => u < each.pos
  <2> SUFFICES ASSUME each.at = "changed"
               PROVE  /\ each.pos \in 0..(size - 1)
                      /\ \E e \in 0..(size - 1) :
                           /\ ~Occupied(cells, e) /\ e # h /\ e # u
                           /\ Dist(each.pos, h, size) < Dist(each.pos, cur', size)
                           /\ Dist(each.pos, u, size) < Dist(each.pos, cur', size)
                           /\ Dist(each.pos, cur', size) <= Dist(each.pos, e, size)
                           /\ h < each.pos => u < each.pos
    OBVIOUS
  <2>1. each.pos \in 0..(size - 1)
    BY <1>0 DEF IndInv, Scanned, TypeOK
  <2>2. PICK e \in 0..(size - 1) :
          /\ ~Occupied(cells, e) /\ e # h
          /\ Dist(each.pos, h, size) < Dist(each.pos, u, size)
          /\ Dist(each.pos, u, size) <= Dist(each.pos, e, size)
    BY <1>1, <1>2 DEF Behind
  <2>3. e # u
    BY <1>3, <2>2
  <2> QED
    BY <1>0, <1>6, <2>1, <2>2, <2>3, StillBehind
<1> HIDE DEF k, p
<1>8. CASE h \notin Path(u)
  <2>1. find_cell(cells, size, k) = u
    <3>1. StopsAt(cells, size, k, u)
      BY <1>4, <1>5, <1>8 DEF StopsAt, k, p
    <3> QED
      BY <1>0, <1>4, <3>1, FindOne, SizeFacts DEF IndInv
  <2>2. UNCHANGED cells
    BY <1>2, <1>3, <2>1 DEF Rehash, k
  <2>3. TypeOK' /\ Unique' /\ Counting' /\ Reached'
    <3>1. UNCHANGED Waiting /\ UNCHANGED Used(cells)
      BY <1>0, <1>6, <2>2, FiniteFacts DEF IndInv, Used, Occupied
    <3>2. TypeOK'
      BY <1>0, <1>6, <2>2 DEF IndInv, TypeOK
    <3>3. Unique'
      BY <1>6, <2>2, <3>1 DEF IndInv, Unique
    <3>4. Counting' /\ Reached'
      BY <1>0, <3>1 DEF IndInv, Counting, CountsEntries, resize_threshold, Reached
    <3> QED
      BY <3>2, <3>3, <3>4
  <2>4. Hole(h)'
    <3>1. \A j \in 0..(size - 1) : j \in Passed(NEXT_CELL(h, size), cur', size)
                                    <=> j \in Passed(NEXT_CELL(h, size), cur, size) \/ j = u
      BY <1>0, <1>2, <1>3, <1>6, NextPassed
    <3>2. Passed(NEXT_CELL(h, size), cur', size) \subseteq 0..(size - 1)
      BY <1>0, <1>6, NextCell, PassedDist
    <3>3. \A j \in Passed(NEXT_CELL(h, size), cur', size) : Occupied(cells, j)
      BY <1>1, <1>3, <3>1, <3>2 DEF Hole
    <3>4. \A i \in Used(cells) : \A j \in Path(i) :
             Occupied(cells, j) \/ (j = h /\ i \notin Passed(NEXT_CELL(h, size), cur', size))
      <4> TAKE i \in Used(cells)
      <4> TAKE j \in Path(i)
      <4>1. CASE i = u
        BY <1>5, <1>8, <4>1
      <4>2. CASE i # u
        BY <1>1, <3>1, <4>2, PathFacts DEF Hole
      <4> QED
        BY <4>1, <4>2
    <3>5. (\A i : Path(i)' = Path(i)) /\ NEXT_CELL(h, size)' = NEXT_CELL(h, size)
          /\ Used(cells') = Used(cells) /\ \A i : Occupied(cells', i) = Occupied(cells, i)
      BY <1>0, <2>2 DEF Path, HASH_POSITION, NEXT_CELL
    <3>6. ~Occupied(cells', h)
      BY <1>1, <3>5 DEF Hole
    <3> QED
      BY <1>0, <3>3, <3>4, <3>5, <3>6 DEF Hole
  <2>5. Behind(h)'
    BY <1>0, <1>7, <2>2 DEF Behind, Dist, Occupied
  <2>6. Scanned'
    BY <1>0, <2>2 DEF IndInv, Scanned, Used, Occupied
  <2>7. Repair'
    BY <1>0, <2>4, <2>5 DEF Repair
  <2> QED
    BY <1>6, <2>3, <2>6, <2>7 DEF IndInv
<1>9. CASE h \in Path(u)
  <2>1. /\ Passed(p, h, size) \subseteq 0..(size - 1)
        /\ \A j \in Passed(p, h, size) : j \in Path(u) /\ j # h /\ j # u
    <3>1. Passed(p, h, size) \subseteq 0..(size - 1)
          /\ \A j \in 0..(size - 1) : j \in Passed(p, h, size) <=> Dist(p, j, size) < Dist(p, h, size)
      BY <1>0, <1>4, PassedDist
    <3>2. Dist(p, h, size) < Dist(p, u, size)
      BY <1>4, <1>9
    <3>3. \A j \in 0..(size - 1) : Dist(p, j, size) \in Int
      BY <1>0, <1>4 DEF Dist
    <3> QED
      BY <1>4, <3>1, <3>2, <3>3
  <2>2. find_cell(cells, size, k) = h
    <3>1. StopsAt(cells, size, k, h)
      BY <1>3, <1>5, <2>1 DEF StopsAt, p
    <3> QED
      BY <1>0, <1>4, <3>1, FindOne, SizeFacts DEF IndInv
  <2>3. cells' = [cells EXCEPT ![h] = cells[u], ![u] = Empty]
    BY <1>2, <1>3, <2>2 DEF Rehash, k
  <2>4. /\ cells' \in [0..(size - 1) -> Cell] /\ cells'[h] = cells[u] /\ ~Occupied(cells', u) /\ Occupied(cells', h)
        /\ \A i \in 0..(size - 1) : i # h /\ i # u => cells'[i] = cells[i]
    BY <1>0, <1>3, <2>3, CellFacts DEF Occupied
  <2>5. Used(cells') = (Used(cells) \ {u}) \cup {h}
        /\ \A i \in Used(cells) : i # u => i \in 0..(size - 1) /\ cells'[i] = cells[i]
    BY <1>0, <1>3, <2>4 DEF Used, Occupied
  <2>6. Cardinality(Used(cells')) = Cardinality(Used(cells))
    <3>1. Cardinality(Used(cells) \ {u}) = Cardinality(Used(cells)) - 1 /\ IsFiniteSet(Used(cells) \ {u})
      BY <1>3, FiniteFacts, FS_RemoveElement DEF IndInv
    <3>2. h \notin Used(cells) \ {u}
      BY <1>3
    <3>3. Cardinality(Used(cells')) = Cardinality(Used(cells) \ {u}) + 1
      BY <2>5, <3>1, <3>2, FS_AddElement
    <3> QED
      BY <3>1, <3>3, FiniteFacts DEF IndInv
  <2>7. TypeOK'
    BY <1>0, <1>6, <2>4 DEF IndInv, TypeOK
  <2>8. Unique'
    <3>1. \A i, j \in Used(cells') : cells'[i].key = cells'[j].key => i = j
      BY <1>3, <2>4, <2>5 DEF IndInv, Unique
    <3> QED
      BY <1>6, <3>1 DEF Unique
  <2>9. Counting' /\ Reached'
    <3>1. Cardinality(Waiting') = Cardinality(Waiting)
      BY <1>0, <1>6, FiniteFacts, FS_EmptySet DEF IndInv
    <3> QED
      BY <1>0, <2>6, <3>1 DEF IndInv, Counting, CountsEntries, resize_threshold, Reached
  <2>10. Hole(u)'
    <3>1. Passed(NEXT_CELL(u, size)', cur', size') = {}
      BY <1>0, <1>6 DEF Passed, NEXT_CELL
    <3>2. \A i \in Used(cells') : \A j \in Path(i)' : Occupied(cells', j) \/ j = u
      <4> TAKE i \in Used(cells')
      <4>1. CASE i = h
        <5>1. Path(i)' = Passed(p, h, size)
          BY <1>0, <2>4, <4>1 DEF Path, HASH_POSITION, p, k
        <5>2. \A j \in Passed(p, h, size) : Occupied(cells, j) /\ cells'[j] = cells[j]
          BY <1>5, <2>1, <2>4
        <5> QED
          BY <5>1, <5>2 DEF Occupied
      <4>2. CASE i # h
        <5>1. i \in Used(cells) /\ i # u /\ Path(i)' = Path(i) /\ Path(i) \subseteq 0..(size - 1)
          BY <1>0, <2>5, <4>2, PathFacts DEF Path, HASH_POSITION
        <5> QED
          BY <1>1, <2>4, <5>1 DEF Hole, Occupied
      <4> QED
        BY <4>1, <4>2
    <3> QED
      BY <2>4, <3>1, <3>2 DEF Hole
  <2>11. Behind(u)'
    <3>1. \A e \in 0..(size - 1) : e # h /\ e # u /\ ~Occupied(cells, e) => ~Occupied(cells', e)
      BY <2>4 DEF Occupied
    <3> QED
      BY <1>0, <1>7, <3>1 DEF Behind, Dist
  <2>12. Scanned'
    <3>1. each.at # "none" => each.at = "changed" /\ \A i \in Used(cells') : i < each.pos => cells'[i].key \in seen
      BY <1>0, <1>3, <1>7, <2>4, <2>5 DEF IndInv, Scanned
    <3> QED
      BY <1>0, <3>1 DEF IndInv, Scanned
  <2>13. Repair'
    BY <1>0, <2>10, <2>11 DEF Repair
  <2> QED
    BY <1>6, <2>7, <2>8, <2>9, <2>12, <2>13 DEF IndInv
<1> QED
  BY <1>8, <1>9

LEMMA RehashDoneInv == ASSUME IndInv, RehashDone PROVE IndInv'
<1>0. /\ op = "rehash" /\ ~Occupied(cells, cur) /\ op' = "idle" /\ cur' = 0
      /\ UNCHANGED <<hash_function, cells, size, count, prime_offset, old, arg, each, seen, reply>>
      /\ size \in Nat /\ size > 1 /\ cur \in 0..(size - 1)
  BY SizeFacts DEF RehashDone, IndInv, Arrays
<1>1. PICK h \in 0..(size - 1) : Hole(h)
  BY <1>0 DEF IndInv, Repair
<1>2. \A i \in Used(cells) : \A j \in Path(i) : Occupied(cells, j)
  <2> SUFFICES ASSUME NEW i \in Used(cells), NEW j \in Path(i), ~Occupied(cells, j) PROVE FALSE
    OBVIOUS
  <2>1. j = h /\ i \notin Passed(NEXT_CELL(h, size), cur, size)
    BY <1>1 DEF Hole
  <2>2. i \in 0..(size - 1) /\ i # h /\ i # cur
    BY <1>0, <1>1, PathFacts DEF Hole, Used
  <2>3. cur # h /\ ~(Dist(h, i, size) < Dist(h, cur, size))
    BY <1>0, <2>1, <2>2, Between
  <2>4. Dist(h, cur, size) < Dist(h, i, size)
    BY <1>0, <2>2, <2>3 DEF Dist
  <2>5. cur \in Path(i)
    BY <1>0, <2>1, <2>2, <2>4, PathFacts, Onwards
  <2> QED
    BY <1>0, <1>1, <2>3, <2>5 DEF Hole
<1>3. Waiting' = {} /\ Waiting = {}
  BY <1>0, FiniteFacts DEF IndInv, Arrays, Waiting, Used, Blank
<1>4. TypeOK' /\ Arrays' /\ Repair'
  BY <1>0 DEF IndInv, TypeOK, Arrays, Repair, Blank
<1>5. Unique' /\ Counting'
  BY <1>0, <1>3 DEF IndInv, Unique, Counting, CountsEntries, resize_threshold
<1>6. Reached'
  BY <1>0, <1>2 DEF Reached, Path, HASH_POSITION
<1>7. Scanned'
  BY <1>0 DEF IndInv, Scanned
<1> QED
  BY <1>4, <1>5, <1>6, <1>7 DEF IndInv

LEMMA StepInv == IndInv /\ [Next]_vars => IndInv'
<1> SUFFICES ASSUME IndInv, [Next]_vars PROVE IndInv'
  OBVIOUS
<1>1. CASE UNCHANGED vars
  <2>1. TypeOK' /\ UNCHANGED <<hash_function, table>> /\ Scanned'
    BY <1>1 DEF vars, table, IndInv, TypeOK, Scanned, Used, Occupied
  <2>2. Repair'
    BY <1>1 DEF vars, table, IndInv, Repair, Hole, Behind, Path, HASH_POSITION, NEXT_CELL, Passed, Dist, Used, Occupied
  <2> QED
    BY <2>1, <2>2, SameTable
<1>2. CASE Next
  BY <1>2, GetInv, RemoveInv, UpdateInv, AddInv, GrowInv, ClearInv, MoveInv, AddGrownInv, RehashInv, RehashDoneInv,
     EachInv DEF Next, Loop
<1> QED
  BY <1>1, <1>2

LEMMA AlwaysInd == Spec => []IndInv
BY InitInv, StepInv, PTL DEF Spec

--------------------------------------------------------------------------
(* The theorems on the table *)

(* Through every call, growth and removal the table counts its entries,    *)
(* keeps a free cell, so that probes end, and lets a probe for any key     *)
(* find its entry (hash.c:56-80, 255-266, 347-413).                        *)
THEOREM TableCorrect == Spec => []TableInv
<1>1. IndInv => TableInv
  <2> SUFFICES ASSUME IndInv PROVE TableInv
    OBVIOUS
  <2>1. ProbesEnd
    BY Free DEF IndInv
  <2>2. EveryEntryFound
    <3> SUFFICES ASSUME op = "idle", NEW i \in Used(cells) PROVE StopsAt(cells, size, cells[i].key, i)
      BY DEF EveryEntryFound
    <3>1. \A j \in Path(i) : Occupied(cells, j) /\ j # i /\ j \in Used(cells)
      BY PathFacts, SizeFacts DEF IndInv, Reached
    <3>2. \A j \in Path(i) : cells[j].key # cells[i].key
      BY <3>1 DEF IndInv, Unique
    <3> QED
      BY <3>1, <3>2, PathFacts DEF StopsAt
  <2> QED
    BY <2>1, <2>2 DEF TableInv, IndInv, Counting
<1> QED
  BY AlwaysInd, <1>1, PTL

(* When hash_table_for_each comes to its end it has called its callback    *)
(* with every key in the table, whatever the callback removed or updated   *)
(* (hash.c:426-455).                                                       *)
THEOREM EachIsComplete == Spec => EachSeesAll
<1>1. IndInv /\ [Next]_vars =>
        [each.at = "scan" /\ each'.at = "none" => {cells[i].key : i \in Used(cells)} \subseteq seen]_vars
  <2> SUFFICES ASSUME IndInv, Next, each.at = "scan", each'.at = "none", NEW i \in Used(cells)
               PROVE  cells[i].key \in seen
    OBVIOUS
  <2>1. each.pos = size
    <3>1. each \in [at : {"none", "scan", "fn", "changed"}, pos : 0..size, key : Keys \cup {INVALID_PTR}]
          /\ op # "grow" /\ op # "rehash"
      BY DEF IndInv, TypeOK, Scanned
    <3>2. ~Loop /\ ~hash_table_clear /\ ~hash_table_for_each /\ ~FnReturns /\ ~FnStops
      BY <3>1 DEF Loop, MoveOld, AddToGrown, Rehash, RehashDone, hash_table_clear, hash_table_for_each,
                  FnReturns, FnStops
    <3>3. \A k \in Keys : ~hash_table_get(k) /\ ~hash_table_remove(k)
      BY DEF hash_table_get, hash_table_remove, MayChange
    <3>4. \A k \in Keys, v \in Values : ~UpdateItem(k, v) /\ ~AddItem(k, v) /\ ~GrowTable(k, v)
      BY DEF UpdateItem, AddItem, GrowTable, MayChange, OutsideEach
    <3>5. ~EachCell
      BY <3>1 DEF EachCell, CallFn
    <3>6. EachEnds
      BY <3>2, <3>3, <3>4, <3>5 DEF Next, Each
    <3> QED
      BY <3>6 DEF EachEnds
  <2> QED
    BY <2>1, SizeFacts DEF IndInv, Scanned
<1> QED
  BY AlwaysInd, <1>1, PTL DEF Spec, EachSeesAll

--------------------------------------------------------------------------
(* The table is a map *)

\* The map a set of entries with different keys stands for.
MapOf(E) == [k \in {e.key : e \in E} |-> (CHOOSE e \in E : e.key = k).value]

OneEach(E) == \A e, f \in E : e.key = f.key => e = f

InTable == {cells[i] : i \in Used(cells)}
Left    == {old[i] : i \in Waiting}

LEMMA MapFacts ==
    ASSUME NEW E, OneEach(E)
    PROVE  /\ DOMAIN MapOf(E) = {e.key : e \in E}
           /\ \A e \in E : MapOf(E)[e.key] = e.value
           /\ \A k : k \in DOMAIN MapOf(E) <=> \E e \in E : e.key = k
           /\ MapOf(E) = [k \in DOMAIN MapOf(E) |-> MapOf(E)[k]]
<1>1. DOMAIN MapOf(E) = {e.key : e \in E} /\ MapOf(E) = [k \in DOMAIN MapOf(E) |-> MapOf(E)[k]]
  BY DEF MapOf
<1>2. \A e \in E : MapOf(E)[e.key] = e.value
  <2> TAKE e \in E
  <2>1. (CHOOSE f \in E : f.key = e.key) = e
    BY DEF OneEach
  <2> QED
    BY <2>1 DEF MapOf
<1> QED
  BY <1>1, <1>2


\* F is E with p in the place of the entry with its key.
Replaced(E, F, p) == \A e : e \in F <=> (e \in E /\ e.key # p.key) \/ e = p

LEMMA PutMap ==
    ASSUME NEW E, NEW F, NEW p, OneEach(E), Replaced(E, F, p)
    PROVE  /\ DOMAIN MapOf(F) = DOMAIN MapOf(E) \cup {p.key}
           /\ \A j \in DOMAIN MapOf(F) : MapOf(F)[j] = IF j = p.key THEN p.value ELSE MapOf(E)[j]
           /\ MapOf(F) = [j \in DOMAIN MapOf(F) |-> MapOf(F)[j]]
<1>0. \A e : e \in F <=> (e \in E /\ e.key # p.key) \/ e = p
  BY DEF Replaced
<1>1. OneEach(F)
  BY <1>0 DEF OneEach
<1>2. DOMAIN MapOf(F) = DOMAIN MapOf(E) \cup {p.key}
  <2>1. \A j : j \in DOMAIN MapOf(F) <=> \E e \in F : e.key = j
    BY <1>1, MapFacts
  <2>2. \A j : j \in DOMAIN MapOf(E) <=> \E e \in E : e.key = j
    BY MapFacts
  <2>3. ASSUME NEW j PROVE j \in DOMAIN MapOf(F) <=> j \in DOMAIN MapOf(E) \/ j = p.key
    <3>1. CASE j = p.key
      BY <1>0, <2>1, <3>1
    <3>2. CASE j # p.key
      <4>1. \A e : e \in F /\ e.key = j <=> e \in E /\ e.key = j
        BY <1>0, <3>2
      <4> QED
        BY <2>1, <2>2, <3>2, <4>1
    <3> QED
      BY <3>1, <3>2
  <2> QED
    BY <2>3
<1>3. \A j \in DOMAIN MapOf(F) : MapOf(F)[j] = IF j = p.key THEN p.value ELSE MapOf(E)[j]
  <2> TAKE j \in DOMAIN MapOf(F)
  <2>1. PICK e \in F : e.key = j
    BY <1>1, MapFacts
  <2>2. MapOf(F)[j] = e.value
    BY <1>1, <2>1, MapFacts
  <2>3. CASE j = p.key
    BY <1>0, <1>1, <2>1, <2>2, <2>3 DEF OneEach
  <2>4. CASE j # p.key
    <3>1. e \in E
      BY <1>0, <2>1, <2>4
    <3>2. MapOf(E)[e.key] = e.value
      BY <3>1, MapFacts
    <3> QED
      BY <2>1, <2>2, <2>4, <3>2
  <2> QED
    BY <2>3, <2>4
<1>4. MapOf(F) = [j \in DOMAIN MapOf(F) |-> MapOf(F)[j]]
  BY <1>1, MapFacts
<1> QED
  BY <1>2, <1>3, <1>4

LEMMA RemoveMap ==
    ASSUME NEW E, OneEach(E), NEW k, NEW F, F = {e \in E : e.key # k}
    PROVE  MapOf(F) = [j \in DOMAIN MapOf(E) \ {k} |-> MapOf(E)[j]]
<1>1. OneEach(F)
  BY DEF OneEach
<1>2. DOMAIN MapOf(F) = DOMAIN MapOf(E) \ {k}
  <2>1. \A j : j \in DOMAIN MapOf(F) <=> \E e \in F : e.key = j
    BY <1>1, MapFacts
  <2>2. \A j : j \in DOMAIN MapOf(E) <=> \E e \in E : e.key = j
    BY MapFacts
  <2> QED
    BY <2>1, <2>2
<1>3. \A j \in DOMAIN MapOf(F) : MapOf(F)[j] = MapOf(E)[j]
  <2> TAKE j \in DOMAIN MapOf(F)
  <2>1. PICK e \in F : e.key = j
    BY <1>1, MapFacts
  <2>2. e \in E
    BY <2>1
  <2>3. MapOf(F)[e.key] = e.value
    BY <1>1, MapFacts
  <2>4. MapOf(E)[e.key] = e.value
    BY <2>2, MapFacts
  <2> QED
    BY <2>1, <2>3, <2>4
<1>4. MapOf(F) = [j \in DOMAIN MapOf(F) |-> MapOf(F)[j]]
  BY <1>1, MapFacts
<1> QED
  BY <1>2, <1>3, <1>4

LEMMA EntryFacts ==
    ASSUME IndInv
    PROVE  /\ OneEach(Entries) /\ Entries = InTable \cup Left /\ TheMap = MapOf(Entries)
           /\ op # "grow" => Entries = InTable
<1>1. Entries = InTable \cup Left /\ TheMap = MapOf(Entries)
  BY DEF Entries, InTable, Left, TheMap, MapOf
<1>2. OneEach(Entries)
  BY DEF IndInv, Unique, OneEach, Entries
<1>3. op # "grow" => Left = {}
  BY FiniteFacts DEF IndInv, Left
<1> QED
  BY <1>1, <1>2, <1>3

\* What find_cell says of the map.
LEMMA FoundInMap ==
    ASSUME IndInv, op = "idle", NEW k \in Keys
    PROVE  LET c == find_cell(cells, size, k) IN
           /\ Occupied(cells, c) => k \in DOMAIN TheMap /\ TheMap[k] = cells[c].value /\ cells[c] \in Entries
           /\ ~Occupied(cells, c) => k \notin DOMAIN TheMap
<1> DEFINE c == find_cell(cells, size, k)
<1>1. /\ Occupied(cells, c) => c \in Used(cells) /\ cells[c].key = k
      /\ ~Occupied(cells, c) => \A i \in Used(cells) : cells[i].key # k
  BY Found DEF IndInv
<1> HIDE DEF c
<1>2. \A j : j \in DOMAIN TheMap <=> \E e \in Entries : e.key = j
  BY EntryFacts, MapFacts
<1>3. \A e \in Entries : TheMap[e.key] = e.value
  <2>1. \A e \in Entries : MapOf(Entries)[e.key] = e.value
    BY EntryFacts, MapFacts
  <2> QED
    BY <2>1, EntryFacts
<1>4. Entries = InTable
  BY EntryFacts
<1> QED
  BY <1>1, <1>2, <1>3, <1>4 DEF InTable, c

\* The steps of a call that is under way, and of hash_table_for_each, move
\* entries about and leave the map as it is.
LEMMA GrowKeeps ==
    ASSUME IndInv, NEW k \in Keys, NEW v \in Values, GrowTable(k, v)
    PROVE  Entries' = Entries /\ UNCHANGED reply
<1>1. op = "idle" /\ old' = cells /\ cur' = 0 /\ reply' = reply /\ cells' = Blank(size')
  BY DEF GrowTable, OutsideEach
<1>2. Used(cells') = {}
  BY <1>1, CellFacts DEF Used, Blank, Occupied
<1>3. Waiting' = Used(cells)
  BY <1>1, SizeFacts DEF IndInv, Waiting, Used, Occupied
<1>4. Waiting = {}
  BY <1>1, FiniteFacts DEF IndInv
<1> QED
  BY <1>1, <1>2, <1>3, <1>4 DEF Entries

LEMMA MoveKeeps == ASSUME IndInv, MoveOld PROVE Entries' = Entries /\ UNCHANGED reply
<1>0. /\ op = "grow" /\ cur \in DOMAIN old /\ cur' = cur + 1 /\ cur \in Nat
      /\ old' = old /\ reply' = reply /\ UNCHANGED <<size, hash_function>>
  BY OldFacts DEF MoveOld
<1>1. Waiting' = Waiting \ {cur} /\ (Occupied(old, cur) <=> cur \in Waiting)
  BY <1>0 DEF IndInv, TypeOK, Waiting, Used, Occupied
<1>2. CASE ~Occupied(old, cur)
  BY <1>0, <1>1, <1>2 DEF MoveOld, Entries
<1>3. CASE Occupied(old, cur)
  <2>1. PICK e \in Cell : e = old[cur]
    BY <1>1, <1>3, <1>0, OldFacts
  <2>2. /\ e.key \in Keys /\ \A i \in Used(cells) : cells[i].key # e.key
        /\ cells' = [cells EXCEPT ![find_cell(cells, size, e.key)] = e]
    BY <1>0, <1>1, <1>3, <2>1, OldFacts DEF MoveOld, FreeCell, IndInv, Unique
  <2>3. PICK c \in 0..(size - 1) :
           /\ c \notin Used(cells) /\ Used(cells') = Used(cells) \cup {c} /\ cells'[c] = e
           /\ \A i \in Used(cells) : cells'[i] = cells[i]
    BY <1>0, <2>1, <2>2, Insert DEF IndInv
  <2> QED
    BY <1>0, <1>1, <1>3, <2>1, <2>3 DEF Entries
<1> QED
  BY <1>2, <1>3

LEMMA RehashKeeps == ASSUME IndInv, Rehash PROVE Entries' = Entries /\ UNCHANGED reply
<1>0. /\ op = "rehash" /\ Occupied(cells, cur) /\ old' = old /\ reply' = reply /\ cur \in 0..(size - 1)
      /\ size \in Nat /\ cells \in [0..(size - 1) -> Cell] /\ Waiting = {} /\ cells[cur].key \in Keys
      /\ hash_function \in [Keys -> HashValues] /\ size > 0
  BY SizeFacts, FiniteFacts DEF Rehash, IndInv, Arrays
<1>1. PICK u \in 0..(size - 1) : u = cur
  BY <1>0
<1>2. PICK c : c = find_cell(cells, size, cells[cur].key)
  OBVIOUS
<1>3. c \in 0..(size - 1)
  BY <1>0, <1>2, FindEnds, Free DEF IndInv, ProbesEnd
<1>4. Waiting' = {}
  BY <1>0 DEF IndInv, Arrays, Blank, Waiting, Used
<1>5. cells' = IF Occupied(cells, c) THEN cells ELSE [cells EXCEPT ![c] = cells[u], ![u] = Empty]
  BY <1>1, <1>2 DEF Rehash
<1>6. CASE Occupied(cells, c)
  BY <1>0, <1>4, <1>5, <1>6 DEF Entries
<1>7. CASE ~Occupied(cells, c)
  <2>1. c # u /\ u \in Used(cells) /\ c \notin Used(cells)
    BY <1>0, <1>1, <1>7, SizeFacts DEF IndInv
  <2>2. cells'[c] = cells[u] /\ \A i \in Used(cells) \ {u} : cells'[i] = cells[i]
    BY <1>0, <1>3, <1>5, <1>7, <2>1 DEF Used
  <2>3. Used(cells') = (Used(cells) \ {u}) \cup {c}
    BY <1>0, <1>1, <1>3, <1>5, <1>7, <2>1, CellFacts DEF Used, Occupied
  <2>4. Entries = {cells[i] : i \in Used(cells)} /\ Entries' = {cells'[i] : i \in Used(cells')}
    BY <1>0, <1>4 DEF Entries
  <2>5. ASSUME NEW e PROVE (\E i \in Used(cells) : e = cells[i]) <=> \E i \in Used(cells') : e = cells'[i]
    BY <2>1, <2>2, <2>3
  <2>6. Entries' = Entries
    BY <2>4, <2>5
  <2> QED
    BY <1>0, <2>6
<1> QED
  BY <1>6, <1>7

LEMMA OthersKeep ==
    ASSUME IndInv, RehashDone \/ Each \/ UNCHANGED vars
    PROVE  Entries' = Entries /\ UNCHANGED reply
<1>1. CASE Each \/ UNCHANGED vars
  BY <1>1 DEF Each, hash_table_for_each, EachCell, FnReturns, FnStops, EachEnds, table, vars, Entries, Waiting
<1>2. CASE RehashDone
  <2>1. old = Blank(0) /\ UNCHANGED <<old, cells, reply>>
    BY <1>2 DEF RehashDone, IndInv, Arrays
  <2>2. Waiting = {} /\ Waiting' = {}
    BY <2>1 DEF Waiting, Used, Blank
  <2> QED
    BY <2>1, <2>2 DEF Entries
<1> QED
  BY <1>1, <1>2

\* The steps that change the map or return.
LEMMA ReplacesEntry ==
    ASSUME IndInv, NEW k \in Keys, NEW v \in Values, UpdateItem(k, v)
    PROVE  /\ Entries' = {e \in Entries : e.key # k} \cup {Pair(k, v)}
           /\ k \in DOMAIN TheMap /\ reply' = Returned("put", k, TRUE, v)
<1>0. /\ op = "idle" /\ UNCHANGED <<size, cur, old, op>> /\ reply' = Returned("put", k, TRUE, v)
      /\ size \in Nat /\ cells \in [0..(size - 1) -> Cell]
  BY SizeFacts DEF UpdateItem, MayChange, IndInv
<1>1. PICK c \in Used(cells) : /\ Occupied(cells, c) /\ cells[c].key = k
                               /\ cells' = [cells EXCEPT ![c] = Pair(k, v)]
  BY <1>0, Found DEF UpdateItem, IndInv
<1>2. k \in DOMAIN TheMap
  BY <1>0, FoundInMap DEF UpdateItem
<1>3. Waiting = {} /\ Waiting' = {}
  BY <1>0, FiniteFacts DEF IndInv, Waiting, Used
<1>4. Used(cells') = Used(cells) /\ cells'[c] = Pair(k, v) /\ \A i \in Used(cells) \ {c} : cells'[i] = cells[i]
  BY <1>0, <1>1, CellFacts, Consts DEF Used, Occupied
<1>5. \A i \in Used(cells) : cells[i].key = k => i = c
  BY <1>1 DEF IndInv, Unique
<1>6. Entries = {cells[i] : i \in Used(cells)} /\ Entries' = {cells'[i] : i \in Used(cells)}
  BY <1>3, <1>4 DEF Entries
<1> QED
  BY <1>0, <1>1, <1>2, <1>4, <1>5, <1>6

LEMMA AddsEntry ==
    ASSUME IndInv, NEW k \in Keys, NEW v \in Values,
           AddItem(k, v) \/ (AddToGrown /\ arg = Pair(k, v))
    PROVE  /\ Entries' = {e \in Entries : e.key # k} \cup {Pair(k, v)}
           /\ k \notin DOMAIN TheMap /\ reply' = Returned("put", k, FALSE, v)
<1>0. Pair(k, v) \in Cell /\ Pair(k, v).key = k /\ Pair(k, v).value = v
  BY CellFacts
<1>1. /\ cells' = [cells EXCEPT ![find_cell(cells, size, Pair(k, v).key)] = Pair(k, v)]
      /\ op \in {"idle", "grow"} /\ op' = "idle" /\ UNCHANGED <<size, hash_function>>
      /\ reply' = Returned("put", k, FALSE, v)
  BY <1>0 DEF AddItem, AddToGrown, OutsideEach
<1>2. Waiting = {} /\ Waiting' = {} /\ \A i \in Used(cells) : cells[i].key # k
  <2>1. CASE AddItem(k, v)
    <3>1. op = "idle" /\ old' = old /\ ~Occupied(cells, find_cell(cells, size, k))
      BY <2>1 DEF AddItem, OutsideEach
    <3>2. Waiting = {} /\ Waiting' = {}
      BY <3>1 DEF IndInv, Arrays, Blank, Waiting, Used
    <3>3. \A i \in Used(cells) : cells[i].key # k
      BY <3>1, Found DEF IndInv
    <3> QED
      BY <3>2, <3>3
  <2>2. CASE AddToGrown /\ arg = Pair(k, v)
    <3>1. op = "grow" /\ old' = Blank(0) /\ cur \notin DOMAIN old
      BY <2>2 DEF AddToGrown
    <3>2. Waiting = {}
      BY <3>1, OldFacts
    <3>3. Waiting' = {}
      BY <3>1 DEF Blank, Waiting, Used
    <3> QED
      BY <1>0, <2>2, <3>1, <3>2, <3>3 DEF IndInv, Unique
  <2> QED
    BY <2>1, <2>2
<1>3. PICK p \in Cell : p = Pair(k, v)
  BY <1>0
<1>4. PICK c \in 0..(size - 1) :
         /\ c \notin Used(cells) /\ Used(cells') = Used(cells) \cup {c} /\ cells'[c] = p
         /\ \A i \in Used(cells) : cells'[i] = cells[i]
  <2>1. p.key \in Keys /\ \A i \in Used(cells) : cells[i].key # p.key
    BY <1>0, <1>2, <1>3
  <2>2. cells' = [cells EXCEPT ![find_cell(cells, size, p.key)] = p]
    BY <1>1, <1>3
  <2> QED
    BY <1>1, <2>1, <2>2, Insert DEF IndInv
<1>5. Entries = {cells[i] : i \in Used(cells)} /\ Entries' = {cells'[i] : i \in Used(cells')}
  BY <1>2 DEF Entries
<1>6. Entries' = Entries \cup {p} /\ \A e \in Entries : e.key # k
  BY <1>2, <1>4, <1>5
<1>7. k \notin DOMAIN TheMap
  <2>1. \A j : j \in DOMAIN MapOf(Entries) <=> \E e \in Entries : e.key = j
    BY EntryFacts, MapFacts
  <2> QED
    BY <1>6, <2>1, EntryFacts
<1> QED
  BY <1>1, <1>3, <1>6, <1>7

LEMMA RemovesEntry ==
    ASSUME IndInv, NEW k \in Keys, hash_table_remove(k)
    PROVE  /\ Entries' = {e \in Entries : e.key # k}
           /\ \/ k \in DOMAIN TheMap /\ reply' = Returned("remove", k, TRUE, NULL)
              \/ k \notin DOMAIN TheMap /\ reply' = Returned("remove", k, FALSE, NULL)
<1>0. op = "idle" /\ UNCHANGED <<size, old>> /\ size \in Nat /\ cells \in [0..(size - 1) -> Cell]
  BY SizeFacts DEF hash_table_remove, MayChange, IndInv
<1>1. Waiting = {} /\ Waiting' = {}
  BY <1>0 DEF IndInv, Arrays, Blank, Waiting, Used
<1>2. Entries = {cells[i] : i \in Used(cells)} /\ Entries' = {cells'[i] : i \in Used(cells')}
  BY <1>1 DEF Entries
<1>3. CASE Occupied(cells, find_cell(cells, size, k))
  <2>1. k \in DOMAIN TheMap /\ reply' = Returned("remove", k, TRUE, NULL)
    BY <1>0, <1>3, FoundInMap DEF hash_table_remove
  <2>2. PICK c \in Used(cells) : cells[c].key = k /\ cells' = [cells EXCEPT ![c] = Empty]
    BY <1>0, <1>3, Found DEF hash_table_remove, IndInv
  <2>3. Used(cells') = Used(cells) \ {c} /\ \A i \in Used(cells) \ {c} : cells'[i] = cells[i]
    BY <1>0, <2>2, CellFacts DEF Used, Occupied
  <2>4. \A i \in Used(cells) : cells[i].key = k <=> i = c
    BY <2>2 DEF IndInv, Unique
  <2> QED
    BY <1>2, <2>1, <2>3, <2>4
<1>4. CASE ~Occupied(cells, find_cell(cells, size, k))
  <2>1. k \notin DOMAIN TheMap /\ reply' = Returned("remove", k, FALSE, NULL) /\ cells' = cells
    BY <1>0, <1>4, FoundInMap DEF hash_table_remove
  <2>2. \A e \in Entries : e.key # k
    BY <2>1, EntryFacts, MapFacts
  <2> QED
    BY <1>2, <2>1, <2>2
<1> QED
  BY <1>3, <1>4

(* The refinement *)
LEMMA StepPut ==
    ASSUME IndInv, NEW k \in Keys, NEW v \in Values,
           Entries' = {e \in Entries : e.key # k} \cup {Pair(k, v)},
           \/ k \in DOMAIN TheMap /\ reply' = Returned("put", k, TRUE, v)
           \/ k \notin DOMAIN TheMap /\ reply' = Returned("put", k, FALSE, v)
    PROVE  Abstract!MapPut(k, v)
<1>1. TheMap' = MapOf(Entries') /\ TheMap = MapOf(Entries) /\ OneEach(Entries)
  BY EntryFacts DEF TheMap, MapOf
<1>2. MapOf(Entries') = [j \in DOMAIN MapOf(Entries) \cup {k} |-> IF j = k THEN v ELSE MapOf(Entries)[j]]
  <2>1. PICK p : p = Pair(k, v) /\ p.key = k /\ p.value = v
    BY CellFacts
  <2>2. PICK E, F : E = Entries /\ F = Entries'
    OBVIOUS
  <2>3. OneEach(E) /\ Replaced(E, F, p)
    BY <1>1, <2>1, <2>2 DEF Replaced
  <2>4. MapOf(F) = [j \in DOMAIN MapOf(E) \cup {k} |-> IF j = k THEN v ELSE MapOf(E)[j]]
    <3>1. /\ DOMAIN MapOf(F) = DOMAIN MapOf(E) \cup {p.key}
          /\ \A j \in DOMAIN MapOf(F) : MapOf(F)[j] = IF j = p.key THEN p.value ELSE MapOf(E)[j]
          /\ MapOf(F) = [j \in DOMAIN MapOf(F) |-> MapOf(F)[j]]
      BY <2>3, PutMap
    <3> QED
      BY <2>1, <3>1
  <2> QED
    BY <2>2, <2>4
<1>3. TheMap' = [j \in DOMAIN TheMap \cup {k} |-> IF j = k THEN v ELSE TheMap[j]]
  BY <1>1, <1>2
<1>4. reply' = Abstract!Returned("put", k, k \in DOMAIN TheMap, v)
  <2>1. CASE k \in DOMAIN TheMap
    <3>1. (k \in DOMAIN TheMap) = TRUE
      BY <2>1
    <3> QED
      BY <2>1, <3>1, Zenon DEF Returned, Abstract!Returned
  <2>2. CASE k \notin DOMAIN TheMap
    <3>1. (k \in DOMAIN TheMap) = FALSE
      BY <2>2
    <3> QED
      BY <2>2, <3>1, Zenon DEF Returned, Abstract!Returned
  <2> QED
    BY <2>1, <2>2
<1> QED
  BY <1>3, <1>4 DEF Abstract!MapPut

LEMMA StepRemove ==
    ASSUME IndInv, NEW k \in Keys, hash_table_remove(k)
    PROVE  Abstract!MapRemove(k)
<1>1. TheMap' = MapOf(Entries') /\ TheMap = MapOf(Entries) /\ OneEach(Entries)
  BY EntryFacts DEF TheMap, MapOf
<1>2. MapOf(Entries') = [j \in DOMAIN MapOf(Entries) \ {k} |-> MapOf(Entries)[j]]
  BY <1>1, RemovesEntry, RemoveMap
<1>3. TheMap' = [j \in DOMAIN TheMap \ {k} |-> TheMap[j]]
  BY <1>1, <1>2
<1>4. reply' = Abstract!Returned("remove", k, k \in DOMAIN TheMap, NULL)
  <2>1. CASE k \in DOMAIN TheMap
    <3>1. (k \in DOMAIN TheMap) = TRUE
      BY <2>1
    <3> QED
      BY <2>1, <3>1, RemovesEntry, Zenon DEF Returned, Abstract!Returned
  <2>2. CASE k \notin DOMAIN TheMap
    <3>1. (k \in DOMAIN TheMap) = FALSE
      BY <2>2
    <3> QED
      BY <2>2, <3>1, RemovesEntry, Zenon DEF Returned, Abstract!Returned
  <2> QED
    BY <2>1, <2>2
<1> QED
  BY <1>3, <1>4 DEF Abstract!MapRemove

LEMMA StepGet ==
    ASSUME IndInv, NEW k \in Keys, hash_table_get(k)
    PROVE  Abstract!MapGet(k)
<1>1. UNCHANGED TheMap /\ op = "idle"
  BY DEF hash_table_get, TheMap, Entries, Waiting, table
<1>2. CASE Occupied(cells, find_cell(cells, size, k))
  <2>1. /\ k \in DOMAIN TheMap /\ TheMap[k] = cells[find_cell(cells, size, k)].value
        /\ reply' = Returned("get", k, TRUE, cells[find_cell(cells, size, k)].value)
    BY <1>1, <1>2, FoundInMap DEF hash_table_get
  <2> QED
    BY <1>1, <2>1 DEF Returned, Abstract!Returned, Abstract!MapGet
<1>3. CASE ~Occupied(cells, find_cell(cells, size, k))
  <2>1. k \notin DOMAIN TheMap /\ reply' = Returned("get", k, FALSE, NULL)
    BY <1>1, <1>3, FoundInMap DEF hash_table_get
  <2> QED
    BY <1>1, <2>1 DEF Returned, Abstract!Returned, Abstract!MapGet
<1> QED
  BY <1>2, <1>3

LEMMA NoEntries == ASSUME Entries = {} PROVE TheMap = Abstract!NoMap
BY DEF TheMap, Abstract!NoMap

LEMMA StepClear == ASSUME IndInv, hash_table_clear PROVE Abstract!MapClear
<1>1. op = "idle" /\ old' = old /\ cells' = Blank(size) /\ reply' = Returned("clear", NULL, FALSE, NULL)
  BY DEF hash_table_clear
<1>2. Used(cells') = {} /\ Waiting' = {}
  BY <1>1, CellFacts DEF IndInv, Arrays, Used, Blank, Occupied, Waiting
<1>3. Entries' = {}
  BY <1>2 DEF Entries
<1>4. TheMap' = Abstract!NoMap
  BY <1>3 DEF TheMap, Abstract!NoMap
<1> QED
  BY <1>1, <1>4 DEF Abstract!MapClear, Abstract!Returned, Returned

(* A caller of the table sees a mapping from keys to values: every step of *)
(* hash.c is one of the mapping's operations, with what it returns, or one *)
(* that moves entries about and changes nothing the caller can see.        *)
THEOREM TableIsMap == Spec => ImplementsMap
<1>1. Init => Abstract!MapInit
  <2> SUFFICES ASSUME Init PROVE Abstract!MapInit
    OBVIOUS
  <2>1. Used(cells) = {} /\ Waiting = {}
    BY CellFacts DEF Init, Used, Waiting, Blank, Occupied
  <2>2. TheMap = Abstract!NoMap
    BY <2>1, NoEntries DEF Entries
  <2> QED
    BY <2>2 DEF Init, Abstract!MapInit, Abstract!Returned, Returned
<1>2. IndInv /\ [Next]_vars => [Abstract!MapNext]_<<TheMap, reply>>
  <2> SUFFICES ASSUME IndInv, [Next]_vars PROVE [Abstract!MapNext]_<<TheMap, reply>>
    OBVIOUS
  <2>1. Entries' = Entries /\ UNCHANGED reply => UNCHANGED <<TheMap, reply>>
    BY DEF TheMap
  <2>2. CASE MoveOld \/ Rehash \/ RehashDone \/ Each \/ UNCHANGED vars
    BY <2>1, <2>2, MoveKeeps, RehashKeeps, OthersKeep
  <2>3. ASSUME NEW k \in Keys, NEW v \in Values, GrowTable(k, v) PROVE UNCHANGED <<TheMap, reply>>
    BY <2>1, <2>3, GrowKeeps
  <2>4. ASSUME NEW k \in Keys, NEW v \in Values, UpdateItem(k, v) \/ AddItem(k, v) PROVE Abstract!MapPut(k, v)
    BY <2>4, ReplacesEntry, AddsEntry, StepPut
  <2>5. CASE AddToGrown
    <3>1. PICK k \in Keys, v \in Values : arg = Pair(k, v)
      <4>1. arg \in Cell /\ arg.key \in Keys
        BY <2>5 DEF AddToGrown, IndInv, Unique, TypeOK
      <4>2. arg \in [key : Keys, value : Values]
        BY <4>1, CellFacts, Consts DEF Cell
      <4>3. arg.value \in Values /\ arg = Pair(arg.key, arg.value)
        BY <4>2 DEF Pair
      <4> QED
        BY <4>1, <4>3
    <3>2. Abstract!MapPut(k, v)
      BY <2>5, <3>1, AddsEntry, StepPut
    <3> QED
      BY <3>2 DEF Abstract!MapNext
  <2>6. ASSUME NEW k \in Keys, hash_table_get(k) \/ hash_table_remove(k)
        PROVE  Abstract!MapRemove(k) \/ Abstract!MapGet(k)
    BY <2>6, StepGet, StepRemove
  <2>7. CASE hash_table_clear
    BY <2>7, StepClear DEF Abstract!MapNext
  <2> QED
    BY <2>2, <2>3, <2>4, <2>5, <2>6, <2>7 DEF Next, Loop, Abstract!MapNext
<1> QED
  BY <1>1, <1>2, AlwaysInd, PTL DEF Spec, ImplementsMap, Abstract!MapSpec

--------------------------------------------------------------------------
(* Process spawning *)

\* Where a thread is and how far its child has come.
Phases ==
    \A c \in Caller :
       /\ pc[c] = "idle" => child[c] = "none"
       /\ pc[c] = "vfork" => ~failed[c]
       /\ child[c] = "none" => ~failed[c]
       /\ pc[c] = "vfork" <=> child[c] = "vfork"
       /\ pc[c] \in {"spawned", "wait"} => child[c] # "none"
       /\ pc[c] = "wait" => ~failed[c]
       /\ child[c] = "running" => ~failed[c]

SpawnInd == SpawnTypeOK /\ Phases /\ NoZombieLeft

LEMMA ResultType ==
    ASSUME NEW s \in Status
    PROVE  Result(s) \in ExitCodes \cup {n + 384 : n \in Signals}
  BY CodesAssumption DEF Status, Result

LEMMA SpawnInitInv == SpawnInit => SpawnInd
<1> SUFFICES ASSUME SpawnInit PROVE SpawnInd
  OBVIOUS
<1>1. [exited |-> TRUE, val |-> 111] \in Status
  BY CodesAssumption DEF Status
<1>2. SpawnTypeOK
  BY <1>1 DEF SpawnInit, SpawnTypeOK
<1>3. Phases /\ NoZombieLeft
  BY DEF SpawnInit, Phases, NoZombieLeft
<1> QED
  BY <1>2, <1>3 DEF SpawnInd

\* The steps of spawn before the child's end is known.
LEMMA SpawnStep ==
    ASSUME SpawnInd, NEW c \in Caller,
           Vfork(c) \/ VforkFails(c) \/ Execvp(c) \/ ExecvpFails(c) \/ SpawnReturns(c)
    PROVE  SpawnInd'
<1> USE DEF SpawnInd, Runs, Return
<1>1. [exited |-> TRUE, val |-> 111] \in Status
  BY CodesAssumption DEF Status
<1>2. CASE Vfork(c)
  BY <1>2 DEF Vfork, SpawnTypeOK, Phases, NoZombieLeft
<1>3. CASE VforkFails(c)
  BY <1>3 DEF VforkFails, SpawnTypeOK, Phases, NoZombieLeft
<1>4. CASE Execvp(c)
  BY <1>4 DEF Execvp, SpawnTypeOK, Phases, NoZombieLeft
<1>5. CASE ExecvpFails(c)
  BY <1>1, <1>5 DEF ExecvpFails, SpawnTypeOK, Phases, NoZombieLeft
<1>6. CASE SpawnReturns(c)
  BY <1>6 DEF SpawnReturns, SpawnTypeOK, Phases, NoZombieLeft
<1> QED
  BY <1>2, <1>3, <1>4, <1>5, <1>6

\* The three ways to return: each finds the child reaped or reaps it.
LEMMA ReturnStep ==
    ASSUME SpawnInd, NEW c \in Caller, SpawnFailed(c) \/ wait4pid(c) \/ NoChild(c)
    PROVE  SpawnInd'
<1> USE DEF SpawnInd, Runs, Return
<1>1. CASE SpawnFailed(c)
  BY <1>1 DEF SpawnFailed, Waitable, SpawnTypeOK, Phases, NoZombieLeft
<1>2. CASE wait4pid(c)
  <2>1. status[c] \in Status
    BY DEF SpawnTypeOK
  <2>2. Result(status[c]) \in ExitCodes \cup {n + 384 : n \in Signals}
    BY <2>1, ResultType
  <2>3. SpawnTypeOK'
    BY <1>2, <2>2 DEF wait4pid, SpawnTypeOK
  <2>4. Phases' /\ NoZombieLeft'
    BY <1>2 DEF wait4pid, SpawnTypeOK, Phases, NoZombieLeft
  <2> QED
    BY <2>3, <2>4
<1>3. CASE NoChild(c)
  BY <1>3 DEF NoChild, SpawnTypeOK, Phases, NoZombieLeft
<1> QED
  BY <1>1, <1>2, <1>3

\* A child that ends is running, so its caller has not returned; the handler
\* only moves a zombie on.
LEMMA SignalStep ==
    ASSUME SpawnInd, NEW c \in Caller, ChildEnds(c) \/ SignalTaken(c) \/ sig_child(c)
    PROVE  SpawnInd'
<1> USE DEF SpawnInd
<1>1. CASE ChildEnds(c)
  BY <1>1 DEF ChildEnds, SpawnTypeOK, Phases, NoZombieLeft
<1>2. CASE SignalTaken(c)
  BY <1>2 DEF SignalTaken, SpawnTypeOK, Phases, NoZombieLeft
<1>3. CASE sig_child(c)
  BY <1>3 DEF sig_child, Zombies, SpawnTypeOK, Phases, NoZombieLeft
<1> QED
  BY <1>1, <1>2, <1>3

LEMMA SpawnStepInv == SpawnInd /\ [SpawnNext]_spawn_vars => SpawnInd'
<1> SUFFICES ASSUME SpawnInd, [SpawnNext]_spawn_vars PROVE SpawnInd'
  OBVIOUS
<1>1. CASE SpawnNext
  BY <1>1, SpawnStep, ReturnStep, SignalStep DEF SpawnNext, Thread
<1>2. CASE UNCHANGED spawn_vars
  BY <1>2 DEF spawn_vars, SpawnInd, SpawnTypeOK, Phases, NoZombieLeft
<1> QED
  BY <1>1, <1>2

\* No call of spawn_and_wait leaves a zombie behind, for any number of threads.
THEOREM ZombieFree == SpawnSpec => []NoZombieLeft
<1>1. SpawnInd => NoZombieLeft
  BY DEF SpawnInd
<1> QED
  BY <1>1, SpawnInitInv, SpawnStepInv, PTL DEF SpawnSpec
==========================================================================
