----------------------------- MODULE HashTable -----------------------------
(***************************************************************************)
(* src/hash/hash.c: an open-addressed table with linear probing.  A call   *)
(* is one step, except for its loops that change cells: moving the cells   *)
(* of a table that grows (grow_hash_table) and of the entries that follow  *)
(* a removed one (hash_table_remove) takes one step per cell, and          *)
(* hash_table_for_each takes one per cell, so that its callback may change *)
(* the entry it is called for.  Two keys are equal when they are the same  *)
(* element of Keys.                                                        *)
(***************************************************************************)
EXTENDS Integers, Sequences, FiniteSets

CONSTANTS Keys, Values, NULL,
          INVALID_PTR,   \* the key of an empty cell
          HashValues,    \* what a hash function may return
          Primes         \* the table sizes that prime_size chooses from

ASSUME HashAssumption ==
    /\ INVALID_PTR \notin Keys
    /\ HashValues \subseteq Nat
    /\ Primes \in Seq(Nat \ {0, 1}) /\ Len(Primes) > 0
    /\ \A i, j \in 1..Len(Primes) : i < j => Primes[i] < Primes[j]

VARIABLES
    hash_function,  \* chosen by the caller of hash_table_new
    cells, size, count, prime_offset,
    op,             \* what is under way: "idle", "grow" or "rehash"
    cur,            \* the cell its loop has reached
    old,            \* the cells grow_hash_table moves from
    arg,            \* the pair hash_table_put adds when the table has grown
    each,           \* a running hash_table_for_each: its cell, the key of the callback
    seen,           \* the keys its callback was called with
    reply           \* the last call that has returned and what it returned

table == <<cells, size, count, prime_offset, op, cur, old, arg>>
vars == <<hash_function, table, each, seen, reply>>

--------------------------------------------------------------------------
(* Cells *)

Empty == [key |-> INVALID_PTR, value |-> NULL]
Pair(k, v) == [key |-> k, value |-> v]
Cell == [key : Keys, value : Values] \cup {Empty}

Occupied(cs, i) == cs[i].key # INVALID_PTR
NEXT_CELL(i, n) == IF i # n - 1 THEN i + 1 ELSE 0
HASH_POSITION(k, n) == hash_function[k] % n
Blank(n) == [i \in 0..(n - 1) |-> Empty]

\* The cells a probe that starts at h passes before it comes to i.
Passed(h, i, n) == IF h <= i THEN h..(i - 1) ELSE (h..(n - 1)) \cup (0..(i - 1))

\* The cell find_cell returns in the n cells cs: the first on the way from
\* the key's position that is empty or holds the key.
StopsAt(cs, n, k, i) ==
    /\ ~Occupied(cs, i) \/ cs[i].key = k
    /\ \A j \in Passed(HASH_POSITION(k, n), i, n) : Occupied(cs, j) /\ cs[j].key # k

find_cell(cs, n, k) == CHOOSE i \in 0..(n - 1) : StopsAt(cs, n, k, i)

resize_threshold(n) == (3 * n) \div 4

\* prime_size: the first prime from the offset on that is large enough.  The
\* code aborts when there is none, so a call that needs one has this guard.
LargeEnough(n) == {i \in (prime_offset + 1)..Len(Primes) : Primes[i] >= n}
prime_size(n) == CHOOSE i \in LargeEnough(n) : \A j \in LargeEnough(n) : i <= j

--------------------------------------------------------------------------
\* A call on key k, whether the key was there, and the value that went in or out.
Returned(call, k, found, v) == [call |-> call, key |-> k, found |-> found, value |-> v]

NoEach == [at |-> "none", pos |-> 0, key |-> INVALID_PTR]

\* hash_table_new for a small number of items.
Init ==
    /\ hash_function \in [Keys -> HashValues]
    /\ size = Primes[1] /\ prime_offset = 1
    /\ cells = Blank(Primes[1]) /\ count = 0
    /\ op = "idle" /\ cur = 0 /\ old = Blank(0) /\ arg = Empty
    /\ each = NoEach /\ seen = {}
    /\ reply = Returned("new", NULL, FALSE, NULL)

\* A change of key k may be asked for by a caller of the table or by the
\* callback of hash_table_for_each that was called for k.  The callback does so
\* at most once here; the code allows more, and a removal and then a put of k
\* would bring back a key that has been seen.
MayChange(k) ==
    /\ op = "idle"
    /\ \/ each.at = "none" /\ UNCHANGED each
       \/ each.at = "fn" /\ each.key = k /\ each' = [each EXCEPT !.at = "changed"]

(* hash_table_get, hash_table_get_pair and hash_table_contains *)
hash_table_get(k) ==
    /\ op = "idle" /\ each.at = "none"
    /\ LET c == find_cell(cells, size, k) IN
         reply' = IF Occupied(cells, c) THEN Returned("get", k, TRUE, cells[c].value)
                                        ELSE Returned("get", k, FALSE, NULL)
    /\ UNCHANGED <<hash_function, table, each, seen>>

(* hash_table_put: the key is there *)
UpdateItem(k, v) ==
    /\ MayChange(k)
    /\ LET c == find_cell(cells, size, k) IN
         /\ Occupied(cells, c)
         /\ cells' = [cells EXCEPT ![c] = Pair(k, v)]
    /\ reply' = Returned("put", k, TRUE, v)
    /\ UNCHANGED <<hash_function, size, count, prime_offset, op, cur, old, arg, seen>>

\* A callback's own key is in the table, so a put of a new key is not a callback's.
OutsideEach == op = "idle" /\ each.at = "none" /\ UNCHANGED each

\* Mutant of AddItem: the table grows one entry too late.
AddItemFull(k, v) ==
    /\ OutsideEach
    /\ count < size
    /\ LET c == find_cell(cells, size, k) IN
         /\ ~Occupied(cells, c)
         /\ cells' = [cells EXCEPT ![c] = Pair(k, v)]
    /\ count' = count + 1
    /\ reply' = Returned("put", k, FALSE, v)
    /\ UNCHANGED <<hash_function, size, prime_offset, op, cur, old, arg, seen>>

(* hash_table_put: the key is not there and the table is not too full *)
AddItem(k, v) ==
    /\ OutsideEach
    /\ count < resize_threshold(size)
    /\ LET c == find_cell(cells, size, k) IN
         /\ ~Occupied(cells, c)
         /\ cells' = [cells EXCEPT ![c] = Pair(k, v)]
    /\ count' = count + 1
    /\ reply' = Returned("put", k, FALSE, v)
    /\ UNCHANGED <<hash_function, size, prime_offset, op, cur, old, arg, seen>>

(* hash_table_put: grow_hash_table takes a larger array *)
GrowTable(k, v) ==
    /\ OutsideEach
    /\ count >= resize_threshold(size) /\ LargeEnough(2 * size) # {}
    /\ ~Occupied(cells, find_cell(cells, size, k))
    /\ LET i == prime_size(2 * size) IN
         /\ size' = Primes[i] /\ prime_offset' = i
         /\ cells' = Blank(Primes[i])
    /\ old' = cells /\ arg' = Pair(k, v)
    /\ op' = "grow" /\ cur' = 0
    /\ UNCHANGED <<hash_function, count, seen, reply>>

\* The cell an entry of the old array goes to: the first that is not occupied.
FreeCell(k) == find_cell(cells, size, k)

(* grow_hash_table moves the next cell of the old array *)
MoveOld ==
    /\ op = "grow" /\ cur \in DOMAIN old
    /\ cells' = IF Occupied(old, cur)
                THEN [cells EXCEPT ![FreeCell(old[cur].key)] = old[cur]] ELSE cells
    /\ cur' = cur + 1
    /\ UNCHANGED <<hash_function, size, count, prime_offset, op, old, arg, each, seen, reply>>

(* hash_table_put goes on in the table that has grown *)
AddToGrown ==
    /\ op = "grow" /\ cur \notin DOMAIN old
    /\ cells' = [cells EXCEPT ![find_cell(cells, size, arg.key)] = arg]
    /\ count' = count + 1
    /\ op' = "idle" /\ cur' = 0 /\ old' = Blank(0) /\ arg' = Empty
    /\ reply' = Returned("put", arg.key, FALSE, arg.value)
    /\ UNCHANGED <<hash_function, size, prime_offset, each, seen>>

\* Mutant of hash_table_remove: the cell is cleared and nothing is moved.
RemoveNoRehash(k) ==
    /\ MayChange(k)
    /\ LET c == find_cell(cells, size, k) IN
         IF Occupied(cells, c)
         THEN /\ cells' = [cells EXCEPT ![c] = Empty] /\ count' = count - 1
              /\ reply' = Returned("remove", k, TRUE, NULL)
              /\ UNCHANGED <<op, cur>>
         ELSE /\ reply' = Returned("remove", k, FALSE, NULL)
              /\ UNCHANGED <<cells, count, op, cur>>
    /\ UNCHANGED <<hash_function, size, prime_offset, old, arg, seen>>

(* hash_table_remove *)
hash_table_remove(k) ==
    /\ MayChange(k)
    /\ LET c == find_cell(cells, size, k) IN
         IF Occupied(cells, c)
         THEN /\ cells' = [cells EXCEPT ![c] = Empty] /\ count' = count - 1
              /\ op' = "rehash" /\ cur' = NEXT_CELL(c, size)
              /\ reply' = Returned("remove", k, TRUE, NULL)
         ELSE /\ reply' = Returned("remove", k, FALSE, NULL)
              /\ UNCHANGED <<cells, count, op, cur>>
    /\ UNCHANGED <<hash_function, size, prime_offset, old, arg, seen>>

\* Mutant of Rehash: the loop does not go on from an entry that stays.
RehashStays ==
    /\ op = "rehash" /\ Occupied(cells, cur)
    /\ LET c_new == find_cell(cells, size, cells[cur].key) IN
         IF Occupied(cells, c_new) THEN UNCHANGED <<cells, cur>>
         ELSE /\ cells' = [cells EXCEPT ![c_new] = cells[cur], ![cur] = Empty]
              /\ cur' = NEXT_CELL(cur, size)
    /\ UNCHANGED <<hash_function, size, count, prime_offset, op, old, arg, each, seen, reply>>

\* hash_table_remove puts the entry in cell cur where a probe now finds room
\* for it, which may be the cell it is in.
Rehash ==
    /\ op = "rehash" /\ Occupied(cells, cur)
    /\ LET c_new == find_cell(cells, size, cells[cur].key) IN
         cells' = IF Occupied(cells, c_new) THEN cells
                  ELSE [cells EXCEPT ![c_new] = cells[cur], ![cur] = Empty]
    /\ cur' = NEXT_CELL(cur, size)
    /\ UNCHANGED <<hash_function, size, count, prime_offset, op, old, arg, each, seen, reply>>

RehashDone ==
    /\ op = "rehash" /\ ~Occupied(cells, cur)
    /\ op' = "idle" /\ cur' = 0
    /\ UNCHANGED <<hash_function, cells, size, count, prime_offset, old, arg, each, seen, reply>>

hash_table_clear ==
    /\ op = "idle" /\ each.at = "none"
    /\ cells' = Blank(size) /\ count' = 0
    /\ reply' = Returned("clear", NULL, FALSE, NULL)
    /\ UNCHANGED <<hash_function, size, prime_offset, op, cur, old, arg, each, seen>>

--------------------------------------------------------------------------
(* hash_table_for_each *)

hash_table_for_each ==
    /\ op = "idle" /\ each.at = "none"
    /\ each' = [NoEach EXCEPT !.at = "scan"] /\ seen' = {}
    /\ UNCHANGED <<hash_function, table, reply>>

\* The callback is called with the key of cell i.
CallFn(i) ==
    /\ each' = [at |-> "fn", pos |-> i, key |-> cells[i].key]
    /\ seen' = seen \cup {cells[i].key}

EachCell ==
    /\ op = "idle" /\ each.at = "scan" /\ each.pos < size
    /\ IF Occupied(cells, each.pos) THEN CallFn(each.pos)
       ELSE each' = [each EXCEPT !.pos = @ + 1] /\ UNCHANGED seen
    /\ UNCHANGED <<hash_function, table, reply>>

\* Mutant of FnReturns: the loop goes on to the next cell at once.
FnReturnsNoRepeat ==
    /\ op = "idle" /\ each.at \in {"fn", "changed"}
    /\ each' = [at |-> "scan", pos |-> each.pos + 1, key |-> INVALID_PTR]
    /\ UNCHANGED <<hash_function, table, reply, seen>>

\* The callback returns 0.  Its removal may have moved another entry here.
FnReturns ==
    /\ op = "idle" /\ each.at \in {"fn", "changed"}
    /\ IF Occupied(cells, each.pos) /\ cells[each.pos].key # each.key THEN CallFn(each.pos)
       ELSE /\ each' = [at |-> "scan", pos |-> each.pos + 1, key |-> INVALID_PTR]
            /\ UNCHANGED seen
    /\ UNCHANGED <<hash_function, table, reply>>

\* The callback returns something else: the mapping stops.
FnStops ==
    /\ op = "idle" /\ each.at \in {"fn", "changed"}
    /\ each' = NoEach /\ seen' = {}
    /\ UNCHANGED <<hash_function, table, reply>>

EachEnds ==
    /\ op = "idle" /\ each.at = "scan" /\ each.pos = size
    /\ each' = NoEach /\ seen' = {}
    /\ UNCHANGED <<hash_function, table, reply>>

--------------------------------------------------------------------------
Loop == MoveOld \/ AddToGrown \/ Rehash \/ RehashDone
Each == hash_table_for_each \/ EachCell \/ FnReturns \/ FnStops \/ EachEnds

Next ==
    \/ \E k \in Keys : hash_table_get(k) \/ hash_table_remove(k)
    \/ \E k \in Keys, v \in Values : UpdateItem(k, v) \/ AddItem(k, v) \/ GrowTable(k, v)
    \/ hash_table_clear
    \/ Loop \/ Each

Spec == Init /\ [][Next]_vars

\* A call that has begun goes on.
FairSpec == Spec /\ WF_vars(Loop)

--------------------------------------------------------------------------
(* Properties *)

TypeOK ==
    /\ hash_function \in [Keys -> HashValues]
    /\ size \in {Primes[i] : i \in 1..Len(Primes)} /\ prime_offset \in 1..Len(Primes)
    /\ cells \in [0..(size - 1) -> Cell] /\ count \in 0..size
    /\ op \in {"idle", "grow", "rehash"} /\ cur \in Nat
    /\ DOMAIN old \subseteq Nat /\ \A i \in DOMAIN old : old[i] \in Cell
    /\ arg \in Cell
    /\ each \in [at : {"none", "scan", "fn", "changed"}, pos : 0..size, key : Keys \cup {INVALID_PTR}]
    /\ seen \subseteq Keys
    /\ reply.key \in Keys \cup {NULL} /\ reply.value \in Values \cup {NULL}

Used(cs) == {i \in DOMAIN cs : Occupied(cs, i)}
Waiting == {i \in Used(old) : i >= cur}   \* the cells grow_hash_table has still to move

\* The table is never full, not even while it grows, so that every probe of
\* find_cell (line 262) and of the two rehash loops comes to its end.
ProbesEnd == \E i \in 0..(size - 1) : ~Occupied(cells, i)

\* count is the number of entries, those still in the old array included, and
\* stays at or below the threshold that hash_table_put compares it with.
CountsEntries ==
    /\ count = Cardinality(Used(cells)) + Cardinality(Waiting)
    /\ count <= resize_threshold(size)

\* A probe for the key of any entry ends at that entry: no removal, growth or
\* collision cuts an entry off from its position (comment at line 74).
EveryEntryFound ==
    op = "idle" => \A i \in Used(cells) : StopsAt(cells, size, cells[i].key, i)

\* The table keeps all of this through every call, growth and removal included.
TableInv == TypeOK /\ ProbesEnd /\ CountsEntries /\ EveryEntryFound

\* When hash_table_for_each comes to its end, the callback was called with
\* every key in the table, whatever it removed or updated on the way.
EachSeesAll ==
    [][each.at = "scan" /\ each'.at = "none" => {cells[i].key : i \in Used(cells)} \subseteq seen]_vars

\* A put that grows the table and a removal that moves entries return.
CallsReturn == (op # "idle") ~> (op = "idle")

--------------------------------------------------------------------------
(* The table is a map from keys to values. *)

Entries == {cells[i] : i \in Used(cells)} \cup {old[i] : i \in Waiting}

TheMap == [k \in {e.key : e \in Entries} |-> (CHOOSE e \in Entries : e.key = k).value]

Abstract == INSTANCE AssocMap WITH map <- TheMap
ImplementsMap == Abstract!MapSpec
==========================================================================
