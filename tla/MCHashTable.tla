---------------------------- MODULE MCHashTable ----------------------------
(* Values for the constants of HashTable. *)
EXTENDS HashTable

\* Two sizes that stand for the table of primes: two entries fill the first.
TablePrimes == <<3, 7>>
==========================================================================
