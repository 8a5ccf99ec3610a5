----------------------------- MODULE AssocMap -----------------------------
(***************************************************************************)
(* What the interface comment of src/hash/hash.c promises: a mapping from  *)
(* keys to values.  Each operation is one step; reply is the last call     *)
(* and what it returned, so that a call without effect shows.              *)
(***************************************************************************)
CONSTANTS Keys, Values, NULL

VARIABLES map, reply

\* A call on key k, whether the key was there, and the value that went in or out.
Returned(call, k, found, v) == [call |-> call, key |-> k, found |-> found, value |-> v]

NoMap == [k \in {} |-> NULL]
MapInit == map = NoMap /\ reply = Returned("new", NULL, FALSE, NULL)

MapPut(k, v) ==
    /\ map' = [j \in DOMAIN map \cup {k} |-> IF j = k THEN v ELSE map[j]]
    /\ reply' = Returned("put", k, k \in DOMAIN map, v)

MapRemove(k) ==
    /\ map' = [j \in DOMAIN map \ {k} |-> map[j]]
    /\ reply' = Returned("remove", k, k \in DOMAIN map, NULL)

MapGet(k) ==
    /\ reply' = IF k \in DOMAIN map THEN Returned("get", k, TRUE, map[k])
                                    ELSE Returned("get", k, FALSE, NULL)
    /\ UNCHANGED map

MapClear == map' = NoMap /\ reply' = Returned("clear", NULL, FALSE, NULL)

MapNext ==
    \/ \E k \in Keys : MapRemove(k) \/ MapGet(k) \/ \E v \in Values : MapPut(k, v)
    \/ MapClear

MapSpec == MapInit /\ [][MapNext]_<<map, reply>>
==========================================================================
