------------------------------ MODULE RefBase ------------------------------
(***************************************************************************)
(* src/objthread/RefBase.cpp with the smart pointers of RefBase.h and      *)
(* StrongPointer.h: the strong and the weak count of one object.  A        *)
(* pointer (an sp or a wp) is used by one thread at a time and different   *)
(* pointers by different threads, so each pointer is a process; every      *)
(* access to a count, and every delete, is a step.                         *)
(***************************************************************************)
EXTENDS Integers, FiniteSets

CONSTANTS Pointers, NULL,
          INITIAL      \* INITIAL_STRONG_VALUE, 2^28 in the code

ASSUME RefAssumption ==
    /\ IsFiniteSet(Pointers) /\ NULL \notin Pointers
    /\ INITIAL \in Nat /\ INITIAL > Cardinality(Pointers)

VARIABLES
    mStrong, mWeak,
    lifetime,      \* mFlags, set by extendObjectLifetime in the object's constructor
    raw,           \* the pointer that new returned: "kept", or "gone" when it is used no more
    at,            \* what each pointer is, or where the operation on it stands
    src,           \* the pointer an operation copies from, which stays as it is meanwhile
    curCount,      \* of attemptIncStrong
    deletes,       \* how often the object and its weakref_impl were deleted
    raced          \* history: a fix-up came between the two steps of the first incStrong

vars == <<mStrong, mWeak, lifetime, raw, at, src, curCount, deletes, raced>>

Null(p) == at[p] = "null"
Free(q) == \A p \in Pointers : src[p] # q

Become(p, s) == at' = [at EXCEPT ![p] = s]
Done(p, s) == Become(p, s) /\ src' = [src EXCEPT ![p] = NULL]

Init ==
    /\ mStrong = INITIAL /\ mWeak = 0
    /\ lifetime \in {"STRONG", "WEAK"}
    /\ raw = "kept"
    /\ at = [p \in Pointers |-> "null"]
    /\ src = [p \in Pointers |-> NULL]
    /\ curCount = [p \in Pointers |-> 0]
    /\ deletes = [base |-> 0, refs |-> 0]
    /\ raced = FALSE

\* What a caller must see to: while the raw pointer is used there is another
\* pointer that keeps the object, so the last sp, or wp, is not dropped.
RawInUse == raw = "kept" \/ \E p \in Pointers : at[p] \in {"inc", "first"} /\ src[p] = NULL
MayDrop(p, kinds) == Free(p) /\ (RawInUse => \E q \in Pointers \ {p} : at[q] \in kinds)

--------------------------------------------------------------------------
(* incStrong *)

\* An sp is made from an sp, or from the raw pointer, whatever other pointers
\* there are.
incStrong(p, q) ==
    /\ Null(p)
    /\ \/ q \in Pointers /\ at[q] = "sp" /\ UNCHANGED raw
       \/ q = NULL /\ raw = "kept" /\ raw' \in {"kept", "gone"}
    /\ mWeak' = mWeak + 1
    /\ Become(p, "inc") /\ src' = [src EXCEPT ![p] = q]
    /\ UNCHANGED <<mStrong, lifetime, curCount, deletes, raced>>

IncStrongCount(p) ==
    /\ at[p] = "inc"
    /\ mStrong' = mStrong + 1
    /\ IF mStrong = INITIAL THEN Become(p, "first") /\ UNCHANGED src ELSE Done(p, "sp")
    /\ UNCHANGED <<mWeak, lifetime, raw, curCount, deletes, raced>>

SubInitial(p) ==
    /\ at[p] = "first"
    /\ mStrong' = mStrong - INITIAL
    /\ Done(p, "sp")
    /\ UNCHANGED <<mWeak, lifetime, raw, curCount, deletes, raced>>

--------------------------------------------------------------------------
(* decStrong and decWeak *)

decStrong(p) ==
    /\ at[p] = "sp" /\ MayDrop(p, {"sp"})
    /\ mStrong' = mStrong - 1
    /\ Become(p, IF mStrong = 1 /\ lifetime = "STRONG" THEN "delete" ELSE "decWeak")
    /\ UNCHANGED <<mWeak, lifetime, raw, src, curCount, deletes, raced>>

\* ~RefBase, when the object is deleted by the last strong or weak reference:
\* the weakref_impl goes with it unless the strong references were counted and
\* the lifetime is the normal one.
FreesRefs == mStrong = INITIAL \/ (lifetime # "STRONG" /\ mWeak = 0)
DeleteBase == deletes' = [base |-> deletes.base + 1,
                          refs |-> IF FreesRefs THEN deletes.refs + 1 ELSE deletes.refs]

DeleteThis(p) ==
    /\ at[p] = "delete"
    /\ DeleteBase
    /\ Become(p, "decWeak")
    /\ UNCHANGED <<mStrong, mWeak, lifetime, raw, src, curCount, raced>>

decWeak(p) ==
    /\ at[p] = "decWeak"
    /\ mWeak' = mWeak - 1
    /\ Done(p, IF mWeak = 1 THEN "lastWeak" ELSE "null")
    /\ UNCHANGED <<mStrong, lifetime, raw, curCount, deletes, raced>>

\* Mutant of LastWeak: the object that never had a strong reference is forgotten.
LastWeakNoBase(p) ==
    /\ at[p] = "lastWeak"
    /\ IF lifetime = "STRONG" THEN deletes' = [deletes EXCEPT !.refs = @ + 1] ELSE DeleteBase
    /\ Done(p, "null")
    /\ UNCHANGED <<mStrong, mWeak, lifetime, raw, curCount, raced>>

LastWeak(p) ==
    /\ at[p] = "lastWeak"
    /\ IF lifetime = "STRONG" /\ mStrong # INITIAL
       THEN deletes' = [deletes EXCEPT !.refs = @ + 1]
       ELSE DeleteBase
    /\ Done(p, "null")
    /\ UNCHANGED <<mStrong, mWeak, lifetime, raw, curCount, raced>>

--------------------------------------------------------------------------
(* wp: createWeak, the copy, clear *)

createWeak(p, q) ==
    /\ Null(p)
    /\ \/ q \in Pointers /\ at[q] \in {"sp", "wp"} /\ UNCHANGED raw
       \/ q = NULL /\ raw = "kept" /\ raw' \in {"kept", "gone"}
    /\ mWeak' = mWeak + 1
    /\ Become(p, "wp")
    /\ UNCHANGED <<mStrong, lifetime, src, curCount, deletes, raced>>

clear(p) ==
    /\ at[p] = "wp" /\ MayDrop(p, {"sp", "wp"})
    /\ Become(p, "decWeak")
    /\ UNCHANGED <<mStrong, mWeak, lifetime, raw, src, curCount, deletes, raced>>

--------------------------------------------------------------------------
(* wp::promote and attemptIncStrong *)

promote(p, q) ==
    /\ Null(p) /\ at[q] = "wp"
    /\ mWeak' = mWeak + 1
    /\ Become(p, "read") /\ src' = [src EXCEPT ![p] = q]
    /\ UNCHANGED <<mStrong, lifetime, raw, curCount, deletes, raced>>

\* curCount = impl->mStrong, in each of the three loops.
ReadCount(p, from, to) ==
    /\ at[p] = from
    /\ curCount' = [curCount EXCEPT ![p] = mStrong]
    /\ Become(p, to)
    /\ UNCHANGED <<mStrong, mWeak, lifetime, raw, src, deletes, raced>>

\* android_atomic_cmpxchg(curCount, n, &impl->mStrong)
CompareAndSwap(p, n, ok, failed) ==
    IF mStrong = curCount[p] THEN mStrong' = n /\ Become(p, ok)
                             ELSE Become(p, failed) /\ UNCHANGED mStrong

\* Mutant of PromoteCommon: the count is raised whatever it has become.
PromoteBlind(p) ==
    /\ at[p] = "try"
    /\ curCount[p] > 0 /\ curCount[p] # INITIAL
    /\ mStrong' = mStrong + 1 /\ Become(p, "readFix")
    /\ UNCHANGED <<mWeak, lifetime, raw, src, curCount, deletes, raced>>

\* There is a strong reference already.
PromoteCommon(p) ==
    /\ at[p] = "try"
    /\ curCount[p] > 0 /\ curCount[p] # INITIAL
    /\ CompareAndSwap(p, curCount[p] + 1, "readFix", "read")
    /\ UNCHANGED <<mWeak, lifetime, raw, src, curCount, deletes, raced>>

\* There never was one, or all have been released, and the normal lifetime
\* ends with the last one.
PromoteNormal(p) ==
    /\ at[p] = "try" /\ lifetime = "STRONG"
    /\ curCount[p] <= 0 \/ curCount[p] = INITIAL
    /\ Become(p, IF curCount[p] <= 0 THEN "decWeak" ELSE "tryFirst")
    /\ UNCHANGED <<mStrong, mWeak, lifetime, raw, src, curCount, deletes, raced>>

\* Mutant of PromoteFirst: it gives up when the count has changed.
PromoteFirstGivesUp(p) ==
    /\ at[p] = "tryFirst"
    /\ IF curCount[p] > 0 THEN CompareAndSwap(p, curCount[p] + 1, "readFix", "decWeak")
                          ELSE Become(p, "decWeak") /\ UNCHANGED mStrong
    /\ UNCHANGED <<mWeak, lifetime, raw, src, curCount, deletes, raced>>

PromoteFirst(p) ==
    /\ at[p] = "tryFirst"
    /\ IF curCount[p] > 0 THEN CompareAndSwap(p, curCount[p] + 1, "readFix", "readFirst")
                          ELSE Become(p, "decWeak") /\ UNCHANGED mStrong
    /\ UNCHANGED <<mWeak, lifetime, raw, src, curCount, deletes, raced>>

\* The object lives as long as its weak references and may be revived, if
\* onIncStrongAttempted agrees.
PromoteExtended(p) ==
    /\ at[p] = "try" /\ lifetime = "WEAK"
    /\ curCount[p] <= 0 \/ curCount[p] = INITIAL
    /\ \/ mStrong' = mStrong + 1 /\ Become(p, "readFix")
       \/ Become(p, "decWeak") /\ UNCHANGED mStrong
    /\ UNCHANGED <<mWeak, lifetime, raw, src, curCount, deletes, raced>>

\* Mutant of FixUp: the initial value is taken off without a comparison.
FixUpBlind(p) ==
    /\ at[p] = "fix"
    /\ IF curCount[p] >= INITIAL THEN mStrong' = mStrong - INITIAL /\ Become(p, "readFix") /\ UNCHANGED src
                                 ELSE Done(p, "sp") /\ UNCHANGED mStrong
    /\ UNCHANGED <<mWeak, lifetime, raw, curCount, deletes, raced>>

\* The initial value is taken off by whoever of several threads comes first.
FixUp(p) ==
    /\ at[p] = "fix"
    /\ IF curCount[p] >= INITIAL /\ mStrong # curCount[p]
       THEN Become(p, "readFix") /\ UNCHANGED <<mStrong, src, raced>>
       ELSE /\ mStrong' = IF curCount[p] >= INITIAL THEN mStrong - INITIAL ELSE mStrong
            /\ raced' = (raced \/ (curCount[p] >= INITIAL /\ \E q \in Pointers : at[q] = "first"))
            /\ Done(p, "sp")
    /\ UNCHANGED <<mWeak, lifetime, raw, curCount, deletes>>

--------------------------------------------------------------------------
\* The steps of an operation that has begun.
Step(p) ==
    \/ IncStrongCount(p) \/ SubInitial(p)
    \/ DeleteThis(p) \/ decWeak(p) \/ LastWeak(p)
    \/ ReadCount(p, "read", "try") \/ ReadCount(p, "readFirst", "tryFirst") \/ ReadCount(p, "readFix", "fix")
    \/ PromoteCommon(p) \/ PromoteNormal(p) \/ PromoteFirst(p) \/ PromoteExtended(p) \/ FixUp(p)

Next ==
    \/ \E p \in Pointers : Step(p) \/ decStrong(p) \/ clear(p)
    \/ \E p \in Pointers, q \in Pointers \cup {NULL} : incStrong(p, q) \/ createWeak(p, q)
    \/ \E p, q \in Pointers : promote(p, q)

\* A thread in the middle of an operation goes on with it.
Spec == Init /\ [][Next]_vars /\ \A p \in Pointers : WF_vars(Step(p))

--------------------------------------------------------------------------
(* Properties *)

Promoting == {"read", "try", "tryFirst", "readFirst"}
Counted == {"sp", "first", "readFix", "fix"}   \* has raised the strong count
States == {"null", "wp", "inc", "delete", "decWeak", "lastWeak"} \cup Promoting \cup Counted

StrongHolders == {p \in Pointers : at[p] \in Counted}
WeakHolders == {p \in Pointers : at[p] \notin {"null", "lastWeak"}}

TypeOK ==
    /\ mStrong \in Int /\ mWeak \in Nat
    /\ lifetime \in {"STRONG", "WEAK"} /\ raw \in {"kept", "gone"}
    /\ at \in [Pointers -> States]
    /\ src \in [Pointers -> Pointers \cup {NULL}]
    /\ curCount \in [Pointers -> Int]
    /\ deletes \in [base : 0..1, refs : 0..1] /\ raced \in BOOLEAN

First == \E p \in Pointers : at[p] = "first"

\* Each pointer is in the weak count once.  The strong count is that of the
\* strong references, with the initial value on it until one of those that are
\* about to take it off has done so; it is taken off twice only if a promotion
\* took it off between the two steps of the first incStrong.
CountsExact ==
    /\ mWeak = Cardinality(WeakHolders)
    /\ ~raced => \/ mStrong = Cardinality(StrongHolders) /\ ~First
                 \/ /\ mStrong = Cardinality(StrongHolders) + INITIAL
                    /\ StrongHolders = {} \/ \E p \in Pointers : at[p] \in {"first", "readFix", "fix"}
    /\ raced => mStrong = Cardinality(StrongHolders) - (IF First THEN 0 ELSE INITIAL)

\* A strong pointer keeps the object, any pointer keeps the counts, and so
\* does every operation that still has to touch them.
NothingDangles ==
    /\ \A p \in Pointers : at[p] \in Counted \cup {"inc", "delete"} => deletes.base = 0
    /\ \A p \in Pointers : ~Null(p) => deletes.refs = 0 /\ (lifetime = "WEAK" => deletes.base = 0)

\* promote returns null only for an object whose last strong reference has
\* been released, or, with the extended lifetime, that had none when it was
\* asked and refused: none of the references there are now is missed, unless
\* the initial value was taken off twice.
PromotionFailsLate ==
    \A p \in Pointers : at[p] = "decWeak" /\ src[p] # NULL =>
        \/ lifetime = "STRONG" /\ (mStrong = 0 \/ raced)
        \/ lifetime = "WEAK" /\ (curCount[p] <= 0 \/ curCount[p] = INITIAL)

\* The conditions of the ALOG_ASSERTs at lines 325, 345, 400, 434 and 516.
Assertions ==
    /\ \A p \in Pointers : /\ at[p] = "decWeak" => mWeak >= 1
                           /\ at[p] = "fix" => curCount[p] # INITIAL
    /\ ~raced => \A p \in Pointers : /\ at[p] \in {"inc", "sp"} => mStrong >= 1
                                     /\ at[p] = "try" => curCount[p] >= 0

\* The counts are those of the pointers there are, no assertion about them
\* fails, and neither the object nor its counts are deleted twice, whatever the
\* interleaving, except that the strong count is too small by the initial value
\* after a promotion has come between the two steps of the first incStrong.
CountsInv == TypeOK /\ CountsExact /\ Assertions

\* Once nobody has a pointer any more, the object and its counts are deleted;
\* an object with the normal lifetime whose initial value was taken off twice
\* never is, and only its counts are.
Unheld == raw # "kept" /\ \A p \in Pointers : at[p] \in {"null", "delete", "decWeak", "lastWeak"}
Reclaimed ==
    Unheld ~> deletes = [base |-> IF raced /\ lifetime = "STRONG" THEN 0 ELSE 1, refs |-> 1]
==========================================================================
