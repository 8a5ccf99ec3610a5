--------------------------- MODULE RefBaseProofs ---------------------------
(***************************************************************************)
(* The counts of an object are those of its pointers, nothing is deleted   *)
(* that a pointer still needs, and a promotion fails only when the last    *)
(* strong reference is gone, with the one race that breaks this named: for *)
(* any number of pointers, as long as the initial value of the strong      *)
(* count is larger than that number.                                       *)
(***************************************************************************)
EXTENDS RefBase, FiniteSetTheorems, TLAPS

Alone(p) == \A q \in Pointers : q # p => at[q] = "null"

\* A pointer that is copied or promoted stays what it is until that is done.
Sources ==
    \A p \in Pointers : src[p] # NULL =>
        \/ at[p] = "inc" /\ at[src[p]] = "sp"
        \/ at[p] \in Promoting \cup {"readFix", "fix", "decWeak"} /\ at[src[p]] = "wp"

\* While the raw pointer is used the object is there, it has strong references
\* or never had one, and some pointer stays.
RawSafe ==
    RawInUse =>
        /\ deletes.base = 0 /\ deletes.refs = 0
        /\ mStrong = INITIAL \/ \E q \in Pointers : at[q] \in Counted
        /\ \A q \in Pointers : at[q] \notin {"delete", "lastWeak"}
        /\ \/ \A q \in Pointers : at[q] = "null"
           \/ \E q \in Pointers : at[q] \in {"sp", "wp", "inc", "first"}

\* Whoever has given back the last weak reference is alone, and only one
\* incStrong is the first.
Alones ==
    /\ \A p \in Pointers : at[p] = "lastWeak" => Alone(p)
    /\ \A p, q \in Pointers : at[p] = "first" /\ at[q] = "first" => p = q

\* A count that was read as 0 or less stays so, and one that was read without
\* the initial value has lost it for good.
Reads ==
    \A p \in Pointers :
        /\ at[p] \in {"try", "tryFirst"} =>
              /\ curCount[p] < 0 => raced
              /\ curCount[p] <= 0 /\ lifetime = "STRONG" => mStrong <= 0
        /\ at[p] \in {"tryFirst", "readFirst"} => lifetime = "STRONG"
        /\ at[p] = "fix" => curCount[p] # INITIAL /\ (curCount[p] < INITIAL => mStrong < INITIAL)

\* One pointer deletes the object, after the last strong reference; what is
\* left to do then is to give back the weak references.
Deleting ==
    /\ \A p \in Pointers : at[p] = "delete" =>
          /\ mStrong = 0 /\ lifetime = "STRONG" /\ deletes.base = 0
          /\ \A q \in Pointers : at[q] = "delete" => q = p
    /\ deletes.base = 1 => \/ lifetime = "STRONG" /\ mStrong = 0
                           \/ \A p \in Pointers : at[p] = "null"
    /\ deletes.refs = 1 => \A p \in Pointers : at[p] = "null"

IndInv ==
    /\ TypeOK /\ CountsExact /\ Sources /\ RawSafe /\ Alones /\ Reads /\ Deleting
    /\ PromotionFailsLate
--------------------------------------------------------------------------
(* Lemmas on the two sets of holders *)

Sh == Cardinality(StrongHolders)
Wh == Cardinality(WeakHolders)
Weak(s) == s \notin {"null", "lastWeak"}

LEMMA Consts == INITIAL \in Nat /\ INITIAL > 0 /\ NULL \notin Pointers /\ IsFiniteSet(Pointers)
                /\ Cardinality(Pointers) \in Nat /\ INITIAL > Cardinality(Pointers)
  BY RefAssumption, FS_CardinalityType

\* What the sizes of the two sets say about the single pointers.
LEMMA HolderFacts ==
    /\ Sh \in Nat /\ Wh \in Nat /\ Sh < INITIAL
    /\ IsFiniteSet(StrongHolders) /\ IsFiniteSet(WeakHolders)
    /\ \A p \in Pointers : at[p] \in Counted => Sh >= 1
    /\ \A p \in Pointers : Weak(at[p]) => Wh >= 1
    /\ \A p, q \in Pointers : Wh = 1 /\ Weak(at[p]) /\ Weak(at[q]) => p = q
    /\ \A p, q \in Pointers : Sh = 1 /\ at[p] \in Counted /\ at[q] \in Counted => p = q
<1>1. StrongHolders \subseteq Pointers /\ WeakHolders \subseteq Pointers
  BY DEF StrongHolders, WeakHolders
<1>2. IsFiniteSet(StrongHolders) /\ IsFiniteSet(WeakHolders) /\ Sh <= Cardinality(Pointers)
  BY <1>1, Consts, FS_Subset DEF Sh
<1>3. Sh \in Nat /\ Wh \in Nat
  BY <1>2, FS_CardinalityType DEF Sh, Wh
<1>4. \A p \in Pointers : at[p] \in Counted => Sh # 0
  BY <1>2, FS_EmptySet DEF Sh, StrongHolders
<1>5. \A p \in Pointers : Weak(at[p]) => Wh # 0
  BY <1>2, FS_EmptySet DEF Wh, WeakHolders, Weak
<1>6. ASSUME NEW p \in Pointers, NEW q \in Pointers, Wh = 1, Weak(at[p]), Weak(at[q])
      PROVE  p = q
  <2>1. PICK x : WeakHolders = {x}
    BY <1>2, <1>6, FS_Singleton DEF Wh
  <2> QED
    BY <2>1, <1>6 DEF WeakHolders, Weak
<1>7. ASSUME NEW p \in Pointers, NEW q \in Pointers, Sh = 1, at[p] \in Counted, at[q] \in Counted
      PROVE  p = q
  <2>1. PICK x : StrongHolders = {x}
    BY <1>2, <1>7, FS_Singleton DEF Sh
  <2> QED
    BY <2>1, <1>7 DEF StrongHolders
<1> QED
  BY <1>2, <1>3, <1>4, <1>5, <1>6, <1>7, Consts

\* A pointer that goes over to another state joins or leaves the sets.
LEMMA Moves ==
    ASSUME TypeOK, NEW p \in Pointers, NEW s \in States, Become(p, s)
    PROVE  /\ Sh' = Sh + (IF s \in Counted THEN 1 ELSE 0) - (IF at[p] \in Counted THEN 1 ELSE 0)
           /\ Wh' = Wh + (IF Weak(s) THEN 1 ELSE 0) - (IF Weak(at[p]) THEN 1 ELSE 0)
           /\ at'[p] = s /\ \A q \in Pointers : q # p => at'[q] = at[q]
           /\ at' \in [Pointers -> States]
           /\ Sh' < INITIAL
<1>1. at'[p] = s /\ (\A q \in Pointers : q # p => at'[q] = at[q]) /\ at' \in [Pointers -> States]
  BY DEF TypeOK, Become
<1>2. StrongHolders' = IF s \in Counted THEN StrongHolders \cup {p} ELSE StrongHolders \ {p}
  BY <1>1 DEF StrongHolders
<1>3. WeakHolders' = IF Weak(s) THEN WeakHolders \cup {p} ELSE WeakHolders \ {p}
  BY <1>1 DEF WeakHolders, Weak
<1>4. (p \in StrongHolders <=> at[p] \in Counted) /\ (p \in WeakHolders <=> Weak(at[p]))
  BY DEF StrongHolders, WeakHolders, Weak
<1>5. Sh' = Sh + (IF s \in Counted THEN 1 ELSE 0) - (IF at[p] \in Counted THEN 1 ELSE 0)
  <2>1. CASE s \in Counted
    <3>1. StrongHolders' = StrongHolders \cup {p}
      BY <1>2, <2>1
    <3>2. Sh' = IF p \in StrongHolders THEN Sh ELSE Sh + 1
      BY <3>1, HolderFacts, FS_AddElement, Zenon DEF Sh
    <3> QED
      BY <1>4, <2>1, <3>2, HolderFacts
  <2>2. CASE s \notin Counted
    <3>1. StrongHolders' = StrongHolders \ {p}
      BY <1>2, <2>2
    <3>2. Sh' = IF p \in StrongHolders THEN Sh - 1 ELSE Sh
      BY <3>1, HolderFacts, FS_RemoveElement, Zenon DEF Sh
    <3> QED
      BY <1>4, <2>2, <3>2, HolderFacts
  <2> QED
    BY <2>1, <2>2
<1>6. Wh' = Wh + (IF Weak(s) THEN 1 ELSE 0) - (IF Weak(at[p]) THEN 1 ELSE 0)
  <2>1. CASE Weak(s)
    <3>1. WeakHolders' = WeakHolders \cup {p}
      BY <1>3, <2>1
    <3>2. Wh' = IF p \in WeakHolders THEN Wh ELSE Wh + 1
      BY <3>1, HolderFacts, FS_AddElement, Zenon DEF Wh
    <3> QED
      BY <1>4, <2>1, <3>2, HolderFacts
  <2>2. CASE ~Weak(s)
    <3>1. WeakHolders' = WeakHolders \ {p}
      BY <1>3, <2>2
    <3>2. Wh' = IF p \in WeakHolders THEN Wh - 1 ELSE Wh
      BY <3>1, HolderFacts, FS_RemoveElement, Zenon DEF Wh
    <3> QED
      BY <1>4, <2>2, <3>2, HolderFacts
  <2> QED
    BY <2>1, <2>2
<1>7. Sh' < INITIAL
  <2>1. StrongHolders' \subseteq Pointers
    BY DEF StrongHolders
  <2>2. Sh' <= Cardinality(Pointers) /\ Sh' \in Nat
    BY <2>1, Consts, FS_Subset, FS_CardinalityType DEF Sh
  <2> QED
    BY <2>2, Consts
<1> QED
  BY <1>1, <1>5, <1>6, <1>7

\* What the strong count says of the references, and the other way round.
LEMMA StrongFacts ==
    ASSUME IndInv
    PROVE  /\ mStrong \in Int /\ mWeak = Wh /\ raced \in BOOLEAN
           /\ ~raced => (mStrong = Sh /\ ~First) \/ mStrong = Sh + INITIAL
           /\ ~raced /\ mStrong = Sh + INITIAL /\ Sh > 0 =>
                 \E p \in Pointers : at[p] \in {"first", "readFix", "fix"}
           /\ raced => mStrong = (IF First THEN Sh ELSE Sh - INITIAL)
           /\ mStrong >= INITIAL => ~raced /\ mStrong = Sh + INITIAL
           /\ mStrong < 0 => raced /\ ~First
           /\ mStrong = 0 => ~raced /\ ~First /\ Sh = 0
           /\ \A p \in Pointers : at[p] = "inc" => mStrong # 0 /\ (~raced => mStrong > 0)
           /\ \A p \in Pointers : at[p] \in Counted => mStrong # 0 /\ mStrong # INITIAL /\ (~raced => mStrong > 0)
<1>1. /\ mStrong \in Int /\ raced \in BOOLEAN /\ mWeak = Wh
      /\ ~raced => (mStrong = Sh /\ ~First)
                   \/ (mStrong = Sh + INITIAL
                       /\ (StrongHolders = {} \/ \E p \in Pointers : at[p] \in {"first", "readFix", "fix"}))
      /\ raced => mStrong = Sh - (IF First THEN 0 ELSE INITIAL)
  BY DEF IndInv, TypeOK, CountsExact, Sh, Wh
<1>2. StrongHolders = {} => Sh = 0
  BY FS_EmptySet DEF Sh
<1>3. First => Sh >= 1
  BY HolderFacts DEF First, Counted
<1>4. /\ mStrong >= INITIAL => ~raced /\ mStrong = Sh + INITIAL
      /\ mStrong < 0 => raced /\ ~First
      /\ mStrong = 0 => ~raced /\ ~First /\ Sh = 0
      /\ Sh >= 1 => mStrong # 0 /\ mStrong # INITIAL /\ (~raced => mStrong > 0)
      /\ raced => mStrong = (IF First THEN Sh ELSE Sh - INITIAL)
  BY <1>1, <1>3, HolderFacts, Consts
<1>5. \A p \in Pointers : at[p] = "inc" => Sh >= 1 \/ mStrong = INITIAL
  <2> SUFFICES ASSUME NEW p \in Pointers, at[p] = "inc" PROVE Sh >= 1 \/ mStrong = INITIAL
    OBVIOUS
  <2>1. CASE src[p] = NULL
    BY <2>1, HolderFacts DEF IndInv, RawSafe, RawInUse
  <2>2. CASE src[p] # NULL
    BY <2>2, HolderFacts DEF IndInv, Sources, Promoting, TypeOK, Counted
  <2> QED
    BY <2>1, <2>2
<1>6. \A p \in Pointers : at[p] = "inc" => mStrong # 0 /\ (~raced => mStrong > 0)
  BY <1>4, <1>5, Consts
<1>7. \A p \in Pointers : at[p] \in Counted => mStrong # 0 /\ mStrong # INITIAL /\ (~raced => mStrong > 0)
  BY <1>4, HolderFacts
<1>8. ~raced => (mStrong = Sh /\ ~First) \/ mStrong = Sh + INITIAL
  BY <1>1
<1>9. ~raced /\ mStrong = Sh + INITIAL /\ Sh > 0 =>
         \E p \in Pointers : at[p] \in {"first", "readFix", "fix"}
  BY <1>1, <1>2, HolderFacts, Consts
<1> QED
  BY <1>1, <1>4, <1>6, <1>7, <1>8, <1>9, Zenon

Taker == \E p \in Pointers : at[p] \in {"first", "readFix", "fix"}

\* CountsExact with the sizes of the sets.
LEMMA ExactNext ==
    ASSUME mWeak' = Wh', raced' \in BOOLEAN,
           ~raced' => (mStrong' = Sh' /\ ~First') \/ (mStrong' = Sh' + INITIAL /\ (Sh' = 0 \/ Taker')),
           raced' => mStrong' = (IF First' THEN Sh' ELSE Sh' - INITIAL)
    PROVE  CountsExact'
<1>1. StrongHolders' \subseteq Pointers
  BY DEF StrongHolders
<1>2. IsFiniteSet(StrongHolders')
  BY <1>1, Consts, FS_Subset
<1>3. Sh' = 0 => StrongHolders' = {}
  BY <1>2, FS_EmptySet DEF Sh
<1>4. Sh' \in Nat
  BY <1>2, FS_CardinalityType DEF Sh
<1>5. raced' => mStrong' = Sh' - (IF First' THEN 0 ELSE INITIAL)
  BY <1>4, Consts
<1> QED
  BY <1>3, <1>5, Zenon DEF CountsExact, Taker, Sh, Wh

\* A step that changes the count by as much as the number of strong references.
LEMMA ExactKept ==
    ASSUME IndInv, NEW p \in Pointers, NEW s \in States, Become(p, s),
           at[p] # "first", s # "first", raced' = raced, mWeak' = Wh',
           mStrong' = mStrong + Sh' - Sh,
           at[p] \in {"readFix", "fix"} => s \in {"readFix", "fix"} \/ mStrong < INITIAL,
           at[p] \notin Counted /\ s \in Counted => s \in {"readFix", "fix"} \/ mStrong # INITIAL
    PROVE  CountsExact'
<1>1. TypeOK
  BY DEF IndInv
<1>2. /\ Sh' = Sh + (IF s \in Counted THEN 1 ELSE 0) - (IF at[p] \in Counted THEN 1 ELSE 0)
      /\ at'[p] = s /\ \A q \in Pointers : q # p => at'[q] = at[q]
  BY <1>1, Moves
<1>3. First' <=> First
  BY <1>2 DEF First
<1>4. Taker /\ (at[p] \in {"readFix", "fix"} => s \in {"readFix", "fix"}) => Taker'
  BY <1>2 DEF Taker
<1>5. s \in {"readFix", "fix"} => Taker'
  BY <1>2 DEF Taker
<1>6. Sh \in Nat /\ Sh' \in Nat
  BY <1>2, HolderFacts
<1>7. ~raced => (mStrong = Sh /\ ~First) \/ (mStrong = Sh + INITIAL /\ (Sh = 0 \/ Taker))
  BY StrongFacts, HolderFacts DEF Taker
<1>8. ~raced' => (mStrong' = Sh' /\ ~First') \/ (mStrong' = Sh' + INITIAL /\ (Sh' = 0 \/ Taker'))
  <2> SUFFICES ASSUME ~raced PROVE (mStrong' = Sh' /\ ~First') \/ (mStrong' = Sh' + INITIAL /\ (Sh' = 0 \/ Taker'))
    OBVIOUS
  <2>1. CASE mStrong = Sh /\ ~First
    <3>0. mStrong = Sh
      BY <2>1
    <3>1. mStrong' = Sh'
      <4> DEFINE a == Sh
                 b == Sh'
      <4>1. a \in Nat /\ b \in Nat /\ mStrong = a /\ mStrong' = mStrong + b - a
        BY <3>0, <1>6
      <4> HIDE DEF a, b
      <4>2. mStrong' = b
        BY <4>1
      <4> QED
        BY <4>2 DEF b
    <3> QED
      BY <3>1, <2>1, <1>3
  <2>2. CASE mStrong = Sh + INITIAL /\ Sh = 0
    BY <2>2, <1>2, <1>5, <1>6, HolderFacts, Consts DEF Counted
  <2>3. CASE mStrong = Sh + INITIAL /\ Taker
    <3>1. mStrong' = Sh' + INITIAL /\ ~(mStrong < INITIAL)
      BY <2>3, <1>6, Consts
    <3> QED
      BY <3>1, <2>3, <1>4
  <2> QED
    BY <1>7, <2>1, <2>2, <2>3
<1>9. raced' => mStrong' = (IF First' THEN Sh' ELSE Sh' - INITIAL)
  BY <1>3, <1>6, StrongFacts, Consts
<1>10. raced' \in BOOLEAN
  BY StrongFacts
<1> QED
  BY <1>8, <1>9, <1>10, ExactNext

--------------------------------------------------------------------------
(* The invariant holds at first, and every step of a pointer keeps it. *)

LEMMA InitInv == Init => IndInv
<1> SUFFICES ASSUME Init PROVE IndInv
  OBVIOUS
<1>1. StrongHolders = {} /\ WeakHolders = {}
  BY DEF Init, StrongHolders, WeakHolders, Counted
<1>2. TypeOK
  <2>1. raced \in BOOLEAN
    BY DEF Init
  <2> QED
    BY <2>1, Consts DEF Init, TypeOK, States
<1>3. CountsExact
  BY <1>1, FS_EmptySet, Consts DEF Init, CountsExact
<1>4. Sources /\ RawSafe /\ Alones /\ Reads /\ Deleting /\ PromotionFailsLate
  BY DEF Init, Sources, RawSafe, Alones, Reads, Deleting, PromotionFailsLate
<1> QED
  BY <1>2, <1>3, <1>4 DEF IndInv

LEMMA incStrongStep ==
    ASSUME IndInv, NEW p \in Pointers, NEW q \in Pointers \cup {NULL}, incStrong(p, q)
    PROVE  IndInv'
<1> USE Consts DEF incStrong, Null
<1>1. PICK s \in States : Become(p, s) /\ s \in {"inc"}
  BY DEF States, Promoting, Counted
<1>2. TypeOK
  BY DEF IndInv
<1>m. /\ Sh' = Sh + (IF s \in Counted THEN 1 ELSE 0) - (IF at[p] \in Counted THEN 1 ELSE 0)
      /\ Wh' = Wh + (IF Weak(s) THEN 1 ELSE 0) - (IF Weak(at[p]) THEN 1 ELSE 0)
      /\ at'[p] = s /\ \A r \in Pointers : r # p => at'[r] = at[r]
      /\ at' \in [Pointers -> States] /\ Sh' < INITIAL
  BY <1>1, <1>2, Moves
<1> USE <1>1, <1>2, <1>m, StrongFacts, HolderFacts DEF Counted, Weak, Promoting
<1>3. TypeOK'
  BY DEF TypeOK, IndInv, Deleting, RawSafe, RawInUse, Alones, Alone
<1>4. CountsExact'
  <2>1. raced' = raced /\ mWeak' = Wh' /\ mStrong' = mStrong + Sh' - Sh
    BY DEF TypeOK, IndInv
  <2> QED
    BY <2>1, ExactKept
<1>5. Sources'
  BY DEF TypeOK, Sources, IndInv
<1>6. RawSafe'
  BY DEF TypeOK, RawSafe, RawInUse, IndInv, Sources
<1>10. Alones'
  BY DEF TypeOK, Alones, Alone, IndInv, Sources, RawSafe, RawInUse
<1>7. Reads'
  BY DEF TypeOK, Reads, IndInv
<1>8. Deleting'
  BY DEF TypeOK, Deleting, IndInv, Alones, Alone, RawSafe, RawInUse
<1>9. PromotionFailsLate'
  BY DEF TypeOK, PromotionFailsLate, IndInv, Reads, Sources
<1> QED
  BY <1>3, <1>4, <1>5, <1>6, <1>7, <1>8, <1>9, <1>10 DEF IndInv

LEMMA IncStrongCountStep ==
    ASSUME IndInv, NEW p \in Pointers, IncStrongCount(p)
    PROVE  IndInv'
<1> USE Consts DEF IncStrongCount, Done, Null
<1>1. PICK s \in States : Become(p, s) /\ s \in {"first", "sp"}
  BY DEF States, Promoting, Counted
<1>2. TypeOK
  BY DEF IndInv
<1>m. /\ Sh' = Sh + (IF s \in Counted THEN 1 ELSE 0) - (IF at[p] \in Counted THEN 1 ELSE 0)
      /\ Wh' = Wh + (IF Weak(s) THEN 1 ELSE 0) - (IF Weak(at[p]) THEN 1 ELSE 0)
      /\ at'[p] = s /\ \A q \in Pointers : q # p => at'[q] = at[q]
      /\ at' \in [Pointers -> States] /\ Sh' < INITIAL
  BY <1>1, <1>2, Moves
<1>a. \/ /\ mStrong = INITIAL /\ src[p] = NULL /\ s = "first" /\ UNCHANGED src /\ Sh = 0 /\ ~raced
         /\ \A q \in Pointers : at[q] \notin Counted
      \/ mStrong # INITIAL /\ mStrong # 0 /\ s = "sp" /\ src' = [src EXCEPT ![p] = NULL]
  <2>1. s = (IF mStrong = INITIAL THEN "first" ELSE "sp")
    BY <1>m DEF Become, TypeOK
  <2>2. mStrong # 0
    BY StrongFacts
  <2>3. mStrong = INITIAL => Sh = 0 /\ ~raced /\ \A q \in Pointers : at[q] \notin Counted
    BY StrongFacts, HolderFacts
  <2>4. mStrong = INITIAL => src[p] = NULL
    BY <2>3 DEF TypeOK, IndInv, Sources, Promoting, Counted
  <2> QED
    BY <2>1, <2>2, <2>3, <2>4
<1> USE <1>1, <1>2, <1>m, <1>a, StrongFacts, HolderFacts DEF Counted, Weak, Promoting
<1>3. TypeOK'
  BY DEF TypeOK, IndInv, Deleting, RawSafe, RawInUse, Alones, Alone
<1>4. CountsExact'
  <2>1. mWeak' = Wh' /\ raced' = raced /\ raced \in BOOLEAN /\ mStrong' = mStrong + Sh' - Sh
    BY DEF TypeOK, IndInv
  <2>2. CASE s = "first"
    <3>1. mStrong' = Sh' + INITIAL /\ Taker' /\ ~raced'
      BY <2>1, <2>2 DEF Taker
    <3> QED
      BY <2>1, <3>1, ExactNext
  <2>3. CASE s = "sp"
    BY <2>1, <2>3, ExactKept
  <2> QED
    BY <2>2, <2>3
<1>5. Sources'
  BY DEF TypeOK, Sources, IndInv
<1>6. RawSafe'
  BY DEF TypeOK, RawSafe, RawInUse, IndInv, Sources
<1>10. Alones'
  BY DEF TypeOK, Alones, Alone, IndInv, Sources, RawSafe, RawInUse
<1>7. Reads'
  BY DEF TypeOK, Reads, IndInv
<1>8. Deleting'
  BY DEF TypeOK, Deleting, IndInv, Alones, Alone, RawSafe, RawInUse
<1>9. PromotionFailsLate'
  BY DEF TypeOK, PromotionFailsLate, IndInv, Reads, Sources
<1> QED
  BY <1>3, <1>4, <1>5, <1>6, <1>7, <1>8, <1>9, <1>10 DEF IndInv

LEMMA SubInitialStep ==
    ASSUME IndInv, NEW p \in Pointers, SubInitial(p)
    PROVE  IndInv'
<1> USE Consts DEF SubInitial, Done, Null
<1>1. PICK s \in States : Become(p, s) /\ s \in {"sp"}
  BY DEF States, Promoting, Counted
<1>2. TypeOK
  BY DEF IndInv
<1>m. /\ Sh' = Sh + (IF s \in Counted THEN 1 ELSE 0) - (IF at[p] \in Counted THEN 1 ELSE 0)
      /\ Wh' = Wh + (IF Weak(s) THEN 1 ELSE 0) - (IF Weak(at[p]) THEN 1 ELSE 0)
      /\ at'[p] = s /\ \A q \in Pointers : q # p => at'[q] = at[q]
      /\ at' \in [Pointers -> States] /\ Sh' < INITIAL
  BY <1>1, <1>2, Moves
<1> USE <1>1, <1>2, <1>m, StrongFacts, HolderFacts DEF Counted, Weak, Promoting
<1>3. TypeOK'
  BY DEF TypeOK, IndInv, Deleting, RawSafe, RawInUse, Alones, Alone
<1>4. CountsExact'
  BY DEF TypeOK, CountsExact, First, Sh, Wh, IndInv, Alones, Reads
<1>5. Sources'
  BY DEF TypeOK, Sources, IndInv
<1>6. RawSafe'
  BY DEF TypeOK, RawSafe, RawInUse, IndInv, Sources
<1>10. Alones'
  BY DEF TypeOK, Alones, Alone, IndInv, Sources, RawSafe, RawInUse
<1>7. Reads'
  BY DEF TypeOK, Reads, IndInv
<1>8. Deleting'
  BY DEF TypeOK, Deleting, IndInv, Alones, Alone, RawSafe, RawInUse
<1>9. PromotionFailsLate'
  BY DEF TypeOK, PromotionFailsLate, IndInv, Reads, Sources
<1> QED
  BY <1>3, <1>4, <1>5, <1>6, <1>7, <1>8, <1>9, <1>10 DEF IndInv

LEMMA decStrongStep ==
    ASSUME IndInv, NEW p \in Pointers, decStrong(p)
    PROVE  IndInv'
<1> USE Consts DEF decStrong, MayDrop, Free, Null
<1>1. PICK s \in States : Become(p, s) /\ s \in {"delete", "decWeak"}
  BY DEF States, Promoting, Counted
<1>2. TypeOK
  BY DEF IndInv
<1>m. /\ Sh' = Sh + (IF s \in Counted THEN 1 ELSE 0) - (IF at[p] \in Counted THEN 1 ELSE 0)
      /\ Wh' = Wh + (IF Weak(s) THEN 1 ELSE 0) - (IF Weak(at[p]) THEN 1 ELSE 0)
      /\ at'[p] = s /\ \A q \in Pointers : q # p => at'[q] = at[q]
      /\ at' \in [Pointers -> States] /\ Sh' < INITIAL
  BY <1>1, <1>2, Moves
<1>a. mStrong # 0 /\ Sh >= 1 /\ deletes.base = 0 /\ src[p] = NULL
      /\ (s = "delete" => mStrong = 1 /\ lifetime = "STRONG" /\ Sh = 1 /\ ~RawInUse)
      /\ \A q \in Pointers : at[q] # "delete"
  <2>1. mStrong # 0 /\ Sh >= 1
    BY StrongFacts, HolderFacts DEF Counted
  <2>2. \A q \in Pointers : at[q] # "delete"
    BY <2>1, HolderFacts DEF IndInv, Deleting
  <2>3. deletes.base = 0
    BY <2>1, HolderFacts DEF TypeOK, IndInv, Deleting
  <2>4. src[p] = NULL
    BY DEF IndInv, Sources, Promoting
  <2>5. s = "delete" => mStrong = 1 /\ lifetime = "STRONG"
    BY <1>m DEF Become, TypeOK
  <2>6. mStrong = 1 => Sh = 1
    BY <2>1, StrongFacts, HolderFacts
  <2>7. Sh = 1 => ~RawInUse
    BY HolderFacts DEF Counted
  <2> QED
    BY <2>1, <2>2, <2>3, <2>4, <2>5, <2>6, <2>7
<1> USE <1>1, <1>2, <1>m, <1>a, StrongFacts, HolderFacts DEF Counted, Weak, Promoting
<1>3. TypeOK'
  BY DEF TypeOK, IndInv, Deleting, RawSafe, RawInUse, Alones, Alone
<1>4. CountsExact'
  <2>1. raced' = raced /\ mWeak' = Wh' /\ mStrong' = mStrong + Sh' - Sh
    BY DEF TypeOK, IndInv
  <2> QED
    BY <2>1, ExactKept
<1>5. Sources'
  BY DEF TypeOK, Sources, IndInv
<1>6. RawSafe'
  BY DEF TypeOK, RawSafe, RawInUse, IndInv, Sources
<1>10. Alones'
  BY DEF TypeOK, Alones, Alone, IndInv, Sources, RawSafe, RawInUse
<1>7. Reads'
  BY DEF TypeOK, Reads, IndInv
<1>8. Deleting'
  BY DEF TypeOK, Deleting, IndInv, Alones, Alone, RawSafe, RawInUse
<1>9. PromotionFailsLate'
  BY DEF TypeOK, PromotionFailsLate, IndInv, Reads, Sources
<1> QED
  BY <1>3, <1>4, <1>5, <1>6, <1>7, <1>8, <1>9, <1>10 DEF IndInv

LEMMA DeleteThisStep ==
    ASSUME IndInv, NEW p \in Pointers, DeleteThis(p)
    PROVE  IndInv'
<1> USE Consts DEF DeleteThis, DeleteBase, FreesRefs, Null
<1>1. PICK s \in States : Become(p, s) /\ s \in {"decWeak"}
  BY DEF States, Promoting, Counted
<1>2. TypeOK
  BY DEF IndInv
<1>m. /\ Sh' = Sh + (IF s \in Counted THEN 1 ELSE 0) - (IF at[p] \in Counted THEN 1 ELSE 0)
      /\ Wh' = Wh + (IF Weak(s) THEN 1 ELSE 0) - (IF Weak(at[p]) THEN 1 ELSE 0)
      /\ at'[p] = s /\ \A q \in Pointers : q # p => at'[q] = at[q]
      /\ at' \in [Pointers -> States] /\ Sh' < INITIAL
  BY <1>1, <1>2, Moves
<1> USE <1>1, <1>2, <1>m, StrongFacts, HolderFacts DEF Counted, Weak, Promoting
<1>3. TypeOK'
  BY DEF TypeOK, IndInv, Deleting, RawSafe, RawInUse, Alones, Alone
<1>4. CountsExact'
  <2>1. raced' = raced /\ mWeak' = Wh' /\ mStrong' = mStrong + Sh' - Sh
    BY DEF TypeOK, IndInv
  <2> QED
    BY <2>1, ExactKept
<1>5. Sources'
  BY DEF TypeOK, Sources, IndInv
<1>6. RawSafe'
  BY DEF TypeOK, RawSafe, RawInUse, IndInv, Sources
<1>10. Alones'
  BY DEF TypeOK, Alones, Alone, IndInv, Sources, RawSafe, RawInUse
<1>7. Reads'
  BY DEF TypeOK, Reads, IndInv
<1>8. Deleting'
  BY DEF TypeOK, Deleting, IndInv, Alones, Alone, RawSafe, RawInUse
<1>9. PromotionFailsLate'
  BY DEF TypeOK, PromotionFailsLate, IndInv, Reads, Sources
<1> QED
  BY <1>3, <1>4, <1>5, <1>6, <1>7, <1>8, <1>9, <1>10 DEF IndInv

LEMMA decWeakStep ==
    ASSUME IndInv, NEW p \in Pointers, decWeak(p)
    PROVE  IndInv'
<1> USE Consts DEF decWeak, Done, Null
<1>1. PICK s \in States : Become(p, s) /\ s \in {"lastWeak", "null"}
  BY DEF States, Promoting, Counted
<1>2. TypeOK
  BY DEF IndInv
<1>m. /\ Sh' = Sh + (IF s \in Counted THEN 1 ELSE 0) - (IF at[p] \in Counted THEN 1 ELSE 0)
      /\ Wh' = Wh + (IF Weak(s) THEN 1 ELSE 0) - (IF Weak(at[p]) THEN 1 ELSE 0)
      /\ at'[p] = s /\ \A q \in Pointers : q # p => at'[q] = at[q]
      /\ at' \in [Pointers -> States] /\ Sh' < INITIAL
  BY <1>1, <1>2, Moves
<1>a. s = "lastWeak" => Alone(p)
  <2>1. s = "lastWeak" => mWeak = 1
    BY <1>m DEF Become, TypeOK
  <2>2. \A q \in Pointers : at[q] # "lastWeak"
    BY DEF IndInv, Alones, Alone
  <2> QED
    BY <2>1, <2>2, StrongFacts, HolderFacts DEF Alone, Weak
<1> USE <1>1, <1>2, <1>m, <1>a, StrongFacts, HolderFacts DEF Counted, Weak, Promoting
<1>3. TypeOK'
  BY DEF TypeOK, IndInv, Deleting, RawSafe, RawInUse, Alones, Alone
<1>4. CountsExact'
  <2>1. raced' = raced /\ mWeak' = Wh' /\ mStrong' = mStrong + Sh' - Sh
    BY DEF TypeOK, IndInv
  <2> QED
    BY <2>1, ExactKept
<1>5. Sources'
  BY DEF TypeOK, Sources, IndInv
<1>6. RawSafe'
  <2> SUFFICES ASSUME RawInUse' PROVE RawSafe'
    BY DEF RawSafe
  <2>1. RawInUse
    BY DEF RawInUse, TypeOK
  <2>2. PICK q \in Pointers : at[q] \in {"sp", "wp", "inc", "first"}
    BY <2>1 DEF RawSafe, IndInv
  <2>3. q # p /\ at'[q] = at[q] /\ s = "null"
    BY <2>2 DEF Alone
  <2>4. mStrong = INITIAL \/ \E r \in Pointers : at'[r] \in Counted
    BY <2>1 DEF RawSafe, IndInv
  <2>5. \A r \in Pointers : at'[r] \notin {"delete", "lastWeak"}
    BY <2>1, <2>3 DEF RawSafe, IndInv
  <2> QED
    BY <2>1, <2>2, <2>3, <2>4, <2>5 DEF RawSafe, IndInv
<1>10. Alones'
  BY DEF TypeOK, Alones, Alone, IndInv, Sources, RawSafe, RawInUse
<1>7. Reads'
  BY DEF TypeOK, Reads, IndInv
<1>8. Deleting'
  BY DEF TypeOK, Deleting, IndInv, Alones, Alone, RawSafe, RawInUse
<1>9. PromotionFailsLate'
  BY DEF TypeOK, PromotionFailsLate, IndInv, Reads, Sources
<1> QED
  BY <1>3, <1>4, <1>5, <1>6, <1>7, <1>8, <1>9, <1>10 DEF IndInv

LEMMA LastWeakStep ==
    ASSUME IndInv, NEW p \in Pointers, LastWeak(p)
    PROVE  IndInv'
<1> USE Consts DEF LastWeak, Done, DeleteBase, FreesRefs, Null
<1>1. PICK s \in States : Become(p, s) /\ s \in {"null"}
  BY DEF States, Promoting, Counted
<1>2. TypeOK
  BY DEF IndInv
<1>m. /\ Sh' = Sh + (IF s \in Counted THEN 1 ELSE 0) - (IF at[p] \in Counted THEN 1 ELSE 0)
      /\ Wh' = Wh + (IF Weak(s) THEN 1 ELSE 0) - (IF Weak(at[p]) THEN 1 ELSE 0)
      /\ at'[p] = s /\ \A q \in Pointers : q # p => at'[q] = at[q]
      /\ at' \in [Pointers -> States] /\ Sh' < INITIAL
  BY <1>1, <1>2, Moves
<1> USE <1>1, <1>2, <1>m, StrongFacts, HolderFacts DEF Counted, Weak, Promoting
<1>3. TypeOK'
  BY DEF TypeOK, IndInv, Deleting, RawSafe, RawInUse, Alones, Alone
<1>4. CountsExact'
  <2>1. raced' = raced /\ mWeak' = Wh' /\ mStrong' = mStrong + Sh' - Sh
    BY DEF TypeOK, IndInv
  <2> QED
    BY <2>1, ExactKept
<1>5. Sources'
  BY DEF TypeOK, Sources, IndInv
<1>6. RawSafe'
  BY DEF TypeOK, RawSafe, RawInUse, IndInv, Sources
<1>10. Alones'
  BY DEF TypeOK, Alones, Alone, IndInv, Sources, RawSafe, RawInUse
<1>7. Reads'
  BY DEF TypeOK, Reads, IndInv
<1>8. Deleting'
  BY DEF TypeOK, Deleting, IndInv, Alones, Alone, RawSafe, RawInUse
<1>9. PromotionFailsLate'
  BY DEF TypeOK, PromotionFailsLate, IndInv, Reads, Sources
<1> QED
  BY <1>3, <1>4, <1>5, <1>6, <1>7, <1>8, <1>9, <1>10 DEF IndInv

LEMMA createWeakStep ==
    ASSUME IndInv, NEW p \in Pointers, NEW q \in Pointers \cup {NULL}, createWeak(p, q)
    PROVE  IndInv'
<1> USE Consts DEF createWeak, Null
<1>1. PICK s \in States : Become(p, s) /\ s \in {"wp"}
  BY DEF States, Promoting, Counted
<1>2. TypeOK
  BY DEF IndInv
<1>m. /\ Sh' = Sh + (IF s \in Counted THEN 1 ELSE 0) - (IF at[p] \in Counted THEN 1 ELSE 0)
      /\ Wh' = Wh + (IF Weak(s) THEN 1 ELSE 0) - (IF Weak(at[p]) THEN 1 ELSE 0)
      /\ at'[p] = s /\ \A r \in Pointers : r # p => at'[r] = at[r]
      /\ at' \in [Pointers -> States] /\ Sh' < INITIAL
  BY <1>1, <1>2, Moves
<1> USE <1>1, <1>2, <1>m, StrongFacts, HolderFacts DEF Counted, Weak, Promoting
<1>3. TypeOK'
  BY DEF TypeOK, IndInv, Deleting, RawSafe, RawInUse, Alones, Alone
<1>4. CountsExact'
  <2>1. raced' = raced /\ mWeak' = Wh' /\ mStrong' = mStrong + Sh' - Sh
    BY DEF TypeOK, IndInv
  <2> QED
    BY <2>1, ExactKept
<1>5. Sources'
  BY DEF TypeOK, Sources, IndInv
<1>6. RawSafe'
  BY DEF TypeOK, RawSafe, RawInUse, IndInv, Sources
<1>10. Alones'
  BY DEF TypeOK, Alones, Alone, IndInv, Sources, RawSafe, RawInUse
<1>7. Reads'
  BY DEF TypeOK, Reads, IndInv
<1>8. Deleting'
  BY DEF TypeOK, Deleting, IndInv, Alones, Alone, RawSafe, RawInUse
<1>9. PromotionFailsLate'
  BY DEF TypeOK, PromotionFailsLate, IndInv, Reads, Sources
<1> QED
  BY <1>3, <1>4, <1>5, <1>6, <1>7, <1>8, <1>9, <1>10 DEF IndInv

LEMMA clearStep ==
    ASSUME IndInv, NEW p \in Pointers, clear(p)
    PROVE  IndInv'
<1> USE Consts DEF clear, MayDrop, Free, Null
<1>1. PICK s \in States : Become(p, s) /\ s \in {"decWeak"}
  BY DEF States, Promoting, Counted
<1>2. TypeOK
  BY DEF IndInv
<1>m. /\ Sh' = Sh + (IF s \in Counted THEN 1 ELSE 0) - (IF at[p] \in Counted THEN 1 ELSE 0)
      /\ Wh' = Wh + (IF Weak(s) THEN 1 ELSE 0) - (IF Weak(at[p]) THEN 1 ELSE 0)
      /\ at'[p] = s /\ \A q \in Pointers : q # p => at'[q] = at[q]
      /\ at' \in [Pointers -> States] /\ Sh' < INITIAL
  BY <1>1, <1>2, Moves
<1> USE <1>1, <1>2, <1>m, StrongFacts, HolderFacts DEF Counted, Weak, Promoting
<1>3. TypeOK'
  BY DEF TypeOK, IndInv, Deleting, RawSafe, RawInUse, Alones, Alone
<1>4. CountsExact'
  <2>1. raced' = raced /\ mWeak' = Wh' /\ mStrong' = mStrong + Sh' - Sh
    BY DEF TypeOK, IndInv
  <2> QED
    BY <2>1, ExactKept
<1>5. Sources'
  BY DEF TypeOK, Sources, IndInv
<1>6. RawSafe'
  BY DEF TypeOK, RawSafe, RawInUse, IndInv, Sources
<1>10. Alones'
  BY DEF TypeOK, Alones, Alone, IndInv, Sources, RawSafe, RawInUse
<1>7. Reads'
  BY DEF TypeOK, Reads, IndInv
<1>8. Deleting'
  BY DEF TypeOK, Deleting, IndInv, Alones, Alone, RawSafe, RawInUse
<1>9. PromotionFailsLate'
  BY DEF TypeOK, PromotionFailsLate, IndInv, Reads, Sources
<1> QED
  BY <1>3, <1>4, <1>5, <1>6, <1>7, <1>8, <1>9, <1>10 DEF IndInv

LEMMA promoteStep ==
    ASSUME IndInv, NEW p \in Pointers, NEW q \in Pointers, promote(p, q)
    PROVE  IndInv'
<1> USE Consts DEF promote, Null
<1>1. PICK s \in States : Become(p, s) /\ s \in {"read"}
  BY DEF States, Promoting, Counted
<1>2. TypeOK
  BY DEF IndInv
<1>m. /\ Sh' = Sh + (IF s \in Counted THEN 1 ELSE 0) - (IF at[p] \in Counted THEN 1 ELSE 0)
      /\ Wh' = Wh + (IF Weak(s) THEN 1 ELSE 0) - (IF Weak(at[p]) THEN 1 ELSE 0)
      /\ at'[p] = s /\ \A r \in Pointers : r # p => at'[r] = at[r]
      /\ at' \in [Pointers -> States] /\ Sh' < INITIAL
  BY <1>1, <1>2, Moves
<1> USE <1>1, <1>2, <1>m, StrongFacts, HolderFacts DEF Counted, Weak, Promoting
<1>3. TypeOK'
  BY DEF TypeOK, IndInv, Deleting, RawSafe, RawInUse, Alones, Alone
<1>4. CountsExact'
  <2>1. raced' = raced /\ mWeak' = Wh' /\ mStrong' = mStrong + Sh' - Sh
    BY DEF TypeOK, IndInv
  <2> QED
    BY <2>1, ExactKept
<1>5. Sources'
  BY DEF TypeOK, Sources, IndInv
<1>6. RawSafe'
  BY DEF TypeOK, RawSafe, RawInUse, IndInv, Sources
<1>10. Alones'
  BY DEF TypeOK, Alones, Alone, IndInv, Sources, RawSafe, RawInUse
<1>7. Reads'
  BY DEF TypeOK, Reads, IndInv
<1>8. Deleting'
  BY DEF TypeOK, Deleting, IndInv, Alones, Alone, RawSafe, RawInUse
<1>9. PromotionFailsLate'
  BY DEF TypeOK, PromotionFailsLate, IndInv, Reads, Sources
<1> QED
  BY <1>3, <1>4, <1>5, <1>6, <1>7, <1>8, <1>9, <1>10 DEF IndInv

LEMMA ReadCountStep ==
    ASSUME IndInv, NEW p \in Pointers, NEW from, NEW to, ReadCount(p, from, to),
           <<from, to>> \in {<<"read", "try">>, <<"readFirst", "tryFirst">>, <<"readFix", "fix">>}
    PROVE  IndInv'
<1> USE Consts DEF ReadCount, Null
<1>1. PICK s \in States : Become(p, s) /\ s \in {to}
  BY DEF States, Promoting, Counted
<1>2. TypeOK
  BY DEF IndInv
<1>m. /\ Sh' = Sh + (IF s \in Counted THEN 1 ELSE 0) - (IF at[p] \in Counted THEN 1 ELSE 0)
      /\ Wh' = Wh + (IF Weak(s) THEN 1 ELSE 0) - (IF Weak(at[p]) THEN 1 ELSE 0)
      /\ at'[p] = s /\ \A q \in Pointers : q # p => at'[q] = at[q]
      /\ at' \in [Pointers -> States] /\ Sh' < INITIAL
  BY <1>1, <1>2, Moves
<1> USE <1>1, <1>2, <1>m, StrongFacts, HolderFacts DEF Counted, Weak, Promoting
<1>3. TypeOK'
  BY DEF TypeOK, IndInv, Deleting, RawSafe, RawInUse, Alones, Alone
<1>4. CountsExact'
  <2>1. raced' = raced /\ mWeak' = Wh' /\ mStrong' = mStrong + Sh' - Sh
    BY DEF TypeOK, IndInv
  <2> QED
    BY <2>1, ExactKept
<1>5. Sources'
  BY DEF TypeOK, Sources, IndInv
<1>6. RawSafe'
  BY DEF TypeOK, RawSafe, RawInUse, IndInv, Sources
<1>10. Alones'
  BY DEF TypeOK, Alones, Alone, IndInv, Sources, RawSafe, RawInUse
<1>7. Reads'
  BY DEF TypeOK, Reads, IndInv
<1>8. Deleting'
  BY DEF TypeOK, Deleting, IndInv, Alones, Alone, RawSafe, RawInUse
<1>9. PromotionFailsLate'
  BY DEF TypeOK, PromotionFailsLate, IndInv, Reads, Sources
<1> QED
  BY <1>3, <1>4, <1>5, <1>6, <1>7, <1>8, <1>9, <1>10 DEF IndInv

LEMMA PromoteCommonStep ==
    ASSUME IndInv, NEW p \in Pointers, PromoteCommon(p)
    PROVE  IndInv'
<1> USE Consts DEF PromoteCommon, CompareAndSwap, Null
<1>1. PICK s \in States : Become(p, s) /\ s \in {"readFix", "read"}
  BY DEF States, Promoting, Counted
<1>2. TypeOK
  BY DEF IndInv
<1>m. /\ Sh' = Sh + (IF s \in Counted THEN 1 ELSE 0) - (IF at[p] \in Counted THEN 1 ELSE 0)
      /\ Wh' = Wh + (IF Weak(s) THEN 1 ELSE 0) - (IF Weak(at[p]) THEN 1 ELSE 0)
      /\ at'[p] = s /\ \A q \in Pointers : q # p => at'[q] = at[q]
      /\ at' \in [Pointers -> States] /\ Sh' < INITIAL
  BY <1>1, <1>2, Moves
<1>a. \/ mStrong = curCount[p] /\ mStrong' = mStrong + 1 /\ s = "readFix"
      \/ mStrong' = mStrong /\ s = "read"
  BY <1>m DEF Become, TypeOK
<1> USE <1>1, <1>2, <1>m, <1>a, StrongFacts, HolderFacts DEF Counted, Weak, Promoting
<1>3. TypeOK'
  BY DEF TypeOK, IndInv, Deleting, RawSafe, RawInUse, Alones, Alone
<1>4. CountsExact'
  <2>1. raced' = raced /\ mWeak' = Wh' /\ mStrong' = mStrong + Sh' - Sh
    BY DEF TypeOK, IndInv
  <2> QED
    BY <2>1, ExactKept
<1>5. Sources'
  BY DEF TypeOK, Sources, IndInv
<1>6. RawSafe'
  BY DEF TypeOK, RawSafe, RawInUse, IndInv, Sources
<1>10. Alones'
  BY DEF TypeOK, Alones, Alone, IndInv, Sources, RawSafe, RawInUse
<1>7. Reads'
  BY DEF TypeOK, Reads, IndInv
<1>8. Deleting'
  BY DEF TypeOK, Deleting, IndInv, Alones, Alone, RawSafe, RawInUse
<1>9. PromotionFailsLate'
  BY DEF TypeOK, PromotionFailsLate, IndInv, Reads, Sources
<1> QED
  BY <1>3, <1>4, <1>5, <1>6, <1>7, <1>8, <1>9, <1>10 DEF IndInv

LEMMA PromoteNormalStep ==
    ASSUME IndInv, NEW p \in Pointers, PromoteNormal(p)
    PROVE  IndInv'
<1> USE Consts DEF PromoteNormal, Null
<1>1. PICK s \in States : Become(p, s) /\ s \in {"decWeak", "tryFirst"}
  BY DEF States, Promoting, Counted
<1>2. TypeOK
  BY DEF IndInv
<1>m. /\ Sh' = Sh + (IF s \in Counted THEN 1 ELSE 0) - (IF at[p] \in Counted THEN 1 ELSE 0)
      /\ Wh' = Wh + (IF Weak(s) THEN 1 ELSE 0) - (IF Weak(at[p]) THEN 1 ELSE 0)
      /\ at'[p] = s /\ \A q \in Pointers : q # p => at'[q] = at[q]
      /\ at' \in [Pointers -> States] /\ Sh' < INITIAL
  BY <1>1, <1>2, Moves
<1>a. \/ curCount[p] <= 0 /\ mStrong <= 0 /\ s = "decWeak"
      \/ curCount[p] = INITIAL /\ s = "tryFirst"
  BY <1>m DEF Become, TypeOK, IndInv, Reads
<1> USE <1>1, <1>2, <1>m, <1>a, StrongFacts, HolderFacts DEF Counted, Weak, Promoting
<1>3. TypeOK'
  BY DEF TypeOK, IndInv, Deleting, RawSafe, RawInUse, Alones, Alone
<1>4. CountsExact'
  <2>1. raced' = raced /\ mWeak' = Wh' /\ mStrong' = mStrong + Sh' - Sh
    BY DEF TypeOK, IndInv
  <2> QED
    BY <2>1, ExactKept
<1>5. Sources'
  BY DEF TypeOK, Sources, IndInv
<1>6. RawSafe'
  BY DEF TypeOK, RawSafe, RawInUse, IndInv, Sources
<1>10. Alones'
  BY DEF TypeOK, Alones, Alone, IndInv, Sources, RawSafe, RawInUse
<1>7. Reads'
  BY DEF TypeOK, Reads, IndInv
<1>8. Deleting'
  BY DEF TypeOK, Deleting, IndInv, Alones, Alone, RawSafe, RawInUse
<1>9. PromotionFailsLate'
  BY DEF TypeOK, PromotionFailsLate, IndInv, Reads, Sources
<1> QED
  BY <1>3, <1>4, <1>5, <1>6, <1>7, <1>8, <1>9, <1>10 DEF IndInv

LEMMA PromoteFirstStep ==
    ASSUME IndInv, NEW p \in Pointers, PromoteFirst(p)
    PROVE  IndInv'
<1> USE Consts DEF PromoteFirst, CompareAndSwap, Null
<1>1. PICK s \in States : Become(p, s) /\ s \in {"readFix", "readFirst", "decWeak"}
  BY DEF States, Promoting, Counted
<1>2. TypeOK
  BY DEF IndInv
<1>m. /\ Sh' = Sh + (IF s \in Counted THEN 1 ELSE 0) - (IF at[p] \in Counted THEN 1 ELSE 0)
      /\ Wh' = Wh + (IF Weak(s) THEN 1 ELSE 0) - (IF Weak(at[p]) THEN 1 ELSE 0)
      /\ at'[p] = s /\ \A q \in Pointers : q # p => at'[q] = at[q]
      /\ at' \in [Pointers -> States] /\ Sh' < INITIAL
  BY <1>1, <1>2, Moves
<1>a. \/ mStrong = curCount[p] /\ mStrong > 0 /\ mStrong' = mStrong + 1 /\ s = "readFix"
      \/ mStrong' = mStrong /\ s = "readFirst"
      \/ curCount[p] <= 0 /\ mStrong <= 0 /\ mStrong' = mStrong /\ s = "decWeak"
  BY <1>m DEF Become, TypeOK, IndInv, Reads
<1> USE <1>1, <1>2, <1>m, <1>a, StrongFacts, HolderFacts DEF Counted, Weak, Promoting
<1>3. TypeOK'
  BY DEF TypeOK, IndInv, Deleting, RawSafe, RawInUse, Alones, Alone
<1>4. CountsExact'
  <2>1. raced' = raced /\ mWeak' = Wh' /\ mStrong' = mStrong + Sh' - Sh
    BY DEF TypeOK, IndInv
  <2> QED
    BY <2>1, ExactKept
<1>5. Sources'
  BY DEF TypeOK, Sources, IndInv
<1>6. RawSafe'
  BY DEF TypeOK, RawSafe, RawInUse, IndInv, Sources
<1>10. Alones'
  BY DEF TypeOK, Alones, Alone, IndInv, Sources, RawSafe, RawInUse
<1>7. Reads'
  BY DEF TypeOK, Reads, IndInv
<1>8. Deleting'
  BY DEF TypeOK, Deleting, IndInv, Alones, Alone, RawSafe, RawInUse
<1>9. PromotionFailsLate'
  BY DEF TypeOK, PromotionFailsLate, IndInv, Reads, Sources
<1> QED
  BY <1>3, <1>4, <1>5, <1>6, <1>7, <1>8, <1>9, <1>10 DEF IndInv

LEMMA PromoteExtendedStep ==
    ASSUME IndInv, NEW p \in Pointers, PromoteExtended(p)
    PROVE  IndInv'
<1> USE Consts DEF PromoteExtended, Null
<1>1. PICK s \in States : Become(p, s) /\ s \in {"readFix", "decWeak"}
  BY DEF States, Promoting, Counted
<1>2. TypeOK
  BY DEF IndInv
<1>m. /\ Sh' = Sh + (IF s \in Counted THEN 1 ELSE 0) - (IF at[p] \in Counted THEN 1 ELSE 0)
      /\ Wh' = Wh + (IF Weak(s) THEN 1 ELSE 0) - (IF Weak(at[p]) THEN 1 ELSE 0)
      /\ at'[p] = s /\ \A q \in Pointers : q # p => at'[q] = at[q]
      /\ at' \in [Pointers -> States] /\ Sh' < INITIAL
  BY <1>1, <1>2, Moves
<1>a. (s = "readFix" /\ mStrong' = mStrong + 1) \/ (s = "decWeak" /\ mStrong' = mStrong)
  BY <1>m DEF Become, TypeOK
<1> USE <1>1, <1>2, <1>m, <1>a, StrongFacts, HolderFacts DEF Counted, Weak, Promoting
<1>3. TypeOK'
  BY DEF TypeOK, IndInv, Deleting, RawSafe, RawInUse, Alones, Alone
<1>4. CountsExact'
  <2>1. raced' = raced /\ mWeak' = Wh' /\ mStrong' = mStrong + Sh' - Sh
    BY DEF TypeOK, IndInv
  <2> QED
    BY <2>1, ExactKept
<1>5. Sources'
  BY DEF TypeOK, Sources, IndInv
<1>6. RawSafe'
  BY DEF TypeOK, RawSafe, RawInUse, IndInv, Sources
<1>10. Alones'
  BY DEF TypeOK, Alones, Alone, IndInv, Sources, RawSafe, RawInUse
<1>7. Reads'
  BY DEF TypeOK, Reads, IndInv
<1>8. Deleting'
  BY DEF TypeOK, Deleting, IndInv, Alones, Alone, RawSafe, RawInUse
<1>9. PromotionFailsLate'
  BY DEF TypeOK, PromotionFailsLate, IndInv, Reads, Sources
<1> QED
  BY <1>3, <1>4, <1>5, <1>6, <1>7, <1>8, <1>9, <1>10 DEF IndInv

LEMMA FixUpStep ==
    ASSUME IndInv, NEW p \in Pointers, FixUp(p)
    PROVE  IndInv'
<1> USE Consts DEF FixUp, Done, Null
<1>1. PICK s \in States : Become(p, s) /\ s \in {"readFix", "sp"}
  BY DEF States, Promoting, Counted
<1>2. TypeOK
  BY DEF IndInv
<1>m. /\ Sh' = Sh + (IF s \in Counted THEN 1 ELSE 0) - (IF at[p] \in Counted THEN 1 ELSE 0)
      /\ Wh' = Wh + (IF Weak(s) THEN 1 ELSE 0) - (IF Weak(at[p]) THEN 1 ELSE 0)
      /\ at'[p] = s /\ \A q \in Pointers : q # p => at'[q] = at[q]
      /\ at' \in [Pointers -> States] /\ Sh' < INITIAL
  BY <1>1, <1>2, Moves
<1>a. \/ mStrong' = mStrong /\ s = "readFix" /\ UNCHANGED <<src, raced>>
      \/ /\ mStrong >= INITIAL /\ mStrong' = mStrong - INITIAL /\ s = "sp" /\ src' = [src EXCEPT ![p] = NULL]
         /\ raced' = (raced \/ First)
      \/ /\ mStrong < INITIAL /\ mStrong' = mStrong /\ s = "sp" /\ src' = [src EXCEPT ![p] = NULL]
         /\ raced' = raced
  <2>1. raced \in BOOLEAN
    BY <1>2 DEF TypeOK
  <2>2. CASE curCount[p] >= INITIAL /\ mStrong # curCount[p]
    BY <2>2, <1>m DEF Become, TypeOK
  <2>3. CASE curCount[p] >= INITIAL /\ mStrong = curCount[p]
    <3>1. raced' = (raced \/ First)
      BY <2>3 DEF First
    <3> QED
      BY <2>3, <3>1, <1>m DEF Become, TypeOK
  <2>4. CASE ~(curCount[p] >= INITIAL)
    <3>1. raced' = raced
      BY <2>1, <2>4
    <3> QED
      BY <2>4, <3>1, <1>m DEF Become, TypeOK, IndInv, Reads
  <2> QED
    BY <2>2, <2>3, <2>4
<1> USE <1>1, <1>2, <1>m, <1>a, StrongFacts, HolderFacts DEF Counted, Weak, Promoting
<1>r. raced \in BOOLEAN /\ raced' \in BOOLEAN
  <2>1. raced \in BOOLEAN
    BY DEF TypeOK
  <2>2. raced' = raced \/ raced' = (raced \/ First)
    BY <1>a
  <2> QED
    BY <2>1, <2>2, Zenon DEF First
<1>3. TypeOK'
  BY <1>r DEF TypeOK, IndInv, Deleting, RawSafe, RawInUse, Alones, Alone
<1>4. CountsExact'
  <2>1. mWeak' = Wh' /\ Sh' = Sh
    BY DEF TypeOK, IndInv
  <2>2. CASE mStrong >= INITIAL /\ mStrong' = mStrong - INITIAL /\ s = "sp" /\ raced' = (raced \/ First)
    <3>1. First' <=> First
      BY <2>2 DEF First
    <3>2. mStrong' = Sh' /\ ~raced
      BY <2>1, <2>2
    <3>3. raced' <=> First'
      BY <2>2, <3>1, <3>2, <1>r, Zenon
    <3> QED
      BY <2>1, <3>2, <3>3, <1>r, ExactNext
  <2>3. CASE mStrong' = mStrong /\ raced' = raced /\ (s = "readFix" \/ mStrong < INITIAL)
    <3>1. mStrong' = mStrong + Sh' - Sh
      BY <2>1, <2>3 DEF TypeOK
    <3> QED
      BY <2>1, <2>3, <3>1, ExactKept
  <2> QED
    BY <1>a, <2>2, <2>3
<1>5. Sources'
  BY DEF TypeOK, Sources, IndInv
<1>6. RawSafe'
  BY DEF TypeOK, RawSafe, RawInUse, IndInv, Sources
<1>10. Alones'
  BY DEF TypeOK, Alones, Alone, IndInv, Sources, RawSafe, RawInUse
<1>7. Reads'
  BY DEF TypeOK, Reads, IndInv
<1>8. Deleting'
  BY DEF TypeOK, Deleting, IndInv, Alones, Alone, RawSafe, RawInUse
<1>9. PromotionFailsLate'
  BY DEF TypeOK, PromotionFailsLate, IndInv, Reads, Sources
<1> QED
  BY <1>3, <1>4, <1>5, <1>6, <1>7, <1>8, <1>9, <1>10 DEF IndInv
LEMMA StepInv == IndInv /\ [Next]_vars => IndInv'
<1> SUFFICES ASSUME IndInv, [Next]_vars PROVE IndInv'
  OBVIOUS
<1>1. CASE UNCHANGED vars
  BY <1>1 DEF IndInv, TypeOK, CountsExact, Sources, RawSafe, RawInUse, First, Alones, Alone, Reads, Deleting, PromotionFailsLate,
     StrongHolders, WeakHolders, vars
<1>2. CASE \E p \in Pointers : Step(p)
  <2>1. PICK p \in Pointers : Step(p)
    BY <1>2
  <2>2. CASE IncStrongCount(p) \/ SubInitial(p) \/ DeleteThis(p) \/ decWeak(p) \/ LastWeak(p)
    BY <2>2, IncStrongCountStep, SubInitialStep, DeleteThisStep, decWeakStep, LastWeakStep
  <2>3. CASE ReadCount(p, "read", "try") \/ ReadCount(p, "readFirst", "tryFirst") \/ ReadCount(p, "readFix", "fix")
    BY <2>3, ReadCountStep
  <2>4. CASE PromoteCommon(p) \/ PromoteNormal(p) \/ PromoteFirst(p) \/ PromoteExtended(p) \/ FixUp(p)
    BY <2>4, PromoteCommonStep, PromoteNormalStep, PromoteFirstStep, PromoteExtendedStep, FixUpStep
  <2> QED
    BY <2>1, <2>2, <2>3, <2>4 DEF Step
<1>3. CASE \E p \in Pointers : decStrong(p) \/ clear(p)
  BY <1>3, decStrongStep, clearStep
<1>4. CASE \E p \in Pointers, q \in Pointers \cup {NULL} : incStrong(p, q) \/ createWeak(p, q)
  BY <1>4, incStrongStep, createWeakStep
<1>5. CASE \E p, q \in Pointers : promote(p, q)
  BY <1>5, promoteStep
<1> QED
  BY <1>1, <1>2, <1>3, <1>4, <1>5 DEF Next

LEMMA Invariance == Spec => []IndInv
  BY InitInv, StepInv, PTL DEF Spec

--------------------------------------------------------------------------
\* Whatever interleaving of incStrong, decStrong, attemptIncStrong and decWeak:
\* the counts are those of the pointers there are, the assertions of
\* RefBase.cpp hold, and nothing is deleted twice; only a fix-up that comes
\* between the two steps of the first incStrong makes the strong count wrong,
\* and then by exactly the initial value.
THEOREM CountsCorrect == Spec => []CountsInv
<1>1. IndInv => CountsInv
  <2> SUFFICES ASSUME IndInv PROVE CountsInv
    OBVIOUS
  <2>1. TypeOK /\ CountsExact
    BY DEF IndInv
  <2>2. \A p \in Pointers : at[p] = "decWeak" => mWeak >= 1
    BY StrongFacts, HolderFacts DEF Weak
  <2>3. \A p \in Pointers : at[p] = "fix" => curCount[p] # INITIAL
    BY DEF IndInv, Reads
  <2>4. ~raced => \A p \in Pointers : at[p] \in {"inc", "sp"} => mStrong >= 1
    BY StrongFacts DEF Counted
  <2>5. ~raced => \A p \in Pointers : at[p] = "try" => curCount[p] >= 0
    BY DEF IndInv, TypeOK, Reads
  <2>6. Assertions
    BY <2>2, <2>3, <2>4, <2>5 DEF Assertions
  <2> QED
    BY <2>1, <2>6 DEF CountsInv
<1> QED
  BY <1>1, Invariance, PTL

\* A strong pointer never outlives its object, and no pointer and no running
\* operation outlives the counts (decStrong, decWeak, ~RefBase).
THEOREM NothingDanglesEver == Spec => []NothingDangles
<1>1. IndInv => NothingDangles
  <2> SUFFICES ASSUME IndInv PROVE NothingDangles
    OBVIOUS
  <2>1. deletes.base \in {0, 1} /\ deletes.refs \in {0, 1}
    BY DEF IndInv, TypeOK
  <2>2. \A p \in Pointers : at[p] \in Counted \cup {"inc", "delete"} => deletes.base = 0
    BY <2>1, StrongFacts DEF IndInv, Deleting, Counted
  <2>3. \A p \in Pointers : ~Null(p) => deletes.refs = 0 /\ (lifetime = "WEAK" => deletes.base = 0)
    BY <2>1 DEF IndInv, Deleting, Null
  <2> QED
    BY <2>2, <2>3 DEF NothingDangles
<1> QED
  BY <1>1, Invariance, PTL

\* wp::promote returns null only once the last strong reference of an object
\* with the normal lifetime has been released, or when an object with the
\* extended one had none and refused, unless the initial value was taken off
\* twice (attemptIncStrong).
THEOREM PromotionIsFair == Spec => []PromotionFailsLate
<1>1. IndInv => PromotionFailsLate
  BY DEF IndInv
<1> QED
  BY <1>1, Invariance, PTL
==========================================================================
