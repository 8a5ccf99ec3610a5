-------------------------- MODULE ObjThreadProofs --------------------------
(***************************************************************************)
(* One thread at a time runs the code of a Thread object, nobody waits for *)
(* it from within, and after its last holder let go of it only a run()     *)
(* that failed for a caller without a reference touches it, for any number *)
(* of callers and of starts.                                               *)
(***************************************************************************)
EXTENDS ObjThread, TLAPS

\* mLock is held across steps by the caller inside run() and by nobody else;
\* a worker is in no call that waits or creates.
LockHeld ==
    /\ \A t \in Threads : call[t] \in {"create", "unlock", "unlockFailed"} => mLock = t
    /\ mLock # NULL => call[mLock] \in {"create", "unlock", "unlockFailed"}
    /\ \A w \in Workers : call[w] = "idle"

\* The loop that has begun and not ended is that of mThread, and mRunning
\* says so; run() has found none when it creates a thread.
LoopOwned ==
    /\ \A w \in Workers : loop[w] # "none" => w <= created
    /\ \A w \in Workers : InLoop(w) => mThread = w /\ mRunning
    /\ \A c \in Callers : call[c] = "create" =>
          mRunning /\ created < MaxRuns /\ \A w \in Workers : ~InLoop(w)

\* Who keeps the object, at each place where somebody relies on it.
Holding == {"clearSelf", "readyToRun", "exitPending", "threadLoop", "check", "letGo", "return"}
Young == {"clearSelf", "readyToRun", "exitPending", "check"}

Kept ==
    /\ ~alive => strong = {} /\ ~mHoldSelf
    /\ \A t \in Threads : call[t] \in Waits => t \in strong
    /\ \A c \in Callers : call[c] = "create" => mHoldSelf
    /\ \A w \in Workers : loop[w] = "start" => mHoldSelf
    /\ \A w \in Workers : loop[w] \in Holding => w \in strong

\* While run() holds the lock, the new thread cannot get past it: the caller
\* who has no sp is kept safe by the reference of the thread.  When there is
\* no thread the object is gone, unless the caller has an sp.
UnlockSafe ==
    /\ \A c \in Callers : call[c] = "unlock" =>
         \/ c \in strong
         \/ \E w \in Workers : loop[w] = "start" \/ (loop[w] \in Young /\ w \in strong)
    /\ \A c \in Callers : call[c] = "create" => c \in strong \/ raw = c
    /\ \A c \in Callers : call[c] = "unlockFailed" => c \in strong \/ (raw = c /\ ~alive)

\* Until its thread is created nobody else knows an object that no sp was
\* made of.
RawAlone ==
    /\ raw # NULL => raw \notin strong
    /\ raw # NULL /\ call[raw] \in {"idle", "create"} =>
          alive /\ strong = {} /\ created = 0 /\ \A c \in Callers : c # raw => call[c] = "idle"

IndInv == TypeOK /\ LockHeld /\ LoopOwned /\ Kept /\ UnlockSafe /\ RawAlone

--------------------------------------------------------------------------
LEMMA Disjoint ==
    /\ NULL \notin Callers /\ NULL \notin Workers /\ MaxRuns \in Nat
    /\ \A c \in Callers : c \notin Workers
  BY ThreadAssumption DEF Threads

LEMMA InitInv == Init => IndInv
<1> SUFFICES ASSUME Init PROVE IndInv
  OBVIOUS
<1> USE Disjoint DEF Init, Threads
<1>0. strong \subseteq Callers /\ raw \in Callers \cup {NULL} /\ created \in 0..MaxRuns
  OBVIOUS
<1>1. TypeOK
  BY <1>0 DEF TypeOK
<1>2. LockHeld /\ LoopOwned
  BY DEF LockHeld, LoopOwned, InLoop
<1>3. Kept /\ UnlockSafe
  BY DEF Kept, UnlockSafe, Waits, Holding
<1>4. RawAlone
  BY DEF RawAlone
<1> QED
  BY <1>1, <1>2, <1>3, <1>4 DEF IndInv

LEMMA ReleaseStep ==
    ASSUME IndInv, NEW c \in Callers, Release(c)
    PROVE  IndInv'
<1> USE Disjoint DEF Release, MayCall, LetGo, IndInv, Threads
<1>1. TypeOK'
  BY DEF TypeOK, Waits, Workers, LockHeld, LoopOwned
<1>2. LockHeld'
  BY DEF TypeOK, LockHeld, Waits, LoopOwned, InLoop
<1>3. LoopOwned'
  BY DEF TypeOK, LockHeld, LoopOwned, InLoop, RawAlone
<1>4. Kept'
  BY DEF TypeOK, LockHeld, LoopOwned, InLoop, Kept, Waits, Holding, RawAlone
<1>5. UnlockSafe'
  BY DEF TypeOK, LockHeld, LoopOwned, InLoop, Kept, UnlockSafe, Young, Holding, Waits
<1>6. RawAlone'
  BY DEF TypeOK, LockHeld, LoopOwned, Kept, RawAlone, Holding, Waits, InLoop
<1> QED
  BY <1>1, <1>2, <1>3, <1>4, <1>5, <1>6

LEMMA runStep ==
    ASSUME IndInv, NEW c \in Callers, run(c)
    PROVE  IndInv'
<1> USE Disjoint DEF run, MayCall, Calls, IndInv, Threads
<1>1. TypeOK'
  BY DEF TypeOK, Waits, Workers, LockHeld, LoopOwned
<1>2. LockHeld'
  BY DEF TypeOK, LockHeld, Waits, LoopOwned, InLoop
<1>3. LoopOwned'
  BY DEF TypeOK, LockHeld, LoopOwned, InLoop, RawAlone
<1>4. Kept'
  BY DEF TypeOK, LockHeld, LoopOwned, InLoop, Kept, Waits, Holding, RawAlone
<1>5. UnlockSafe'
  BY DEF TypeOK, LockHeld, LoopOwned, InLoop, Kept, UnlockSafe, Young, Holding, Waits
<1>6. RawAlone'
  BY DEF TypeOK, LockHeld, LoopOwned, Kept, RawAlone, Holding, Waits, InLoop
<1> QED
  BY <1>1, <1>2, <1>3, <1>4, <1>5, <1>6

LEMMA CreateThreadStep ==
    ASSUME IndInv, NEW c \in Threads, CreateThread(c)
    PROVE  IndInv'
<1> USE Disjoint DEF CreateThread, Calls, IndInv, Threads
<1>0. c \in Callers /\ created + 1 \in Workers /\ created \in Nat
  BY DEF TypeOK, LockHeld, LoopOwned, Workers
<1>1. TypeOK'
  BY DEF TypeOK, Waits, Workers, LockHeld, LoopOwned
<1>2. LockHeld'
  BY DEF TypeOK, LockHeld, Waits, LoopOwned, InLoop
<1>3. LoopOwned'
  <2>1. \A w \in Workers : w \in Nat /\ (w <= created => w # created + 1)
    BY <1>0 DEF Workers
  <2>2. \A w \in Workers : loop'[w] # "none" => w <= created'
    BY <1>0, <2>1 DEF TypeOK, LoopOwned
  <2>3. \A w \in Workers : InLoop(w)' => w = created + 1
    BY <1>0 DEF TypeOK, LoopOwned, InLoop
  <2>4. \A d \in Callers : call'[d] # "create"
    BY <1>0 DEF TypeOK, LockHeld
  <2>5. mRunning
    BY <1>0 DEF LoopOwned
  <2> QED
    BY <1>0, <2>2, <2>3, <2>4, <2>5 DEF LoopOwned
<1>4. Kept'
  BY DEF TypeOK, LockHeld, LoopOwned, InLoop, Kept, Waits, Holding, RawAlone
<1>5. UnlockSafe'
  BY <1>0 DEF TypeOK, LockHeld, LoopOwned, InLoop, Kept, UnlockSafe, Young, Holding, Waits
<1>6. RawAlone'
  BY DEF TypeOK, LockHeld, LoopOwned, Kept, RawAlone, Holding, Waits, InLoop
<1> QED
  BY <1>1, <1>2, <1>3, <1>4, <1>5, <1>6

LEMMA CreateFailsStep ==
    ASSUME IndInv, NEW c \in Callers, CreateFails(c)
    PROVE  IndInv'
<1> USE Disjoint DEF CreateFails, Calls, LetGo, IndInv, Threads
<1>1. TypeOK'
  BY DEF TypeOK, Waits, Workers, LockHeld, LoopOwned
<1>2. LockHeld'
  BY DEF TypeOK, LockHeld, Waits, LoopOwned, InLoop
<1>3. LoopOwned'
  BY DEF TypeOK, LockHeld, LoopOwned, InLoop, RawAlone
<1>4. Kept'
  BY DEF TypeOK, LockHeld, LoopOwned, InLoop, Kept, Waits, Holding, RawAlone
<1>5. UnlockSafe'
  BY DEF TypeOK, LockHeld, LoopOwned, InLoop, Kept, UnlockSafe, RawAlone, Young, Holding, Waits
<1>6. RawAlone'
  BY DEF TypeOK, LockHeld, LoopOwned, Kept, RawAlone, Holding, Waits, InLoop
<1> QED
  BY <1>1, <1>2, <1>3, <1>4, <1>5, <1>6

LEMMA UnlockStep ==
    ASSUME IndInv, NEW c \in Threads, Unlock(c)
    PROVE  IndInv'
<1> USE Disjoint DEF Unlock, Calls, IndInv, Threads
<1>1. TypeOK'
  BY DEF TypeOK, Waits, Workers, LockHeld, LoopOwned
<1>2. LockHeld'
  BY DEF TypeOK, LockHeld, Waits, LoopOwned, InLoop
<1>3. LoopOwned'
  BY DEF TypeOK, LockHeld, LoopOwned, InLoop, RawAlone
<1>4. Kept'
  BY DEF TypeOK, LockHeld, LoopOwned, InLoop, Kept, Waits, Holding, RawAlone
<1>5. UnlockSafe'
  BY DEF TypeOK, LockHeld, LoopOwned, InLoop, Kept, UnlockSafe, Young, Holding, Waits
<1>6. RawAlone'
  BY DEF TypeOK, LockHeld, LoopOwned, Kept, RawAlone, Holding, Waits, InLoop
<1> QED
  BY <1>1, <1>2, <1>3, <1>4, <1>5, <1>6

LEMMA requestExitStep ==
    ASSUME IndInv, NEW t \in Threads, requestExit(t)
    PROVE  IndInv'
<1> USE Disjoint DEF requestExit, IndInv, Threads
<1>1. TypeOK'
  BY DEF TypeOK, Waits, Workers, LockHeld, LoopOwned
<1>2. LockHeld'
  BY DEF TypeOK, LockHeld, Waits, LoopOwned, InLoop
<1>3. LoopOwned'
  BY DEF TypeOK, LockHeld, LoopOwned, InLoop, RawAlone
<1>4. Kept'
  BY DEF TypeOK, LockHeld, LoopOwned, InLoop, Kept, Waits, Holding, RawAlone
<1>5. UnlockSafe'
  BY DEF TypeOK, LockHeld, LoopOwned, InLoop, Kept, UnlockSafe, Young, Holding, Waits
<1>6. RawAlone'
  BY DEF TypeOK, LockHeld, LoopOwned, Kept, RawAlone, Holding, Waits, InLoop
<1> QED
  BY <1>1, <1>2, <1>3, <1>4, <1>5, <1>6

LEMMA requestExitAndWaitStep ==
    ASSUME IndInv, NEW t \in Threads, requestExitAndWait(t)
    PROVE  IndInv'
<1> USE Disjoint DEF requestExitAndWait, MayCall, Calls, IndInv, Threads
<1>1. TypeOK'
  BY DEF TypeOK, Waits, Workers, LockHeld, LoopOwned
<1>2. LockHeld'
  BY DEF TypeOK, LockHeld, Waits, LoopOwned, InLoop
<1>3. LoopOwned'
  BY DEF TypeOK, LockHeld, LoopOwned, InLoop, RawAlone
<1>4. Kept'
  BY DEF TypeOK, LockHeld, LoopOwned, InLoop, Kept, Waits, Holding, RawAlone
<1>5. UnlockSafe'
  BY DEF TypeOK, LockHeld, LoopOwned, InLoop, Kept, UnlockSafe, Young, Holding, Waits
<1>6. RawAlone'
  BY DEF TypeOK, LockHeld, LoopOwned, Kept, RawAlone, Holding, Waits, InLoop
<1> QED
  BY <1>1, <1>2, <1>3, <1>4, <1>5, <1>6

LEMMA joinStep ==
    ASSUME IndInv, NEW t \in Threads, join(t)
    PROVE  IndInv'
<1> USE Disjoint DEF join, MayCall, Calls, IndInv, Threads
<1>1. TypeOK'
  BY DEF TypeOK, Waits, Workers, LockHeld, LoopOwned
<1>2. LockHeld'
  BY DEF TypeOK, LockHeld, Waits, LoopOwned, InLoop
<1>3. LoopOwned'
  BY DEF TypeOK, LockHeld, LoopOwned, InLoop, RawAlone
<1>4. Kept'
  BY DEF TypeOK, LockHeld, LoopOwned, InLoop, Kept, Waits, Holding, RawAlone
<1>5. UnlockSafe'
  BY DEF TypeOK, LockHeld, LoopOwned, InLoop, Kept, UnlockSafe, Young, Holding, Waits
<1>6. RawAlone'
  BY DEF TypeOK, LockHeld, LoopOwned, Kept, RawAlone, Holding, Waits, InLoop
<1> QED
  BY <1>1, <1>2, <1>3, <1>4, <1>5, <1>6

LEMMA SpuriousWakeStep ==
    ASSUME IndInv, NEW t \in Threads, SpuriousWake(t)
    PROVE  IndInv'
<1> USE Disjoint DEF SpuriousWake, Calls, Woken, IndInv, Threads
<1>1. TypeOK'
  BY DEF TypeOK, Waits, Workers, LockHeld, LoopOwned
<1>2. LockHeld'
  BY DEF TypeOK, LockHeld, Waits, LoopOwned, InLoop
<1>3. LoopOwned'
  BY DEF TypeOK, LockHeld, LoopOwned, InLoop, RawAlone
<1>4. Kept'
  BY DEF TypeOK, LockHeld, LoopOwned, InLoop, Kept, Waits, Holding, RawAlone
<1>5. UnlockSafe'
  BY DEF TypeOK, LockHeld, LoopOwned, InLoop, Kept, UnlockSafe, Young, Holding, Waits
<1>6. RawAlone'
  BY DEF TypeOK, LockHeld, LoopOwned, Kept, RawAlone, Holding, Waits, InLoop
<1> QED
  BY <1>1, <1>2, <1>3, <1>4, <1>5, <1>6

LEMMA ExitWokenStep ==
    ASSUME IndInv, NEW t \in Threads, ExitWoken(t)
    PROVE  IndInv'
<1> USE Disjoint DEF ExitWoken, Calls, IndInv, Threads
<1>1. TypeOK'
  BY DEF TypeOK, Waits, Workers, LockHeld, LoopOwned
<1>2. LockHeld'
  BY DEF TypeOK, LockHeld, Waits, LoopOwned, InLoop
<1>3. LoopOwned'
  BY DEF TypeOK, LockHeld, LoopOwned, InLoop, RawAlone
<1>4. Kept'
  BY DEF TypeOK, LockHeld, LoopOwned, InLoop, Kept, Waits, Holding, RawAlone
<1>5. UnlockSafe'
  BY DEF TypeOK, LockHeld, LoopOwned, InLoop, Kept, UnlockSafe, Young, Holding, Waits
<1>6. RawAlone'
  BY DEF TypeOK, LockHeld, LoopOwned, Kept, RawAlone, Holding, Waits, InLoop
<1> QED
  BY <1>1, <1>2, <1>3, <1>4, <1>5, <1>6

LEMMA JoinWokenStep ==
    ASSUME IndInv, NEW t \in Threads, JoinWoken(t)
    PROVE  IndInv'
<1> USE Disjoint DEF JoinWoken, Calls, IndInv, Threads
<1>1. TypeOK'
  BY DEF TypeOK, Waits, Workers, LockHeld, LoopOwned
<1>2. LockHeld'
  BY DEF TypeOK, LockHeld, Waits, LoopOwned, InLoop
<1>3. LoopOwned'
  BY DEF TypeOK, LockHeld, LoopOwned, InLoop, RawAlone
<1>4. Kept'
  BY DEF TypeOK, LockHeld, LoopOwned, InLoop, Kept, Waits, Holding, RawAlone
<1>5. UnlockSafe'
  BY DEF TypeOK, LockHeld, LoopOwned, InLoop, Kept, UnlockSafe, Young, Holding, Waits
<1>6. RawAlone'
  BY DEF TypeOK, LockHeld, LoopOwned, Kept, RawAlone, Holding, Waits, InLoop
<1> QED
  BY <1>1, <1>2, <1>3, <1>4, <1>5, <1>6

LEMMA TakeSelfStep ==
    ASSUME IndInv, NEW w \in Workers, TakeSelf(w)
    PROVE  IndInv'
<1> USE Disjoint DEF TakeSelf, GoTo, IndInv, Threads
<1>1. TypeOK'
  BY DEF TypeOK, Waits, Workers, LockHeld, LoopOwned
<1>2. LockHeld'
  BY DEF TypeOK, LockHeld, Waits, LoopOwned, InLoop
<1>3. LoopOwned'
  BY DEF TypeOK, LockHeld, LoopOwned, InLoop, RawAlone
<1>4. Kept'
  BY DEF TypeOK, LockHeld, LoopOwned, InLoop, Kept, Waits, Holding, RawAlone
<1>5. UnlockSafe'
  BY DEF TypeOK, LockHeld, LoopOwned, InLoop, Kept, UnlockSafe, Young, Holding, Waits
<1>6. RawAlone'
  BY DEF Workers, TypeOK, LockHeld, LoopOwned, Kept, RawAlone, Holding, Waits, InLoop
<1> QED
  BY <1>1, <1>2, <1>3, <1>4, <1>5, <1>6

LEMMA ClearSelfStep ==
    ASSUME IndInv, NEW w \in Workers, ClearSelf(w)
    PROVE  IndInv'
<1> USE Disjoint DEF ClearSelf, GoTo, LetGo, IndInv, Threads
<1>1. TypeOK'
  BY DEF TypeOK, Waits, Workers, LockHeld, LoopOwned
<1>2. LockHeld'
  BY DEF TypeOK, LockHeld, Waits, LoopOwned, InLoop
<1>3. LoopOwned'
  BY DEF TypeOK, LockHeld, LoopOwned, InLoop, RawAlone
<1>4. Kept'
  BY DEF TypeOK, LockHeld, LoopOwned, InLoop, Kept, Waits, Holding, RawAlone
<1>5. UnlockSafe'
  BY DEF TypeOK, LockHeld, LoopOwned, InLoop, Kept, UnlockSafe, Young, Holding, Waits
<1>6. RawAlone'
  BY DEF TypeOK, LockHeld, LoopOwned, Kept, RawAlone, Holding, Waits, InLoop
<1> QED
  BY <1>1, <1>2, <1>3, <1>4, <1>5, <1>6

LEMMA readyToRunStep ==
    ASSUME IndInv, NEW w \in Workers, readyToRun(w)
    PROVE  IndInv'
<1> USE Disjoint DEF readyToRun, GoTo, IndInv, Threads
<1>1. TypeOK'
  BY DEF TypeOK, Waits, Workers, LockHeld, LoopOwned
<1>2. LockHeld'
  BY DEF TypeOK, LockHeld, Waits, LoopOwned, InLoop
<1>3. LoopOwned'
  BY DEF TypeOK, LockHeld, LoopOwned, InLoop, RawAlone
<1>4. Kept'
  BY DEF TypeOK, LockHeld, LoopOwned, InLoop, Kept, Waits, Holding, RawAlone
<1>5. UnlockSafe'
  BY DEF TypeOK, LockHeld, LoopOwned, InLoop, Kept, UnlockSafe, Young, Holding, Waits
<1>6. RawAlone'
  BY DEF TypeOK, LockHeld, LoopOwned, Kept, RawAlone, Holding, Waits, InLoop
<1> QED
  BY <1>1, <1>2, <1>3, <1>4, <1>5, <1>6

LEMMA exitPendingStep ==
    ASSUME IndInv, NEW w \in Workers, exitPending(w)
    PROVE  IndInv'
<1> USE Disjoint DEF exitPending, GoTo, IndInv, Threads
<1>1. TypeOK'
  BY DEF TypeOK, Waits, Workers, LockHeld, LoopOwned
<1>2. LockHeld'
  BY DEF TypeOK, LockHeld, Waits, LoopOwned, InLoop
<1>3. LoopOwned'
  BY DEF TypeOK, LockHeld, LoopOwned, InLoop, RawAlone
<1>4. Kept'
  BY DEF TypeOK, LockHeld, LoopOwned, InLoop, Kept, Waits, Holding, RawAlone
<1>5. UnlockSafe'
  BY DEF TypeOK, LockHeld, LoopOwned, InLoop, Kept, UnlockSafe, Young, Holding, Waits
<1>6. RawAlone'
  BY DEF TypeOK, LockHeld, LoopOwned, Kept, RawAlone, Holding, Waits, InLoop
<1> QED
  BY <1>1, <1>2, <1>3, <1>4, <1>5, <1>6

LEMMA threadLoopStep ==
    ASSUME IndInv, NEW w \in Workers, threadLoop(w)
    PROVE  IndInv'
<1> USE Disjoint DEF threadLoop, GoTo, IndInv, Threads
<1>1. TypeOK'
  BY DEF TypeOK, Waits, Workers, LockHeld, LoopOwned
<1>2. LockHeld'
  BY DEF TypeOK, LockHeld, Waits, LoopOwned, InLoop
<1>3. LoopOwned'
  BY DEF TypeOK, LockHeld, LoopOwned, InLoop, RawAlone
<1>4. Kept'
  BY DEF TypeOK, LockHeld, LoopOwned, InLoop, Kept, Waits, Holding, RawAlone
<1>5. UnlockSafe'
  BY DEF TypeOK, LockHeld, LoopOwned, InLoop, Kept, UnlockSafe, Young, Holding, Waits
<1>6. RawAlone'
  BY DEF TypeOK, LockHeld, LoopOwned, Kept, RawAlone, Holding, Waits, InLoop
<1> QED
  BY <1>1, <1>2, <1>3, <1>4, <1>5, <1>6

LEMMA CheckStep ==
    ASSUME IndInv, NEW w \in Workers, Check(w)
    PROVE  IndInv'
<1> USE Disjoint DEF Check, GoTo, Woken, IndInv, Threads
<1>1. TypeOK'
  <2>1. \A t \in Threads : Woken(call[t]) \in {"idle", "create", "unlock", "unlockFailed"} \cup Waits
    BY DEF TypeOK, Waits
  <2>2. call' \in [Threads -> {"idle", "create", "unlock", "unlockFailed"} \cup Waits]
    BY <2>1 DEF TypeOK
  <2> QED
    BY <2>2 DEF TypeOK
<1>2. LockHeld'
  BY DEF TypeOK, LockHeld, Waits, LoopOwned, InLoop
<1>3. LoopOwned'
  BY DEF TypeOK, LockHeld, LoopOwned, InLoop, RawAlone
<1>4. Kept'
  BY DEF TypeOK, LockHeld, LoopOwned, InLoop, Kept, Waits, Holding, RawAlone
<1>5. UnlockSafe'
  BY DEF TypeOK, LockHeld, LoopOwned, InLoop, Kept, UnlockSafe, Young, Holding, Waits
<1>6. RawAlone'
  BY DEF TypeOK, LockHeld, LoopOwned, Kept, RawAlone, Holding, Waits, InLoop
<1> QED
  BY <1>1, <1>2, <1>3, <1>4, <1>5, <1>6

LEMMA LetGoStrongStep ==
    ASSUME IndInv, NEW w \in Workers, LetGoStrong(w)
    PROVE  IndInv'
<1> USE Disjoint DEF LetGoStrong, GoTo, LetGo, IndInv, Threads
<1>1. TypeOK'
  BY DEF TypeOK, Waits, Workers, LockHeld, LoopOwned
<1>2. LockHeld'
  BY DEF TypeOK, LockHeld, Waits, LoopOwned, InLoop
<1>3. LoopOwned'
  BY DEF TypeOK, LockHeld, LoopOwned, InLoop, RawAlone
<1>4. Kept'
  BY DEF TypeOK, LockHeld, LoopOwned, InLoop, Kept, Waits, Holding, RawAlone
<1>5. UnlockSafe'
  BY DEF TypeOK, LockHeld, LoopOwned, InLoop, Kept, UnlockSafe, Young, Holding, Waits
<1>6. RawAlone'
  BY DEF TypeOK, LockHeld, LoopOwned, Kept, RawAlone, Holding, Waits, InLoop
<1> QED
  BY <1>1, <1>2, <1>3, <1>4, <1>5, <1>6

LEMMA PromoteStep ==
    ASSUME IndInv, NEW w \in Workers, Promote(w)
    PROVE  IndInv'
<1> USE Disjoint DEF Promote, GoTo, IndInv, Threads
<1>1. TypeOK'
  BY DEF TypeOK, Waits, Workers, LockHeld, LoopOwned
<1>2. LockHeld'
  BY DEF TypeOK, LockHeld, Waits, LoopOwned, InLoop
<1>3. LoopOwned'
  BY DEF TypeOK, LockHeld, LoopOwned, InLoop, RawAlone
<1>4. Kept'
  BY DEF TypeOK, LockHeld, LoopOwned, InLoop, Kept, Waits, Holding, RawAlone
<1>5. UnlockSafe'
  BY DEF TypeOK, LockHeld, LoopOwned, InLoop, Kept, UnlockSafe, Young, Holding, Waits
<1>6. RawAlone'
  BY DEF Workers, TypeOK, LockHeld, LoopOwned, Kept, RawAlone, Holding, Waits, InLoop
<1> QED
  BY <1>1, <1>2, <1>3, <1>4, <1>5, <1>6

\* A step of the object's threads keeps the invariant.
LEMMA StepInv == IndInv /\ [Next]_vars => IndInv'
<1> SUFFICES ASSUME IndInv, [Next]_vars PROVE IndInv'
  OBVIOUS
<1>1. CASE UNCHANGED vars
  BY <1>1 DEF IndInv, TypeOK, LockHeld, LoopOwned, Kept, UnlockSafe, RawAlone, InLoop, vars
<1>2. CASE \E c \in Callers : Release(c) \/ run(c) \/ CreateFails(c)
  BY <1>2, ReleaseStep, runStep, CreateFailsStep
<1>3. CASE \E t \in Threads : requestExit(t) \/ requestExitAndWait(t) \/ join(t) \/ SpuriousWake(t)
  BY <1>3, requestExitStep, requestExitAndWaitStep, joinStep, SpuriousWakeStep
<1>4. CASE \E t \in Threads : GoesOn(t)
  BY <1>4, CreateThreadStep, UnlockStep, ExitWokenStep, JoinWokenStep DEF GoesOn
<1>5. CASE \E w \in Workers : Worker(w)
  BY <1>5, TakeSelfStep, ClearSelfStep, readyToRunStep, exitPendingStep, threadLoopStep, CheckStep,
     LetGoStrongStep, PromoteStep DEF Worker
<1> QED
  BY <1>1, <1>2, <1>3, <1>4, <1>5 DEF Next

LEMMA Invariance == Spec => []IndInv
  BY InitInv, StepInv, PTL DEF Spec

\* However often and by whomever the object is started, stopped and waited
\* for, one loop at most runs, mRunning tells of it, and the thread never
\* waits for itself (run, requestExitAndWait, join, _threadLoop).
THEOREM ThreadCorrect == Spec => []ThreadInv
<1>1. IndInv => ThreadInv
  BY Disjoint DEF IndInv, ThreadInv, TypeOK, LockHeld, LoopOwned, OneThreadAtATime, NoSelfWait, Waits, Threads
<1> QED
  BY <1>1, Invariance, PTL

\* No caller in run() or in a wait, and no thread in its loop, uses the object
\* after it was deleted, but for one: the caller of (new ThreadSubclass())->run()
\* when pthread_create fails, and that one always does.
THEOREM NoTouchAfterDelete == Spec => []OnlyFailedRunTouchesDeleted
<1>1. IndInv => OnlyFailedRunTouchesDeleted
  <2> SUFFICES ASSUME IndInv PROVE OnlyFailedRunTouchesDeleted
    OBVIOUS
  <2>1. \A w \in Workers : InLoop(w) /\ loop[w] # "promote" => alive
    BY DEF IndInv, Kept, InLoop, Holding
  <2>2. ASSUME NEW t \in Threads, call[t] # "idle" PROVE ~alive <=> LeftBehind(t)
    <3>1. t \in Callers
      BY <2>2 DEF IndInv, LockHeld, Threads
    <3>2. CASE call[t] = "unlockFailed"
      BY <3>1, <3>2, Disjoint DEF IndInv, Kept, UnlockSafe, RawAlone, LeftBehind
    <3>3. CASE call[t] # "unlockFailed"
      BY <2>2, <3>1, <3>3 DEF IndInv, TypeOK, Kept, UnlockSafe, LeftBehind, Waits, Holding, Young, Threads
    <3> QED
      BY <3>2, <3>3
  <2> QED
    BY <2>1, <2>2 DEF OnlyFailedRunTouchesDeleted
<1> QED
  BY <1>1, Invariance, PTL

\* requestExitAndWait() and join() return only when no loop is running, also
\* when the thread was started again while they waited.
THEOREM WaitsForExit == Spec => ReturnsAfterExit
<1>1. ASSUME IndInv, [Next]_vars, NEW t \in Threads, call[t] \in Waits, call'[t] = "idle"
      PROVE  \A w \in Workers : ~InLoop(w)
  <2>1. ~mRunning
    BY <1>1, Disjoint DEF Next, Release, run, CreateFails, requestExit, requestExitAndWait, join, SpuriousWake,
       GoesOn, CreateThread, Unlock, ExitWoken, JoinWoken, Worker, TakeSelf, ClearSelf, readyToRun,
       exitPending, threadLoop, Check, LetGoStrong, Promote, Calls, Woken, MayCall, Waits, vars, IndInv, TypeOK
  <2> QED
    BY <1>1, <2>1 DEF IndInv, LoopOwned
<1>2. IndInv /\ [Next]_vars =>
        [\A t \in Threads : call[t] \in Waits /\ call'[t] = "idle" => \A w \in Workers : ~InLoop(w)]_vars
  BY <1>1
<1> QED
  BY <1>2, Invariance, PTL DEF Spec, ReturnsAfterExit
==========================================================================
