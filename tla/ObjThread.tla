----------------------------- MODULE ObjThread -----------------------------
(***************************************************************************)
(* src/objthread/Thread.cpp: one Thread object, the callers that start it, *)
(* ask it to exit and wait for it, and the threads that run() creates.     *)
(* What mLock protects is one step, except in run(), which creates the     *)
(* thread while it holds the lock; what the new thread does without the    *)
(* lock is a step of its own.  The strong references are a set of holders, *)
(* as module RefBase shows them to be: the object is deleted when the last *)
(* holder lets go.                                                         *)
(***************************************************************************)
EXTENDS Integers, FiniteSets

CONSTANTS Callers, NULL,
          MaxRuns        \* how often run() creates a thread

Workers == 1..MaxRuns    \* the threads, in the order of their creation
Threads == Callers \cup Workers

ASSUME ThreadAssumption ==
    /\ MaxRuns \in Nat \ {0}
    /\ NULL \notin Threads /\ Callers \cap Workers = {}

VARIABLES
    mLock,         \* the caller in run(), or NULL
    mRunning, mExitPending,
    mThread,       \* a worker, or NULL for thread_id_t(-1)
    mHoldSelf,
    strong,        \* who else holds an sp
    alive,         \* the object has not been deleted
    raw,           \* the caller that has only the pointer returned by new, or NULL
    created,       \* how many threads run() has created
    call,          \* what each thread is doing with the object
    loop,          \* where each worker is in _threadLoop
    result         \* of readyToRun() or threadLoop()

vars == <<mLock, mRunning, mExitPending, mThread, mHoldSelf, strong, alive, raw, created, call, loop, result>>

\* The caller shares the object, or starts it and forgets it:
\* (new ThreadSubclass())->run()
Init ==
    /\ mLock = NULL /\ mRunning = FALSE /\ mExitPending = FALSE /\ mThread = NULL
    /\ mHoldSelf = FALSE /\ alive = TRUE
    /\ \/ strong = Callers /\ raw = NULL
       \/ strong = {} /\ raw \in Callers
    /\ created = 0
    /\ call = [t \in Threads |-> "idle"]
    /\ loop = [w \in Workers |-> "none"]
    /\ result = [w \in Workers |-> FALSE]

\* A thread that may call a method: it has an sp, or is in threadLoop().
MayCall(t) ==
    /\ call[t] = "idle" /\ t \in strong
    /\ t \in Workers => loop[t] = "threadLoop"

Calls(t, s) == call' = [call EXCEPT ![t] = s]

\* The holders are now S and, if h, mHoldSelf; with none left the object goes.
LetGo(S, h) == strong' = S /\ mHoldSelf' = h /\ alive' = (S # {} \/ h)

Release(c) ==
    /\ c \in Callers /\ MayCall(c)
    /\ LetGo(strong \ {c}, mHoldSelf)
    /\ UNCHANGED <<mLock, mRunning, mExitPending, mThread, raw, created, call, loop, result>>

--------------------------------------------------------------------------
(* run *)

\* Mutant of run: a thread that still runs is started once more.
RunTwice(c) ==
    /\ MayCall(c) \/ (call[c] = "idle" /\ raw = c)
    /\ mLock = NULL /\ created < MaxRuns
    /\ mExitPending' = FALSE /\ mThread' = NULL
    /\ mHoldSelf' = TRUE /\ mRunning' = TRUE
    /\ mLock' = c /\ Calls(c, "create")
    /\ UNCHANGED <<strong, alive, raw, created, loop, result>>

\* A call while the thread runs returns INVALID_OPERATION and changes nothing.
run(c) ==
    /\ MayCall(c) \/ (call[c] = "idle" /\ raw = c)
    /\ mLock = NULL /\ ~mRunning /\ created < MaxRuns
    /\ mExitPending' = FALSE /\ mThread' = NULL
    /\ mHoldSelf' = TRUE /\ mRunning' = TRUE
    /\ mLock' = c /\ Calls(c, "create")
    /\ UNCHANGED <<strong, alive, raw, created, loop, result>>

\* androidCreateRawThreadEtc: the thread runs from now on.
CreateThread(c) ==
    /\ call[c] = "create"
    /\ created' = created + 1
    /\ loop' = [loop EXCEPT ![created + 1] = "start"]
    /\ mThread' = created + 1
    /\ Calls(c, "unlock")
    /\ UNCHANGED <<mLock, mRunning, mExitPending, mHoldSelf, strong, alive, raw, result>>

\* pthread_create fails: the caller's own reference was not the only one, or
\* mHoldSelf.clear() deletes the object.
CreateFails(c) ==
    /\ call[c] = "create"
    /\ mRunning' = FALSE /\ mThread' = NULL
    /\ LetGo(strong, FALSE)
    /\ Calls(c, "unlockFailed")
    /\ UNCHANGED <<mLock, mExitPending, raw, created, loop, result>>

\* The Autolock of run() goes out of scope and unlocks mLock, a member of the
\* object: OnlyFailedRunTouchesDeleted says when the object is still there.
Unlock(c) ==
    /\ call[c] \in {"unlock", "unlockFailed"}
    /\ mLock' = NULL
    /\ raw' = IF raw = c THEN NULL ELSE raw
    /\ Calls(c, "idle")
    /\ UNCHANGED <<mRunning, mExitPending, mThread, mHoldSelf, strong, alive, created, loop, result>>

--------------------------------------------------------------------------
(* requestExit, requestExitAndWait and join *)

requestExit(t) ==
    /\ MayCall(t) /\ mLock = NULL
    /\ mExitPending' = TRUE
    /\ UNCHANGED <<mLock, mRunning, mThread, mHoldSelf, strong, alive, raw, created, call, loop, result>>

\* From the thread itself it returns WOULD_BLOCK and changes nothing.
requestExitAndWait(t) ==
    /\ MayCall(t) /\ mLock = NULL /\ mThread # t
    /\ IF mRunning THEN mExitPending' = TRUE /\ Calls(t, "exitWait")
                   ELSE mExitPending' = FALSE /\ UNCHANGED call
    /\ UNCHANGED <<mLock, mRunning, mThread, mHoldSelf, strong, alive, raw, created, loop, result>>

join(t) ==
    /\ MayCall(t) /\ mLock = NULL /\ mThread # t
    /\ mRunning /\ Calls(t, "joinWait")
    /\ UNCHANGED <<mLock, mRunning, mExitPending, mThread, mHoldSelf, strong, alive, raw, created, loop, result>>

\* A broadcast, or pthread_cond_wait returning without one.
Woken(s) == CASE s = "exitWait" -> "exitWoken" [] s = "joinWait" -> "joinWoken" [] OTHER -> s

SpuriousWake(t) ==
    /\ call[t] \in {"exitWait", "joinWait"}
    /\ Calls(t, Woken(call[t]))
    /\ UNCHANGED <<mLock, mRunning, mExitPending, mThread, mHoldSelf, strong, alive, raw, created, loop, result>>

\* Mutant of ExitWoken: the condition is not looked at again.
ExitWokenOnce(t) ==
    /\ call[t] = "exitWoken" /\ mLock = NULL
    /\ Calls(t, "idle") /\ mExitPending' = FALSE
    /\ UNCHANGED <<mLock, mRunning, mThread, mHoldSelf, strong, alive, raw, created, loop, result>>

ExitWoken(t) ==
    /\ call[t] = "exitWoken" /\ mLock = NULL
    /\ IF mRunning THEN Calls(t, "exitWait") /\ UNCHANGED mExitPending
                   ELSE Calls(t, "idle") /\ mExitPending' = FALSE
    /\ UNCHANGED <<mLock, mRunning, mThread, mHoldSelf, strong, alive, raw, created, loop, result>>

JoinWoken(t) ==
    /\ call[t] = "joinWoken" /\ mLock = NULL
    /\ Calls(t, IF mRunning THEN "joinWait" ELSE "idle")
    /\ UNCHANGED <<mLock, mRunning, mExitPending, mThread, mHoldSelf, strong, alive, raw, created, loop, result>>

--------------------------------------------------------------------------
(* _threadLoop *)

GoTo(w, s) == loop' = [loop EXCEPT ![w] = s]

\* Mutant of TakeSelf: the thread does not take a reference of its own.
TakeSelfNot(w) ==
    /\ loop[w] = "start"
    /\ GoTo(w, "clearSelf")
    /\ UNCHANGED <<mLock, mRunning, mExitPending, mThread, mHoldSelf, strong, alive, raw, created, call, result>>

TakeSelf(w) ==
    /\ loop[w] = "start"
    /\ strong' = strong \cup {w}
    /\ GoTo(w, "clearSelf")
    /\ UNCHANGED <<mLock, mRunning, mExitPending, mThread, mHoldSelf, alive, raw, created, call, result>>

ClearSelf(w) ==
    /\ loop[w] = "clearSelf"
    /\ LetGo(strong, FALSE)
    /\ GoTo(w, "readyToRun")
    /\ UNCHANGED <<mLock, mRunning, mExitPending, mThread, raw, created, call, result>>

readyToRun(w) ==
    /\ loop[w] = "readyToRun"
    /\ \E ok \in BOOLEAN :
         /\ result' = [result EXCEPT ![w] = ok]
         /\ GoTo(w, IF ok THEN "exitPending" ELSE "check")
    /\ UNCHANGED <<mLock, mRunning, mExitPending, mThread, mHoldSelf, strong, alive, raw, created, call>>

\* Mutant of exitPending: the first round ends without threadLoop().
ExitPendingSkips(w) ==
    /\ loop[w] = "exitPending" /\ mLock = NULL
    /\ GoTo(w, "check")
    /\ UNCHANGED <<mLock, mRunning, mExitPending, mThread, mHoldSelf, strong, alive, raw, created, call, result>>

exitPending(w) ==
    /\ loop[w] = "exitPending" /\ mLock = NULL
    /\ GoTo(w, IF mExitPending THEN "check" ELSE "threadLoop")
    /\ UNCHANGED <<mLock, mRunning, mExitPending, mThread, mHoldSelf, strong, alive, raw, created, call, result>>

\* The method of the derived class, which may call the object's other methods.
threadLoop(w) ==
    /\ loop[w] = "threadLoop" /\ call[w] = "idle"
    /\ \E again \in BOOLEAN : result' = [result EXCEPT ![w] = again]
    /\ GoTo(w, "check")
    /\ UNCHANGED <<mLock, mRunning, mExitPending, mThread, mHoldSelf, strong, alive, raw, created, call>>

\* Mutant of Check: the waiters are not woken.
CheckNoBroadcast(w) ==
    /\ loop[w] = "check" /\ mLock = NULL
    /\ IF ~result[w] \/ mExitPending
       THEN /\ mExitPending' = TRUE /\ mRunning' = FALSE /\ mThread' = NULL
            /\ GoTo(w, "return")
       ELSE GoTo(w, "letGo") /\ UNCHANGED <<mExitPending, mRunning, mThread>>
    /\ UNCHANGED <<mLock, mHoldSelf, strong, alive, raw, created, call, result>>

\* The end of a round, with mLock held.
Check(w) ==
    /\ loop[w] = "check" /\ mLock = NULL
    /\ IF ~result[w] \/ mExitPending
       THEN /\ mExitPending' = TRUE /\ mRunning' = FALSE /\ mThread' = NULL
            /\ call' = [t \in Threads |-> Woken(call[t])]
            /\ GoTo(w, "return")
       ELSE GoTo(w, "letGo") /\ UNCHANGED <<mExitPending, mRunning, mThread, call>>
    /\ UNCHANGED <<mLock, mHoldSelf, strong, alive, raw, created, result>>

\* strong.clear(), here and when _threadLoop returns
LetGoStrong(w) ==
    /\ loop[w] \in {"letGo", "return"}
    /\ LetGo(strong \ {w}, mHoldSelf)
    /\ GoTo(w, IF loop[w] = "letGo" THEN "promote" ELSE "done")
    /\ UNCHANGED <<mLock, mRunning, mExitPending, mThread, raw, created, call, result>>

\* weak.promote(): it fails when nobody else held the object.
Promote(w) ==
    /\ loop[w] = "promote"
    /\ IF alive THEN strong' = strong \cup {w} /\ GoTo(w, "threadLoop")
                ELSE GoTo(w, "done") /\ UNCHANGED strong
    /\ UNCHANGED <<mLock, mRunning, mExitPending, mThread, mHoldSelf, alive, raw, created, call, result>>

--------------------------------------------------------------------------
Worker(w) ==
    \/ TakeSelf(w) \/ ClearSelf(w) \/ readyToRun(w) \/ exitPending(w) \/ threadLoop(w)
    \/ Check(w) \/ LetGoStrong(w) \/ Promote(w)

GoesOn(t) == CreateThread(t) \/ Unlock(t) \/ ExitWoken(t) \/ JoinWoken(t)

Next ==
    \/ \E c \in Callers : Release(c) \/ run(c) \/ CreateFails(c)
    \/ \E t \in Threads : requestExit(t) \/ requestExitAndWait(t) \/ join(t) \/ SpuriousWake(t) \/ GoesOn(t)
    \/ \E w \in Workers : Worker(w)

\* Threads are scheduled: a call that is not blocked goes on, and threadLoop()
\* returns.  mLock is held across steps in run() only, which ends.
Spec ==
    /\ Init /\ [][Next]_vars
    /\ \A t \in Threads : WF_vars(GoesOn(t))
    /\ \A w \in Workers : WF_vars(Worker(w))

--------------------------------------------------------------------------
(* Properties *)

Waits == {"exitWait", "joinWait", "exitWoken", "joinWoken"}

\* The worker runs code of the derived class or still has to.
InLoop(w) == loop[w] \in {"start", "clearSelf", "readyToRun", "exitPending", "threadLoop", "check", "letGo", "promote"}

TypeOK ==
    /\ mLock \in Callers \cup {NULL} /\ mRunning \in BOOLEAN /\ mExitPending \in BOOLEAN
    /\ mThread \in Workers \cup {NULL} /\ mHoldSelf \in BOOLEAN
    /\ strong \subseteq Threads /\ alive \in BOOLEAN /\ raw \in Callers \cup {NULL}
    /\ created \in 0..MaxRuns
    /\ call \in [Threads -> {"idle", "create", "unlock", "unlockFailed"} \cup Waits]
    /\ loop \in [Workers -> {"none", "start", "clearSelf", "readyToRun", "exitPending", "threadLoop",
                             "check", "letGo", "promote", "return", "done"}]
    /\ result \in [Workers -> BOOLEAN]

\* Who touches the object after it was deleted.  Not a caller in a wait, not a
\* run() that created its thread, not the thread between two rounds; only the
\* Autolock of the documented (new ThreadSubclass())->run() when pthread_create
\* fails: nobody else holds the object, so mHoldSelf.clear() deletes it
\* (Thread.cpp:93) and the destructor of the Autolock unlocks its mutex.
LeftBehind(t) == call[t] = "unlockFailed" /\ raw = t

OnlyFailedRunTouchesDeleted ==
    /\ \A t \in Threads : call[t] # "idle" => (~alive <=> LeftBehind(t))
    /\ \A w \in Workers : InLoop(w) /\ loop[w] # "promote" => alive

\* However often the object is started again, the code of one thread at most
\* is running, and mRunning says so to run(), join() and isRunning().
OneThreadAtATime ==
    /\ \A v, w \in Workers : InLoop(v) /\ InLoop(w) => v = w
    /\ alive /\ ~mRunning => \A w \in Workers : ~InLoop(w)

\* The object's own thread never waits for itself to exit (Thread.h:55).
NoSelfWait == \A w \in Workers : call[w] \notin Waits

\* One loop at a time, which nobody waits for from within, whoever starts and
\* stops the object.
ThreadInv == TypeOK /\ OneThreadAtATime /\ NoSelfWait

\* requestExitAndWait() and join() do not return before the thread has left
\* its loop for good.
ReturnsAfterExit ==
    [][\A t \in Threads : call[t] \in Waits /\ call'[t] = "idle" => \A w \in Workers : ~InLoop(w)]_vars

\* A thread that was started enters threadLoop(), unless readyToRun() fails or
\* it is asked to exit, even if the caller has let go of it (Thread.cpp:130).
EntersThreadLoop ==
    \A w \in Workers :
        loop[w] = "start" ~> \/ loop[w] = "threadLoop" \/ mExitPending
                             \/ loop[w] \in {"check", "return"} /\ ~result[w]

\* requestExitAndWait() returns (Thread.h:54), unless run() takes the request
\* back while the caller waits.
ExitWaitReturns ==
    \A t \in Threads :
        call[t] \in {"exitWait", "exitWoken"} /\ mExitPending ~> call[t] = "idle" \/ ~mExitPending
==========================================================================
