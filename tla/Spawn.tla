------------------------------ MODULE Spawn ------------------------------
(***************************************************************************)
(* src/util/fork_util.c together with the SIGCHLD handler that main        *)
(* installs (src/signal_handler.c).  Threads call spawn_and_wait, each for *)
(* a child of its own; the handler runs on any thread and calls wait,      *)
(* which reaps whichever child has ended.                                  *)
(***************************************************************************)
EXTENDS Integers

CONSTANTS Caller,      \* threads that call spawn_and_wait
          ExitCodes,   \* what a child may exit with
          Signals      \* what may kill it

ASSUME CodesAssumption == ExitCodes \subseteq Nat /\ 111 \in ExitCodes /\ Signals \subseteq Nat

\* The wait status of a child: it exited with a code, or a signal killed it.
Status == [exited : {TRUE}, val : ExitCodes] \cup [exited : {FALSE}, val : Signals]

VARIABLES
    pc,        \* where each thread is in spawn_and_wait
    child,     \* the child of each: none, in vfork, running, zombie or reaped
    status,    \* the status each child left
    failed,    \* spawn's flag, set by a child whose execvp failed
    rc,        \* what spawn_and_wait returned
    pending,   \* SIGCHLD is pending: a flag, signals do not queue
    inHandler  \* threads that are in sig_handler, blocked in wait

spawn_vars == <<pc, child, status, failed, rc, pending, inHandler>>

Children == {c \in Caller : child[c] \in {"vfork", "running", "zombie"}}
Zombies  == {c \in Caller : child[c] = "zombie"}

SpawnInit ==
    /\ pc = [c \in Caller |-> "idle"]
    /\ child = [c \in Caller |-> "none"]
    /\ status = [c \in Caller |-> [exited |-> TRUE, val |-> 111]]
    /\ failed = [c \in Caller |-> FALSE]
    /\ rc = [c \in Caller |-> 0]
    /\ pending = FALSE /\ inHandler = {}

\* A thread takes its own steps when it is not in the handler.
Runs(c, at) == pc[c] = at /\ c \notin inHandler

Return(c, code) ==
    /\ pc' = [pc EXCEPT ![c] = "returned"]
    /\ rc' = [rc EXCEPT ![c] = code]

--------------------------------------------------------------------------
(* spawn *)

Vfork(c) ==
    /\ Runs(c, "idle")
    /\ pc' = [pc EXCEPT ![c] = "vfork"]
    /\ child' = [child EXCEPT ![c] = "vfork"]
    /\ UNCHANGED <<status, failed, rc, pending, inHandler>>

VforkFails(c) ==
    /\ Runs(c, "idle") /\ Return(c, -1)
    /\ UNCHANGED <<child, status, failed, pending, inHandler>>

\* execvp succeeds and releases the parent.
Execvp(c) ==
    /\ child[c] = "vfork"
    /\ child' = [child EXCEPT ![c] = "running"]
    /\ pc' = [pc EXCEPT ![c] = "spawned"]
    /\ UNCHANGED <<status, failed, rc, pending, inHandler>>

\* The child sets the flag in the memory it shares and exits with 111.
ExecvpFails(c) ==
    /\ child[c] = "vfork"
    /\ child' = [child EXCEPT ![c] = "zombie"]
    /\ status' = [status EXCEPT ![c] = [exited |-> TRUE, val |-> 111]]
    /\ failed' = [failed EXCEPT ![c] = TRUE]
    /\ pc' = [pc EXCEPT ![c] = "spawned"]
    /\ pending' = TRUE
    /\ UNCHANGED <<rc, inHandler>>

\* waitpid(pid) has something to say: a zombie, or ECHILD if it is gone.
Waitable(c) == child[c] \in {"zombie", "reaped"}

\* Mutant of SpawnFailed: the failed child is not waited for.
SpawnForgetsZombie(c) ==
    /\ Runs(c, "spawned") /\ failed[c]
    /\ Return(c, -1)
    /\ UNCHANGED <<child, status, failed, pending, inHandler>>

\* "prevent zombie": whatever waitpid says, spawn and then wait4pid return -1.
SpawnFailed(c) ==
    /\ Runs(c, "spawned") /\ failed[c] /\ Waitable(c)
    /\ child' = [child EXCEPT ![c] = "reaped"]
    /\ Return(c, -1)
    /\ UNCHANGED <<status, failed, pending, inHandler>>

SpawnReturns(c) ==
    /\ Runs(c, "spawned") /\ ~failed[c]
    /\ pc' = [pc EXCEPT ![c] = "wait"]
    /\ UNCHANGED <<child, status, failed, rc, pending, inHandler>>

--------------------------------------------------------------------------
(* wait4pid and safe_waitpid, which starts over after EINTR *)

\* WEXITSTATUS, or WTERMSIG + 0x180
Result(s) == IF s.exited THEN s.val ELSE s.val + 384

wait4pid(c) ==
    /\ Runs(c, "wait") /\ child[c] = "zombie"
    /\ child' = [child EXCEPT ![c] = "reaped"]
    /\ Return(c, Result(status[c]))
    /\ UNCHANGED <<status, failed, pending, inHandler>>

\* Mutant of NoChild: safe_waitpid retries every error.
RetriesAlways(c) ==
    /\ Runs(c, "wait") /\ child[c] = "reaped"
    /\ UNCHANGED spawn_vars

\* The handler has reaped the child: waitpid fails with ECHILD, and a program
\* that ran is reported as one that did not.
NoChild(c) ==
    /\ Runs(c, "wait") /\ child[c] = "reaped"
    /\ Return(c, -1)
    /\ UNCHANGED <<child, status, failed, pending, inHandler>>

--------------------------------------------------------------------------
(* The children and the handler *)

ChildEnds(c) ==
    /\ child[c] = "running"
    /\ child' = [child EXCEPT ![c] = "zombie"]
    /\ \E s \in Status : status' = [status EXCEPT ![c] = s]
    /\ pending' = TRUE
    /\ UNCHANGED <<pc, failed, rc, inHandler>>

\* The kernel picks a thread; a parent suspended in vfork takes no signal, and
\* SIGCHLD is blocked on a thread that is handling it.
SignalTaken(c) ==
    /\ pending /\ c \notin inHandler /\ pc[c] # "vfork"
    /\ pending' = FALSE
    /\ inHandler' = inHandler \cup {c}
    /\ UNCHANGED <<pc, child, status, failed, rc>>

\* sig_child: wait reaps any child that has ended, blocks while all run, and
\* fails with ECHILD if there is none; sigaction installs the handler again.
sig_child(c) ==
    /\ c \in inHandler
    /\ \/ \E d \in Zombies : child' = [child EXCEPT ![d] = "reaped"]
       \/ Children = {} /\ UNCHANGED child
    /\ inHandler' = inHandler \ {c}
    /\ UNCHANGED <<pc, status, failed, rc, pending>>

--------------------------------------------------------------------------
Thread(c) == \/ Execvp(c) \/ ExecvpFails(c) \/ SpawnFailed(c) \/ SpawnReturns(c)
             \/ wait4pid(c) \/ NoChild(c) \/ sig_child(c)

SpawnNext == \E c \in Caller : \/ Vfork(c) \/ VforkFails(c)
                          \/ Thread(c) \/ ChildEnds(c) \/ SignalTaken(c)

\* Threads go on, and every child ends.
SpawnSpec == SpawnInit /\ [][SpawnNext]_spawn_vars
FairSpawnSpec == SpawnSpec /\ \A c \in Caller : WF_spawn_vars(Thread(c)) /\ WF_spawn_vars(ChildEnds(c))

--------------------------------------------------------------------------
(* Properties *)

\* The variables keep their types; a result tells codes from signals.
SpawnTypeOK ==
    /\ pc \in [Caller -> {"idle", "vfork", "spawned", "wait", "returned"}]
    /\ child \in [Caller -> {"none", "vfork", "running", "zombie", "reaped"}]
    /\ status \in [Caller -> Status]
    /\ failed \in [Caller -> BOOLEAN]
    /\ rc \in [Caller -> {-1, 0} \cup ExitCodes \cup {n + 384 : n \in Signals}]
    /\ pending \in BOOLEAN /\ inHandler \subseteq Caller

\* A call that has returned leaves no zombie behind, whoever reaped the child:
\* waitpid in spawn or wait4pid, or the handler (fork_util.c "prevent zombie").
NoZombieLeft == \A c \in Caller : pc[c] = "returned" => child[c] \in {"none", "reaped"}

\* Every call returns once children end: neither EINTR, nor a handler blocked
\* in wait, nor a child reaped by somebody else keeps it for ever.
CallReturns == \A c \in Caller : (pc[c] = "vfork") ~> (pc[c] = "returned")
==========================================================================
