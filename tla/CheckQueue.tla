----------------------------- MODULE CheckQueue -----------------------------
(***************************************************************************)
(* The script-verification queue of src/src/checkqueue.h: one master (the  *)
(* thread that runs ConnectBlock under cs_main) pushes batches of script   *)
(* checks, N-1 worker threads and finally the master itself drain them.    *)
(*                                                                         *)
(* Every section the code runs under the queue's mutex is one action; the  *)
(* execution of a batch, which the code does outside the mutex, is another.*)
(* A thread that is in cond.wait() has pc "wait"; a notified (or           *)
(* spuriously woken) thread that has not got the mutex back has "woken".   *)
(*                                                                         *)
(* The queue is a set: the code pops a LIFO "as the order of booleans      *)
(* doesn't matter" (checkqueue.h:43), the model takes any nNow elements.   *)
(* fQuit is never assigned after construction, so a worker leaves Loop     *)
(* only through boost's thread interruption in cond.wait (shutdown).       *)
(***************************************************************************)
EXTENDS Naturals, FiniteSets

CONSTANTS
    Workers,     \* the threads init.cpp creates with ThreadScriptCheck
    Master,      \* the thread that connects a block
    Checks,      \* script checks of the block being connected
    Bad,         \* the checks that evaluate to false
    nBatchSize,  \* 128 in main.cpp
    None         \* no verdict has been returned in this round

ASSUME WorkersAssumption == IsFiniteSet(Workers) /\ Master \notin Workers
ASSUME ChecksAssumption == IsFiniteSet(Checks) /\ Bad \subseteq Checks
ASSUME BatchAssumption == nBatchSize \in Nat \ {0}
ASSUME NoneAssumption == None \notin BOOLEAN

Threads == Workers \union {Master}

VARIABLES
    queue,        \* checks pushed and not yet taken
    nIdle,        \* threads in cond.wait (as the code counts them)
    nTotal,       \* threads in Loop (as the code counts them)
    fAllOk,       \* the evaluation result so far
    nTodo,        \* checks added and not yet completed
    pc,           \* where each thread is
    vChecks,      \* the batch a thread has taken; nNow is its cardinality
    fOk,          \* each thread's local result
    inDtor,       \* the master waits in ~CCheckQueueControl, not in Wait()
    interrupted,  \* threads boost has interrupted (shutdown)
    added,        \* history: the checks added since the control was built
    verdict       \* history: what Wait() returned to ConnectBlock

vars == <<queue, nIdle, nTotal, fAllOk, nTodo, pc, vChecks, fOk, inDtor,
          interrupted, added, verdict>>

(* "out" (master only): no CCheckQueueControl exists; "adding": one does.  *)
(* "lock": about to take the mutex at the head of Loop's do-while.         *)
PCs == {"out", "adding", "lock", "work", "wait", "woken", "exited"}

-----------------------------------------------------------------------------

Init ==
    /\ queue = {}
    /\ nIdle = 0
    /\ nTotal = 0
    /\ fAllOk = TRUE
    /\ nTodo = 0
    /\ pc = [t \in Threads |-> IF t = Master THEN "out" ELSE "lock"]
    /\ vChecks = [t \in Threads |-> {}]
    /\ fOk = [t \in Threads |-> TRUE]
    /\ inDtor = FALSE
    /\ interrupted = {}
    /\ added = {}
    /\ verdict = None

(* IsIdle(), which the CCheckQueueControl constructor asserts.             *)
IsIdle == nTotal = nIdle /\ nTodo = 0 /\ fAllOk

(* CCheckQueueControl(pqueue): the new round starts.                       *)
NewControl ==
    /\ pc[Master] = "out"
    /\ pc' = [pc EXCEPT ![Master] = "adding"]
    /\ added' = {}
    /\ verdict' = None
    /\ inDtor' = FALSE
    /\ UNCHANGED <<queue, nIdle, nTotal, fAllOk, nTodo, vChecks, fOk, interrupted>>

(* condWorker.notify_one() or notify_all(), by the number of checks added. *)
NotifyWorkers(n, p) ==
    LET waiting == {t \in Workers : p[t] = "wait"} IN
    IF n = 0 \/ waiting = {} THEN {p}
    ELSE IF n = 1 THEN {[p EXCEPT ![t] = "woken"] : t \in waiting}
    ELSE {[t \in Threads |-> IF t \in waiting THEN "woken" ELSE p[t]]}

(* Add(vChecks): the checks of one transaction's inputs.                   *)
Add(S) ==
    /\ pc[Master] = "adding"
    /\ queue' = queue \union S
    /\ nTodo' = nTodo + Cardinality(S)
    /\ pc' \in NotifyWorkers(Cardinality(S), pc)
    /\ added' = added \union S
    /\ UNCHANGED <<nIdle, nTotal, fAllOk, vChecks, fOk, inDtor, interrupted, verdict>>

(* ConnectBlock reaches control.Wait(), or returns early and the control's *)
(* destructor calls Wait() and drops the result.                           *)
Wait(early) ==
    /\ pc[Master] = "adding"
    /\ pc' = [pc EXCEPT ![Master] = "lock"]
    /\ inDtor' = early
    /\ UNCHANGED <<queue, nIdle, nTotal, fAllOk, nTodo, vChecks, fOk,
                   interrupted, added, verdict>>

-----------------------------------------------------------------------------
(* Loop.                                                                   *)

(* How many checks a thread takes when it finds the queue nonempty.        *)
BatchSize(size, total, idle) ==
    LET share == size \div (total + idle + 1)
        capped == IF share < nBatchSize THEN share ELSE nBatchSize
    IN  IF capped < 1 THEN 1 ELSE capped

(* Mutants of the three decisions below: the status is not reset for the   *)
(* next round; a batch is read from the queue but not popped; a thread     *)
(* that goes to sleep leaves the count of the threads in Loop.             *)
ReturnKeepsStatus(t, idle, total, ok, todo, p) ==
    /\ queue = {} /\ t = Master /\ todo = 0
    /\ nIdle' = idle
    /\ nTotal' = total - 1
    /\ fAllOk' = ok
    /\ nTodo' = todo
    /\ verdict' = IF inDtor THEN None ELSE ok
    /\ pc' = [p EXCEPT ![t] = "out"]
    /\ vChecks' = [vChecks EXCEPT ![t] = {}]
    /\ UNCHANGED <<queue, fOk>>

TakeWithoutPop(t, idle, total, ok, todo, p) ==
    /\ queue # {}
    /\ \E S \in SUBSET queue :
          /\ Cardinality(S) = BatchSize(Cardinality(queue), total, idle)
          /\ vChecks' = [vChecks EXCEPT ![t] = S]
    /\ nIdle' = idle
    /\ nTotal' = total
    /\ fAllOk' = ok
    /\ nTodo' = todo
    /\ fOk' = [fOk EXCEPT ![t] = ok]
    /\ pc' = [p EXCEPT ![t] = "work"]
    /\ UNCHANGED <<queue, verdict>>

BlockUncounted(t, idle, total, ok, todo, p) ==
    /\ queue = {} /\ ~(t = Master /\ todo = 0)
    /\ nIdle' = idle
    /\ nTotal' = total - 1
    /\ fAllOk' = ok
    /\ nTodo' = todo
    /\ pc' = [p EXCEPT ![t] = "wait"]
    /\ vChecks' = [vChecks EXCEPT ![t] = {}]
    /\ UNCHANGED <<queue, fOk, verdict>>

(* The rest of the critical section after the clean-up: return, wait, or   *)
(* take a batch. idle, total, ok and todo are the values the clean-up left *)
(* in nIdle, nTotal, fAllOk and nTodo; p is the pc after its notification. *)
Return(t, idle, total, ok, todo, p) ==
    /\ queue = {} /\ t = Master /\ todo = 0
    /\ nIdle' = idle
    /\ nTotal' = total - 1
    /\ fAllOk' = TRUE
    /\ nTodo' = todo
    /\ verdict' = IF inDtor THEN None ELSE ok
    /\ pc' = [p EXCEPT ![t] = "out"]
    /\ vChecks' = [vChecks EXCEPT ![t] = {}]
    /\ UNCHANGED <<queue, fOk>>

Block(t, idle, total, ok, todo, p) ==
    /\ queue = {} /\ ~(t = Master /\ todo = 0)
    /\ nIdle' = idle + 1
    /\ nTotal' = total
    /\ fAllOk' = ok
    /\ nTodo' = todo
    /\ pc' = [p EXCEPT ![t] = "wait"]
    /\ vChecks' = [vChecks EXCEPT ![t] = {}]
    /\ UNCHANGED <<queue, fOk, verdict>>

Take(t, idle, total, ok, todo, p) ==
    /\ queue # {}
    /\ \E S \in SUBSET queue :
          /\ Cardinality(S) = BatchSize(Cardinality(queue), total, idle)
          /\ vChecks' = [vChecks EXCEPT ![t] = S]
          /\ queue' = queue \ S
    /\ nIdle' = idle
    /\ nTotal' = total
    /\ fAllOk' = ok
    /\ nTodo' = todo
    /\ fOk' = [fOk EXCEPT ![t] = ok]
    /\ pc' = [p EXCEPT ![t] = "work"]
    /\ UNCHANGED verdict

Schedule(t, idle, total, ok, todo, p) ==
    /\ \/ Return(t, idle, total, ok, todo, p)
       \/ Block(t, idle, total, ok, todo, p)
       \/ Take(t, idle, total, ok, todo, p)
    /\ UNCHANGED <<inDtor, interrupted, added>>

(* Mutant: the notification is forgotten.                                  *)
NotifyNobody(t, todo, p) == p

(* The worker that completed the last check wakes the master.              *)
NotifyMaster(t, todo, p) ==
    IF todo = 0 /\ t # Master /\ p[Master] = "wait"
    THEN [p EXCEPT ![Master] = "woken"]
    ELSE p

(* First iteration of Loop: the thread counts itself in.                   *)
Enter(t) ==
    /\ pc[t] = "lock" /\ vChecks[t] = {}
    /\ Schedule(t, nIdle, nTotal + 1, fAllOk, nTodo, pc)

(* Mutant: the batch's result is not merged into fAllOk.                   *)
CompleteLosesResult(t) ==
    /\ pc[t] = "lock" /\ vChecks[t] # {}
    /\ LET todo == nTodo - Cardinality(vChecks[t]) IN
       Schedule(t, nIdle, nTotal, fAllOk, todo, NotifyMaster(t, todo, pc))

(* Clean-up of the previous run of the loop, then the next decision.       *)
Complete(t) ==
    /\ pc[t] = "lock" /\ vChecks[t] # {}
    /\ LET todo == nTodo - Cardinality(vChecks[t]) IN
       Schedule(t, nIdle, nTotal, fAllOk /\ fOk[t], todo,
                NotifyMaster(t, todo, pc))

(* cond.wait() returns with the mutex held.                                *)
Resume(t) ==
    /\ pc[t] = "woken"
    /\ Schedule(t, nIdle - 1, nTotal, fAllOk, nTodo, pc)

(* The batch is executed without the mutex, stopping at the first failure. *)
Execute(t) ==
    /\ pc[t] = "work"
    /\ fOk' = [fOk EXCEPT ![t] = @ /\ vChecks[t] \intersect Bad = {}]
    /\ pc' = [pc EXCEPT ![t] = "lock"]
    /\ UNCHANGED <<queue, nIdle, nTotal, fAllOk, nTodo, vChecks, inDtor,
                   interrupted, added, verdict>>

(* A condition variable may wake a waiter for no reason.                   *)
SpuriousWake(t) ==
    /\ pc[t] = "wait"
    /\ pc' = [pc EXCEPT ![t] = "woken"]
    /\ UNCHANGED <<queue, nIdle, nTotal, fAllOk, nTodo, vChecks, fOk, inDtor,
                   interrupted, added, verdict>>

(* Shutdown: boost throws thread_interrupted out of cond.wait(). Neither   *)
(* counter is put back. A worker ends; the exception leaves the master's   *)
(* Wait() with fDone false, so the control's destructor waits again (an    *)
(* interruption of the destructor's own wait aborts the process and is not *)
(* modelled).                                                              *)
Interrupt(t) ==
    /\ pc[t] \in {"wait", "woken"} /\ t \notin interrupted
    /\ t = Master => ~inDtor
    /\ interrupted' = interrupted \union {t}
    /\ IF t = Master
       THEN pc' = [pc EXCEPT ![t] = "lock"] /\ inDtor' = TRUE
       ELSE pc' = [pc EXCEPT ![t] = "exited"] /\ UNCHANGED inDtor
    /\ UNCHANGED <<queue, nIdle, nTotal, fAllOk, nTodo, vChecks, fOk, added, verdict>>

-----------------------------------------------------------------------------

ThreadStep(t) == Enter(t) \/ Complete(t) \/ Resume(t) \/ Execute(t)

Next ==
    \/ NewControl
    \/ \E S \in SUBSET (Checks \ added) : Add(S)
    \/ \E early \in BOOLEAN : Wait(early)
    \/ \E t \in Threads : ThreadStep(t) \/ SpuriousWake(t) \/ Interrupt(t)

Spec == Init /\ [][Next]_vars

(* The operating system runs every thread that can run.                    *)
FairSpec == Spec /\ \A t \in Threads : WF_vars(ThreadStep(t))

-----------------------------------------------------------------------------
(* Properties.                                                             *)

(* The batches and the queue: checks added and not yet completed.          *)
Outstanding ==
    {c \in Checks : c \in queue \/ \E t \in Threads : c \in vChecks[t]}

(* Threads that hold a batch.                                              *)
Active == {t \in Threads : vChecks[t] # {}}

(* Every variable of CCheckQueue and of Loop stays in its type; nTodo,     *)
(* nIdle and nTotal never go below zero (nTodo is unsigned in the code).   *)
TypeOK ==
    /\ queue \in SUBSET Checks
    /\ nIdle \in Nat /\ nTotal \in Nat /\ nTodo \in Nat
    /\ fAllOk \in BOOLEAN
    /\ pc \in [Threads -> PCs]
    /\ vChecks \in [Threads -> SUBSET Checks]
    /\ fOk \in [Threads -> BOOLEAN]
    /\ inDtor \in BOOLEAN
    /\ interrupted \in SUBSET Threads
    /\ added \in SUBSET Checks
    /\ verdict \in BOOLEAN \union {None}

(* What Wait() returns to ConnectBlock is TRUE exactly when every check    *)
(* added since the control was built evaluates to true: no check is lost   *)
(* between the threads, and no failure of an earlier round leaks in.       *)
VerdictCorrect ==
    verdict # None => (verdict <=> added \intersect Bad = {})

(* assert(isIdle) of the CCheckQueueControl constructor (checkqueue.h:188) *)
(* cannot fail: between two rounds no thread holds a batch, whatever was   *)
(* notified, woken spuriously or interrupted in the round before.          *)
IdleBetweenRounds == pc[Master] = "out" => IsIdle

(* No check is executed twice or dropped: the checks held by the threads   *)
(* and the queue are disjoint, and nTodo counts exactly them.              *)
TodoExact ==
    /\ nTodo = Cardinality(Outstanding)
    /\ \A t \in Threads : vChecks[t] \intersect queue = {}
    /\ \A t, u \in Threads : t # u => vChecks[t] \intersect vChecks[u] = {}

(* Once the master is in Loop it leaves it: the last worker's notify_one   *)
(* is never lost, also when workers are being interrupted.                 *)
WaitReturns == (pc[Master] \in {"lock", "work", "wait", "woken"}) ~> (pc[Master] = "out")

=============================================================================
