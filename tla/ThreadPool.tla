------------------------------ MODULE ThreadPool ------------------------------
(***************************************************************************)
(* Thread/ThreadPool.cpp and Thread/Thread.cpp: workers that take tasks    *)
(* from a deque, under a mutex and with a condition variable.              *)
(*                                                                         *)
(* A step is a critical section of m_mutex, or code without it.  A worker  *)
(* in wait() is waiting; one that is about to take the mutex, because it   *)
(* came from a task or was notified, is at lock.                           *)
(***************************************************************************)
EXTENDS Naturals, Sequences, FiniteSets, SequencesExt

CONSTANTS
    MaxSize,        \* bound on m_threadSize
    MaxTasks        \* bound on the tasks added

ASSUME MaxSizeAssumption == MaxSize \in Nat
ASSUME MaxTasksAssumption == MaxTasks \in Nat

Workers == 1 .. MaxSize
Tasks == 1 .. MaxTasks

VARIABLES
    size,           \* m_threadSize
    owner,          \* new, starting, up, joining (in the destructor), gone
    running,        \* m_running
    deque,          \* m_funcDeque, tasks numbered as they are added
    pc,             \* where each worker is
    added,          \* number of tasks added
    late,           \* history: tasks added while m_running was false
    failed          \* history: workers that an exception ended

vars == <<size, owner, running, deque, pc, added, late, failed>>

At(where) == {w \in Workers : pc[w] = where}

\* The workers of this pool, which start() creates.
Threads == 1 .. size

\* Somebody may call stop() or addThreadFuncQueue(): a client, which does not
\* once the destructor runs, or a task.
InUse == owner \in {"new", "starting", "up"} \/ At("task") # {}

Init ==
    /\ size \in 0 .. MaxSize
    /\ owner = "new" /\ running = FALSE
    /\ deque = <<>> /\ added = 0 /\ late = {} /\ failed = {}
    /\ pc = [w \in Workers |-> "unborn"]

-----------------------------------------------------------------------------
(* The thread that owns the pool *)

\* start(), up to its loop; without workers it calls the init callback itself.
Start ==
    /\ owner = "new"
    /\ running' = TRUE
    /\ owner' = IF size = 0 THEN "up" ELSE "starting"
    /\ late' = {}
    /\ UNCHANGED <<size, deque, pc, added, failed>>

\* One thread more than m_threadSize.
FaultStartThread ==
    /\ owner = "starting"
    /\ LET w == Cardinality(Workers \ At("unborn")) + 1
       IN  /\ pc' = [pc EXCEPT ![w] = "init"]
           /\ owner' = IF w > size THEN "up" ELSE "starting"
    /\ UNCHANGED <<size, running, deque, added, late, failed>>

\* Thread::start(), which returns when the thread runs.
StartThread ==
    /\ owner = "starting"
    /\ LET w == Cardinality(Workers \ At("unborn")) + 1
       IN  /\ pc' = [pc EXCEPT ![w] = "init"]
           /\ owner' = IF w = size THEN "up" ELSE "starting"
    /\ UNCHANGED <<size, running, deque, added, late, failed>>

\* stop() wakes one worker.
FaultNotifyAll ==
    \/ At("waiting") = {} /\ UNCHANGED pc
    \/ \E w \in At("waiting") : pc' = [pc EXCEPT ![w] = "lock"]

NotifyAll == pc' = [w \in Workers |-> IF pc[w] = "waiting" THEN "lock" ELSE pc[w]]

Stop ==
    /\ InUse
    /\ running' = FALSE
    /\ NotifyAll
    /\ UNCHANGED <<size, owner, deque, added, late, failed>>

\* ~ThreadPool(): stop(), and the beginning of the joins.
Destroy ==
    /\ owner \in {"new", "up"}
    /\ running' = FALSE
    /\ NotifyAll
    /\ owner' = "joining"
    /\ UNCHANGED <<size, deque, added, late, failed>>

\* Every Thread::join() has returned.
Join ==
    /\ owner = "joining"
    /\ At("unborn") \cup At("done") = Workers
    /\ owner' = "gone"
    /\ UNCHANGED <<size, running, deque, pc, added, late, failed>>

-----------------------------------------------------------------------------
(* Adding tasks *)

\* notify_one() only when the deque was empty.
FaultNotifyOne ==
    \/ (At("waiting") = {} \/ deque # <<>>) /\ UNCHANGED pc
    \/ \E w \in At("waiting") : deque = <<>> /\ pc' = [pc EXCEPT ![w] = "lock"]

\* The notification is forgotten.
FaultNoNotify == UNCHANGED pc

NotifyOne ==
    \/ At("waiting") = {} /\ UNCHANGED pc
    \/ \E w \in At("waiting") : pc' = [pc EXCEPT ![w] = "lock"]

AddThreadFuncQueue ==
    /\ InUse
    /\ added < MaxTasks
    /\ added' = added + 1
    /\ deque' = Append(deque, added')
    /\ late' = IF running THEN late ELSE late \cup {added'}
    /\ NotifyOne
    /\ UNCHANGED <<size, owner, running, failed>>

-----------------------------------------------------------------------------
(* runInThread() *)

Goto(w, where) == pc' = [pc EXCEPT ![w] = where]

\* m_threadInitCallback(), if there is one, returns.
InitReturns(w) ==
    /\ pc[w] = "init"
    /\ Goto(w, "lock")
    /\ UNCHANGED <<size, owner, running, deque, added, late, failed>>

\* A worker that finds a task takes it.
TakeTask(w) ==
    /\ pc[w] = "lock" /\ deque # <<>>
    /\ deque' = Tail(deque)
    /\ Goto(w, "task")
    /\ UNCHANGED <<size, owner, running, added, late, failed>>

\* A stopped pool is left whatever is in the deque.
FaultLeave(w) ==
    /\ pc[w] = "lock" /\ ~running
    /\ Goto(w, "done")
    /\ UNCHANGED <<size, owner, running, deque, added, late, failed>>

Leave(w) ==
    /\ pc[w] = "lock" /\ deque = <<>> /\ ~running
    /\ Goto(w, "done")
    /\ UNCHANGED <<size, owner, running, deque, added, late, failed>>

\* m_cond.wait(lock)
Wait(w) ==
    /\ pc[w] = "lock" /\ deque = <<>> /\ running
    /\ Goto(w, "waiting")
    /\ UNCHANGED <<size, owner, running, deque, added, late, failed>>

SpuriousWakeup(w) ==
    /\ pc[w] = "waiting"
    /\ Goto(w, "lock")
    /\ UNCHANGED <<size, owner, running, deque, added, late, failed>>

\* The task returns; one that is nullptr is not called.
TaskReturns(w) ==
    /\ pc[w] = "task"
    /\ Goto(w, "lock")
    /\ UNCHANGED <<size, owner, running, deque, added, late, failed>>

\* catch (...): a callback or task that throws ends its worker.
Catch(w) ==
    /\ pc[w] \in {"init", "task"}
    /\ Goto(w, "done")
    /\ failed' = failed \cup {w}
    /\ UNCHANGED <<size, owner, running, deque, added, late>>

-----------------------------------------------------------------------------
WorkerStep(w) ==
    InitReturns(w) \/ TakeTask(w) \/ Leave(w) \/ Wait(w) \/ TaskReturns(w) \/ Catch(w)

Next ==
    \/ Start \/ StartThread \/ Stop \/ Destroy \/ Join \/ AddThreadFuncQueue
    \/ \E w \in Workers : WorkerStep(w) \/ SpuriousWakeup(w)

Spec == Init /\ [][Next]_vars

\* Workers run and tasks end; the owner goes on with start() and with its
\* destructor.  Nobody has to add, stop or destroy, and nothing is expected of
\* spurious wakeups.
Fairness ==
    /\ WF_vars(StartThread) /\ WF_vars(Join)
    /\ \A w \in Workers : WF_vars(WorkerStep(w))

FairSpec == Spec /\ Fairness

-----------------------------------------------------------------------------
(* Properties *)

\* Type invariant.
TypeOK ==
    /\ size \in 0 .. MaxSize
    /\ owner \in {"new", "starting", "up", "joining", "gone"}
    /\ running \in BOOLEAN
    /\ deque \in Seq(Tasks)
    /\ pc \in [Workers -> {"unborn", "init", "lock", "waiting", "task", "done"}]
    /\ added \in 0 .. MaxTasks
    /\ late \subseteq Tasks /\ failed \subseteq Threads

\* While a worker waits there are no more tasks than workers on their way to
\* take one: notify_one() per task is enough, though a task may be taken by a
\* worker that was not notified, and although exceptions end workers.
NoIdleWorker == At("waiting") # {} => Len(deque) <= Cardinality(At("lock"))

\* Nobody waits in a pool that was stopped, so that the destructor's joins end:
\* stop() cannot come between a worker's look at m_running and its wait().
NobodyWaitsStopped == ~running => At("waiting") = {}

\* What was added before stop() (or before start()) has been taken when the destructor returns,
\* unless there were no workers or exceptions ended them all.
DrainedAtEnd == owner = "gone" /\ failed # Threads => ToSet(deque) \subseteq late

\* A task added between start() and stop() is taken, with the same exceptions.
TaskIsTaken ==
    \A t \in Tasks :
        t \in ToSet(deque) \ late ~>
            t \notin ToSet(deque) \/ failed = Threads

\* The destructor returns if tasks do (and do not add tasks for ever).
DestructorReturns == owner = "joining" ~> owner = "gone"
=============================================================================
