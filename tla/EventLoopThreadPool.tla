------------------------- MODULE EventLoopThreadPool -------------------------
(***************************************************************************)
(* EventLoopThreadPool and the EventLoopThreads it owns (with the Thread   *)
(* under them): start() starts the threads one after the other and waits   *)
(* for each to publish its EventLoop, getNextLoop() deals the loops out in *)
(* turn, and the destructor quits and joins them one after the other.      *)
(*                                                                         *)
(* The owner is the thread that starts and destroys the pool.  Thread i    *)
(* runs threadFunc(): its EventLoop is a local variable, and loop_ points  *)
(* to it between the two critical sections of mutex_.  Of EventLoop only   *)
(* quit_, the pending wakeup and the three points of loop() where they     *)
(* matter are kept; EventLoop.tla has the rest.                            *)
(***************************************************************************)
EXTENDS Naturals

CONSTANTS NumThreads,   \* numThreads_
          MaxCalls      \* bound on the calls of getNextLoop()

ASSUME NumThreadsAssumption == NumThreads \in Nat \ {0}
ASSUME MaxCallsAssumption == MaxCalls \in Nat

Loops == 0 .. NumThreads - 1

VARIABLES
    ownerPc,        \* where the owner is, with the thread number at
    at,
    next,           \* next_
    tpc,            \* where each thread is
    loopPtr,        \* loop_ # nullptr
    quit, woken,    \* quit_ of each EventLoop; its eventfd was written
    membersGone,    \* the members of the EventLoopThread are destroyed
    served,         \* history: how often getNextLoop() returned each loop
    selfQuit        \* history: code run by the loop itself called its quit()

owner == <<ownerPc, at>>
loopState == <<quit, woken>>
vars == <<owner, next, tpc, loopPtr, loopState, membersGone, served, selfQuit>>

-----------------------------------------------------------------------------
(* Vocabulary *)

OwnerPcs == {"start", "started", "lock", "waiting", "running",
             "dtor", "quit", "wake", "join", "destroy", "done"}
ThreadPcs == {"none", "begin", "callback", "publish", "enter", "check",
              "poll", "user", "clear", "unlock", "destruct", "exited"}

\* The EventLoop object exists: it is constructed before the init callback
\* and destroyed after the lock on mutex_ is released.
LoopAlive(i) == tpc[i] \notin {"none", "begin", "exited"}

\* Thread i is in loop(), past quit_ = false.
InLoop(i) == tpc[i] \in {"check", "poll", "user"}

MutexHeld(i) == tpc[i] = "unlock"

-----------------------------------------------------------------------------
Init ==
    /\ ownerPc = "start" /\ at = 0
    /\ next = 0
    /\ tpc = [i \in Loops |-> "none"]
    /\ loopPtr = [i \in Loops |-> FALSE]
    /\ quit = [i \in Loops |-> FALSE]
    /\ woken = [i \in Loops |-> FALSE]
    /\ membersGone = [i \in Loops |-> FALSE]
    /\ served = [i \in Loops |-> 0]
    /\ selfQuit = [i \in Loops |-> FALSE]

-----------------------------------------------------------------------------
(* Faulty variants of the steps below, to show that the properties notice:  *)
(* none of them is part of the specification.                               *)

\* The index runs one past the last loop.
FaultAdvance(n) == IF n + 1 > NumThreads THEN 0 ELSE n + 1

\* The last loop is never used.
FaultAdvanceEarly(n) == IF n + 2 >= NumThreads THEN 0 ELSE n + 1

\* threadFunc() publishes loop_ without notifying.
FaultPublish(i) ==
    /\ tpc[i] = "publish"
    /\ loopPtr' = [loopPtr EXCEPT ![i] = TRUE]
    /\ tpc' = [tpc EXCEPT ![i] = "enter"]
    /\ UNCHANGED <<owner, next, loopState, membersGone, served, selfQuit>>

\* loop() returns after one poll.
FaultLoopCheck(i) ==
    /\ tpc[i] = "check"
    /\ \/ ~quit[i] /\ tpc' = [tpc EXCEPT ![i] = "poll"]
       \/ tpc' = [tpc EXCEPT ![i] = "clear"]
    /\ UNCHANGED <<owner, next, loopPtr, loopState, membersGone, served, selfQuit>>

\* loop() does not look at quit_.
FaultLoopCheckIgnoresQuit(i) ==
    /\ tpc[i] = "check"
    /\ tpc' = [tpc EXCEPT ![i] = "poll"]
    /\ UNCHANGED <<owner, next, loopPtr, loopState, membersGone, served, selfQuit>>

\* threadFunc() leaves loop_ pointing to its local variable.
FaultClearLoop(i) ==
    /\ tpc[i] = "clear"
    /\ tpc' = [tpc EXCEPT ![i] = "unlock"]
    /\ UNCHANGED <<owner, next, loopPtr, loopState, membersGone, served, selfQuit>>

\* The destructor detaches instead of joining.
FaultJoin ==
    /\ ownerPc = "join"
    /\ ownerPc' = "destroy"
    /\ UNCHANGED <<at, next, tpc, loopPtr, loopState, membersGone, served, selfQuit>>

-----------------------------------------------------------------------------
(* EventLoopThreadPool::start(), with EventLoopThread::startLoop() *)

\* Thread::start() creates the thread, then waits for its sem_post.
StartThread ==
    /\ ownerPc = "start"
    /\ ownerPc' = "started"
    /\ tpc' = [tpc EXCEPT ![at] = "begin"]
    /\ UNCHANGED <<at, next, loopPtr, loopState, membersGone, served, selfQuit>>

SemWait ==
    /\ ownerPc = "started"
    /\ tpc[at] # "begin"
    /\ ownerPc' = "lock"
    /\ UNCHANGED <<at, next, tpc, loopPtr, loopState, membersGone, served, selfQuit>>

\* while (loop_ == nullptr) cond_.wait(lock), then the next thread.
TestLoop ==
    /\ ownerPc = "lock"
    /\ ~MutexHeld(at)
    /\ \/ ~loopPtr[at] /\ ownerPc' = "waiting" /\ UNCHANGED at
       \/ loopPtr[at] /\ at + 1 < NumThreads /\ ownerPc' = "start" /\ at' = at + 1
       \/ loopPtr[at] /\ at + 1 = NumThreads /\ ownerPc' = "running" /\ at' = 0
    /\ UNCHANGED <<next, tpc, loopPtr, loopState, membersGone, served, selfQuit>>

\* cond_.wait() may return without a notification.
SpuriousWakeup ==
    /\ ownerPc = "waiting"
    /\ ownerPc' = "lock"
    /\ UNCHANGED <<at, next, tpc, loopPtr, loopState, membersGone, served, selfQuit>>

-----------------------------------------------------------------------------
\* ++next_, back to 0 past the end.
Advance(n) == IF n + 1 >= NumThreads THEN 0 ELSE n + 1

GetNextLoop ==
    /\ ownerPc = "running"
    /\ served[next] < MaxCalls
    /\ served' = [served EXCEPT ![next] = @ + 1]
    /\ next' = Advance(next)
    /\ UNCHANGED <<owner, tpc, loopPtr, loopState, membersGone, selfQuit>>

-----------------------------------------------------------------------------
(* ~EventLoopThreadPool(): ~EventLoopThread() of each thread in turn *)

Destroy ==
    /\ ownerPc = "running"
    /\ ownerPc' = "dtor"
    /\ UNCHANGED <<at, next, tpc, loopPtr, loopState, membersGone, served, selfQuit>>

\* if (loop_ != nullptr), read without mutex_.
ReadLoop ==
    /\ ownerPc = "dtor"
    /\ ownerPc' = IF loopPtr[at] THEN "quit" ELSE "destroy"
    /\ UNCHANGED <<at, next, tpc, loopPtr, loopState, membersGone, served, selfQuit>>

\* loop_->quit(): quit_ = true.  A write to an EventLoop that is gone, here
\* and in WakeLoop, is left without effect; QuitsLiveLoop
\* and WakesLiveLoop are about it.
QuitLoop ==
    /\ ownerPc = "quit"
    /\ quit' = [quit EXCEPT ![at] = TRUE]
    /\ ownerPc' = "wake"
    /\ UNCHANGED <<at, next, tpc, loopPtr, woken, membersGone, served, selfQuit>>

\* ... and wakeup().
WakeLoop ==
    /\ ownerPc = "wake"
    /\ woken' = [woken EXCEPT ![at] = TRUE]
    /\ ownerPc' = "join"
    /\ UNCHANGED <<at, next, tpc, loopPtr, quit, membersGone, served, selfQuit>>

Join ==
    /\ ownerPc = "join"
    /\ tpc[at] = "exited"
    /\ ownerPc' = "destroy"
    /\ UNCHANGED <<at, next, tpc, loopPtr, loopState, membersGone, served, selfQuit>>

\* The members go: mutex_, cond_, and thread_, which detaches what was not joined.
DestroyMembers ==
    /\ ownerPc = "destroy"
    /\ membersGone' = [membersGone EXCEPT ![at] = TRUE]
    /\ IF at + 1 < NumThreads
       THEN ownerPc' = "dtor" /\ at' = at + 1
       ELSE ownerPc' = "done" /\ at' = at
    /\ UNCHANGED <<next, tpc, loopPtr, loopState, served, selfQuit>>

-----------------------------------------------------------------------------
(* EventLoopThread::threadFunc() *)

\* Thread i moves on and changes nothing else.
Goto(i, from, to) ==
    /\ tpc[i] = from
    /\ tpc' = [tpc EXCEPT ![i] = to]
    /\ UNCHANGED <<owner, next, loopPtr, loopState, membersGone, served, selfQuit>>

\* sem_post, then the constructor of the local EventLoop.
BeginThread(i) == Goto(i, "begin", "callback")

\* callback_(&loop), if there is one, returns.
InitCallback(i) == Goto(i, "callback", "publish")

\* loop_ = &loop and notify_one() under mutex_.
Publish(i) ==
    /\ tpc[i] = "publish"
    /\ loopPtr' = [loopPtr EXCEPT ![i] = TRUE]
    /\ ownerPc' = IF ownerPc = "waiting" /\ at = i THEN "lock" ELSE ownerPc
    /\ tpc' = [tpc EXCEPT ![i] = "enter"]
    /\ UNCHANGED <<at, next, loopState, membersGone, served, selfQuit>>

\* loop(): quit_ = false.
EnterLoop(i) ==
    /\ tpc[i] = "enter"
    /\ quit' = [quit EXCEPT ![i] = FALSE]
    /\ tpc' = [tpc EXCEPT ![i] = "check"]
    /\ UNCHANGED <<owner, next, loopPtr, woken, membersGone, served, selfQuit>>

\* while (!quit_)
LoopCheck(i) == Goto(i, "check", IF quit[i] THEN "clear" ELSE "poll")

\* epoll_wait returns for the wakeup, which handleRead() reads; the functors
\* and other callbacks of the iteration follow.
PollWoken(i) ==
    /\ tpc[i] = "poll"
    /\ woken[i]
    /\ woken' = [woken EXCEPT ![i] = FALSE]
    /\ tpc' = [tpc EXCEPT ![i] = "user"]
    /\ UNCHANGED <<owner, next, loopPtr, quit, membersGone, served, selfQuit>>

\* epoll_wait returns for another channel, or after its ten seconds, and the
\* callbacks and functors of this iteration run.
PollOther(i) == Goto(i, "poll", "user")

UserReturns(i) == Goto(i, "user", "check")

\* The init callback, a channel's callback or a functor calls quit().
QuitSelf(i) ==
    /\ tpc[i] \in {"callback", "user"}
    /\ ~quit[i]
    /\ quit' = [quit EXCEPT ![i] = TRUE]
    /\ selfQuit' = [selfQuit EXCEPT ![i] = TRUE]
    /\ UNCHANGED <<owner, next, tpc, loopPtr, woken, membersGone, served>>

\* loop_ = nullptr with mutex_ held; the lock ends with the function's scope.
ClearLoop(i) ==
    /\ tpc[i] = "clear"
    /\ loopPtr' = [loopPtr EXCEPT ![i] = FALSE]
    /\ tpc' = [tpc EXCEPT ![i] = "unlock"]
    /\ UNCHANGED <<owner, next, loopState, membersGone, served, selfQuit>>

Unlock(i) == Goto(i, "unlock", "destruct")

\* ~EventLoop() of the local variable.
DestructLoop(i) == Goto(i, "destruct", "exited")

-----------------------------------------------------------------------------
OwnerStep == \/ StartThread
             \/ SemWait
             \/ TestLoop
             \/ ReadLoop
             \/ QuitLoop
             \/ WakeLoop
             \/ Join
             \/ DestroyMembers

ThreadStep(i) == \/ BeginThread(i)
                 \/ InitCallback(i)
                 \/ Publish(i)
                 \/ EnterLoop(i)
                 \/ LoopCheck(i)
                 \/ PollWoken(i)
                 \/ UserReturns(i)
                 \/ ClearLoop(i)
                 \/ Unlock(i)
                 \/ DestructLoop(i)

Next == \/ OwnerStep
        \/ SpuriousWakeup
        \/ GetNextLoop
        \/ Destroy
        \/ \E i \in Loops : ThreadStep(i) \/ PollOther(i) \/ QuitSelf(i)

Spec == Init /\ [][Next]_vars

\* Every thread is scheduled and callbacks return.  Nobody has to destroy the
\* pool, no channel has to become ready, and no wait has to end spuriously.
Fairness == WF_vars(OwnerStep) /\ \A i \in Loops : WF_vars(ThreadStep(i))

FairSpec == Spec /\ Fairness

-----------------------------------------------------------------------------
(* Properties *)

\* Type invariant.
TypeOK ==
    /\ ownerPc \in OwnerPcs /\ at \in Loops /\ next \in Loops
    /\ tpc \in [Loops -> ThreadPcs]
    /\ {loopPtr, quit, woken, membersGone, selfQuit} \subseteq [Loops -> BOOLEAN]
    /\ served \in [Loops -> 0 .. MaxCalls]

\* loop_ never points to an EventLoop that is not constructed yet or already
\* destroyed: it is cleared before the local variable goes.
PublishedLoopAlive == \A i \in Loops : loopPtr[i] => LoopAlive(i)

\* The destructor reads loop_ without the lock and then stores through it
\* (EventLoopThread.cpp:27-29); the EventLoop is still there unless it quit by
\* itself meanwhile.
QuitsLiveLoop == ownerPc = "quit" => (LoopAlive(at) \/ selfQuit[at])

\* mutex_, cond_ and loop_ are not destroyed while threadFunc() still has to
\* use them, unless the loop quit by itself and was not joined.
MembersOutliveThread ==
    \A i \in Loops :
        membersGone[i] => \/ tpc[i] = "exited"
                          \/ selfQuit[i] /\ tpc[i] \in {"unlock", "destruct"}

\* Round robin: no loop is ever given two connections more than another.
Balanced == \A i, j \in Loops : served[i] <= served[j] + 1

\* startLoop() never misses the notification, so start() returns, unless a
\* loop quits by itself before it was noticed.
StartReturns ==
    ownerPc = "start" ~> (ownerPc = "running" \/ \E i \in Loops : selfQuit[i])

\* A quit() that finds loop() past quit_ = false ends the thread.
QuitEndsThread == \A i \in Loops : (InLoop(i) /\ quit[i] /\ woken[i]) ~> tpc[i] = "exited"

-----------------------------------------------------------------------------
(* What a comment and a test expect and the code does not do; each is       *)
(* refuted by a run.                                                        *)

\* EventLoop.cpp:88-89: a quit() from another thread calls wakeup() to get
\* the loop out of the poll, "then it exits".  The loop may see quit_ and
\* exit first, and wakeup() reads the wakeupFd_ of a destroyed EventLoop.
WakesLiveLoop == ownerPc = "wake" => (LoopAlive(at) \/ selfQuit[at])

\* tests/eventLoopThread_unitTest.cpp:71-84 starts a pool, destroys it at once
\* and goes on.  A quit() that arrives before loop() clears quit_ is lost, and
\* the destructor's join() waits for ever.
DestructorReturns == ownerPc = "dtor" ~> ownerPc = "done"
=============================================================================
