------------------------------ MODULE EventLoop ------------------------------
(***************************************************************************)
(* EventLoop (EventLoop.h, EventLoop.cpp): one thread runs loop(): it      *)
(* blocks in epoll_wait, dispatches the channels that became ready, then   *)
(* runs the functors other threads left in pendingFunctor_.  Any thread    *)
(* may call queueInLoop(), runInLoop() and quit(); the eventfd wakeupFd_   *)
(* gets the loop thread out of epoll_wait.                                 *)
(*                                                                         *)
(* Atomicity.  A critical section of mutex_ holds one access to            *)
(* pendingFunctor_, so it is one step.  Every other access to a variable   *)
(* two threads share (quit_, the eventfd) is a step of its own.            *)
(* callingPendingFunctor_ is read and written by the loop thread alone:    *)
(* the test in queueInLoop() reads it only when isInLoopThread() holds.    *)
(*                                                                         *)
(* runInLoop() from another thread is queueInLoop(); from the loop thread  *)
(* it calls cb() in place, so the calls cb makes are calls of the          *)
(* enclosing callback and need no step of their own.  looping_ is written  *)
(* once and never read, and is left out.                                   *)
(***************************************************************************)
EXTENDS Naturals, Sequences

CONSTANTS
    Threads,    \* the threads other than the loop's own
    Tasks,      \* functors; each is in the queue at most once at a time
    NoTask,     \* not a functor
    MaxCount    \* the largest value the eventfd's counter can hold

ASSUME MaxCountAssumption == MaxCount \in Nat \ {0}
ASSUME NoTaskAssumption == NoTask \notin Tasks

VARIABLES
    loopPc,                 \* where the loop thread is
    active,                 \* activeChannels_ not dispatched yet
    functors,               \* the local vector of doPendingFunctors()
    current,                \* the functor being executed
    callingPendingFunctor,
    pendingFunctor,
    quit,
    wakeupFd,               \* counter of the eventfd
    ioReady,                \* some other fd of this loop is ready
    pc,                     \* where each other thread is
    unannounced             \* history: see OwnerQueueInLoop

batch == <<functors, current, callingPendingFunctor>>
shared == <<pendingFunctor, quit, wakeupFd>>
others == <<ioReady, pc, unannounced>>
vars == <<loopPc, active, batch, shared, others>>

-----------------------------------------------------------------------------
(* Vocabulary *)

LoopPcs == {"out", "enter", "check", "poll", "handle", "callback",
            "swap", "run", "functor"}
Channels == {"wakeup", "io"}

Elements(s) == {s[i] : i \in DOMAIN s}

\* The functors in either vector.
Queued == Elements(functors) \cup Elements(pendingFunctor)

\* The loop thread is executing code of the user: before or after loop(), in
\* a channel's callback, or in a functor.
InUserCode == loopPc \in {"out", "callback", "functor"}

\* The channels epoll_wait finds ready: level triggered, so the eventfd stays
\* ready until its counter is read.
Ready == (IF wakeupFd > 0 THEN {"wakeup"} ELSE {})
           \cup (IF ioReady THEN {"io"} ELSE {})

\* write(wakeupFd_, 1): a non-blocking write to a full counter fails with
\* EAGAIN, which wakeup() ignores.
Bumped == IF wakeupFd < MaxCount THEN wakeupFd + 1 ELSE wakeupFd

-----------------------------------------------------------------------------
Init ==
    /\ loopPc = "out"
    /\ active = {}
    /\ functors = <<>>
    /\ current = NoTask
    /\ callingPendingFunctor = FALSE
    /\ pendingFunctor = <<>>
    /\ quit = FALSE
    /\ wakeupFd = 0
    /\ ioReady = FALSE
    /\ pc = [p \in Threads |-> "idle"]
    /\ unannounced = {}

-----------------------------------------------------------------------------
(* Faulty variants of the steps below, to show that the properties notice:  *)
(* none of them is part of the specification.                               *)

\* queueInLoop() puts the functor in front.
FaultQueueFront(p, t) ==
    /\ pc[p] = "idle"
    /\ t \notin Queued
    /\ pendingFunctor' = <<t>> \o pendingFunctor
    /\ pc' = [pc EXCEPT ![p] = "wake"]
    /\ UNCHANGED <<loopPc, active, batch, quit, wakeupFd, ioReady, unannounced>>

\* quit() forgets wakeup().
FaultQuitNoWake(p) ==
    /\ pc[p] = "idle"
    /\ quit' = TRUE
    /\ UNCHANGED <<loopPc, active, batch, pendingFunctor, wakeupFd, others>>

\* wakeup() counts beyond what an eventfd can hold.
FaultWakeupOverflows(p) ==
    /\ pc[p] \in {"wake", "quitWake"}
    /\ wakeupFd' = wakeupFd + 1
    /\ pc' = [pc EXCEPT ![p] = "idle"]
    /\ UNCHANGED <<loopPc, active, batch, pendingFunctor, quit, ioReady, unannounced>>

\* queueInLoop() without "|| callingPendingFunctor_".
FaultOwnerQueueNoFlag(t) ==
    /\ InUserCode
    /\ t \notin Queued
    /\ pendingFunctor' = Append(pendingFunctor, t)
    /\ unannounced' = IF loopPc = "out" THEN unannounced \cup {t} ELSE unannounced
    /\ UNCHANGED <<loopPc, active, batch, quit, wakeupFd, ioReady, pc>>

\* doPendingFunctors() iterates over pendingFunctor_ itself, so a functor's
\* functors join the batch.
FaultOwnerQueueIntoBatch(t) ==
    /\ InUserCode
    /\ t \notin Queued
    /\ IF loopPc = "functor"
       THEN functors' = Append(functors, t) /\ UNCHANGED <<pendingFunctor, unannounced>>
       ELSE /\ pendingFunctor' = Append(pendingFunctor, t)
            /\ unannounced' =
                 IF loopPc = "out" THEN unannounced \cup {t} ELSE unannounced
            /\ UNCHANGED functors
    /\ UNCHANGED <<loopPc, active, current, callingPendingFunctor,
                   quit, wakeupFd, ioReady, pc>>

\* for (;;) in place of while (!quit_).
FaultCheckIgnoresQuit ==
    /\ loopPc = "check"
    /\ loopPc' = "poll"
    /\ UNCHANGED <<active, batch, shared, others>>

\* The eventfd is emptied once more after the swap.
FaultReadAfterRun ==
    /\ loopPc = "run"
    /\ functors = <<>>
    /\ callingPendingFunctor' = FALSE
    /\ wakeupFd' = 0
    /\ loopPc' = "check"
    /\ UNCHANGED <<active, functors, current, pendingFunctor, quit, others>>

-----------------------------------------------------------------------------
(* The calls of other threads *)

\* queueInLoop(), and runInLoop(), up to the call of wakeup().
QueueInLoop(p, t) ==
    /\ pc[p] = "idle"
    /\ t \notin Queued
    /\ pendingFunctor' = Append(pendingFunctor, t)
    /\ pc' = [pc EXCEPT ![p] = "wake"]
    /\ UNCHANGED <<loopPc, active, batch, quit, wakeupFd, ioReady, unannounced>>

\* quit() up to the call of wakeup().
QuitFrom(p) ==
    /\ pc[p] = "idle"
    /\ quit' = TRUE
    /\ pc' = [pc EXCEPT ![p] = "quitWake"]
    /\ UNCHANGED <<loopPc, active, batch, pendingFunctor, wakeupFd, ioReady, unannounced>>

\* wakeup(), the last thing both calls do.
Wakeup(p) ==
    /\ pc[p] \in {"wake", "quitWake"}
    /\ wakeupFd' = Bumped
    /\ pc' = [pc EXCEPT ![p] = "idle"]
    /\ UNCHANGED <<loopPc, active, batch, pendingFunctor, quit, ioReady, unannounced>>

\* Data arrives, a timer expires, a peer connects: some other fd is ready.
IoArrives ==
    /\ ~ioReady
    /\ ioReady' = TRUE
    /\ UNCHANGED <<loopPc, active, batch, shared, pc, unannounced>>

-----------------------------------------------------------------------------
(* The calls user code makes on the loop's own thread *)

\* queueInLoop() in the loop thread wakes the poll only while functors run.
\* unannounced remembers the functors queued outside loop(), for which
\* nothing was written to the eventfd.
OwnerQueueInLoop(t) ==
    /\ InUserCode
    /\ t \notin Queued
    /\ pendingFunctor' = Append(pendingFunctor, t)
    /\ wakeupFd' = IF callingPendingFunctor THEN Bumped ELSE wakeupFd
    /\ unannounced' = IF loopPc = "out" THEN unannounced \cup {t} ELSE unannounced
    /\ UNCHANGED <<loopPc, active, batch, quit, ioReady, pc>>

\* quit() in the loop thread does not touch the eventfd.
OwnerQuit ==
    /\ InUserCode
    /\ quit' = TRUE
    /\ UNCHANGED <<loopPc, active, batch, pendingFunctor, wakeupFd, others>>

-----------------------------------------------------------------------------
(* loop() *)

\* looping_ = true
LoopEnter ==
    /\ loopPc = "out"
    /\ loopPc' = "enter"
    /\ UNCHANGED <<active, batch, shared, others>>

\* quit_ = false
LoopResetQuit ==
    /\ loopPc = "enter"
    /\ quit' = FALSE
    /\ loopPc' = "check"
    /\ UNCHANGED <<active, batch, pendingFunctor, wakeupFd, others>>

\* while (!quit_), then activeChannels_.clear()
LoopCheck ==
    /\ loopPc = "check"
    /\ loopPc' = IF quit THEN "out" ELSE "poll"
    /\ UNCHANGED <<active, batch, shared, others>>

\* epoll_wait reports every ready channel.
PollReturn ==
    /\ loopPc = "poll"
    /\ Ready # {}
    /\ active' = Ready
    /\ loopPc' = "handle"
    /\ UNCHANGED <<batch, shared, others>>

\* kPollTimeMs went by, or a signal interrupted epoll_wait: no channel.
PollTimeout ==
    /\ loopPc = "poll"
    /\ Ready = {}
    /\ loopPc' = "handle"
    /\ UNCHANGED <<active, batch, shared, others>>

\* EventLoop::handleRead(): reading the eventfd sets its counter to zero.
HandleRead ==
    /\ loopPc = "handle"
    /\ "wakeup" \in active
    /\ active' = active \ {"wakeup"}
    /\ wakeupFd' = 0
    /\ UNCHANGED <<loopPc, batch, pendingFunctor, quit, others>>

\* handleEvent() of another channel: its callback consumes the event and is
\* user code until it returns.
HandleIo ==
    /\ loopPc = "handle"
    /\ "io" \in active
    /\ active' = active \ {"io"}
    /\ ioReady' = FALSE
    /\ loopPc' = "callback"
    /\ UNCHANGED <<batch, shared, pc, unannounced>>

CallbackReturn ==
    /\ loopPc = "callback"
    /\ loopPc' = "handle"
    /\ UNCHANGED <<active, batch, shared, others>>

-----------------------------------------------------------------------------
(* doPendingFunctors() *)

BeginPending ==
    /\ loopPc = "handle"
    /\ active = {}
    /\ callingPendingFunctor' = TRUE
    /\ loopPc' = "swap"
    /\ UNCHANGED <<active, functors, current, shared, others>>

\* functors.swap(pendingFunctor_) under mutex_
SwapPending ==
    /\ loopPc = "swap"
    /\ functors' = pendingFunctor
    /\ pendingFunctor' = functors
    /\ unannounced' = {}
    /\ loopPc' = "run"
    /\ UNCHANGED <<active, current, callingPendingFunctor, quit, wakeupFd, ioReady, pc>>

\* The next turn of the for loop: functor() is user code until it returns.
RunFunctor ==
    /\ loopPc = "run"
    /\ functors # <<>>
    /\ current' = Head(functors)
    /\ functors' = Tail(functors)
    /\ loopPc' = "functor"
    /\ UNCHANGED <<active, callingPendingFunctor, shared, others>>

FunctorReturn ==
    /\ loopPc = "functor"
    /\ current' = NoTask
    /\ loopPc' = "run"
    /\ UNCHANGED <<active, functors, callingPendingFunctor, shared, others>>

EndPending ==
    /\ loopPc = "run"
    /\ functors = <<>>
    /\ callingPendingFunctor' = FALSE
    /\ loopPc' = "check"
    /\ UNCHANGED <<active, functors, current, shared, others>>

-----------------------------------------------------------------------------
\* What the loop thread does by itself once it is in loop().  Entering loop()
\* and the expiry of the poll's ten seconds are kept out of it.
LoopStep ==
    \/ LoopResetQuit
    \/ LoopCheck
    \/ PollReturn
    \/ HandleRead
    \/ HandleIo
    \/ CallbackReturn
    \/ BeginPending
    \/ SwapPending
    \/ RunFunctor
    \/ FunctorReturn
    \/ EndPending

OwnerCall == OwnerQuit \/ \E t \in Tasks : OwnerQueueInLoop(t)

ThreadStep(p) == \/ QuitFrom(p)
                 \/ Wakeup(p)
                 \/ \E t \in Tasks : QueueInLoop(p, t)

Next == \/ LoopEnter
        \/ LoopStep
        \/ PollTimeout
        \/ OwnerCall
        \/ IoArrives
        \/ \E p \in Threads : ThreadStep(p)

Spec == Init /\ [][Next]_vars

\* The scheduler runs the loop thread, whose callbacks return, and lets a
\* thread inside queueInLoop() or quit() finish the call.  Nobody has to call
\* anything, and no progress may rest on the poll's timeout.
Fairness == WF_vars(LoopStep) /\ \A p \in Threads : WF_vars(Wakeup(p))

FairSpec == Spec /\ Fairness

-----------------------------------------------------------------------------
(* Properties *)

\* Type invariant of the loop, of the callers and of the eventfd.
TypeOK ==
    /\ loopPc \in LoopPcs
    /\ active \subseteq Channels
    /\ functors \in Seq(Tasks)
    /\ current \in Tasks \cup {NoTask}
    /\ callingPendingFunctor \in BOOLEAN
    /\ pendingFunctor \in Seq(Tasks)
    /\ quit \in BOOLEAN
    /\ wakeupFd \in 0 .. MaxCount
    /\ ioReady \in BOOLEAN
    /\ pc \in [Threads -> {"idle", "wake", "quitWake"}]
    /\ unannounced \subseteq Tasks

\* A wakeup that epoll_wait has not consumed is written or about to be.
WakeupInFlight == wakeupFd > 0 \/ \E p \in Threads : pc[p] # "idle"

\* Nothing is pending that somebody has to be woken for.
NothingAnnounced == \A i \in DOMAIN pendingFunctor : pendingFunctor[i] \in unannounced

\* When the loop thread is in epoll_wait, a functor queued by another thread,
\* or by the loop thread inside loop(), has a wakeup on its way: queueInLoop's
\* test (EventLoop.cpp:118) and the order read-eventfd, swap, run never lose
\* one, whatever the interleaving and even when the counter is full.
NoLostWakeup == loopPc = "poll" => NothingAnnounced \/ WakeupInFlight

\* A quit() that finds the loop thread in epoll_wait gets it out: quit_ is
\* never true in a poll nobody is going to wake (EventLoop.cpp:84-95).
QuitReachesPoll == loopPc = "poll" /\ quit => WakeupInFlight

\* The two vectors, the flag and the program counter together are the queue
\* of FunctorQueue: no functor is lost, run twice or overtaken by a later one.
FunctorOrder == INSTANCE FunctorQueue
                  WITH queue <- functors \o pendingFunctor, running <- current
ImplementsFunctorQueue == FunctorOrder!Spec

InLoop == loopPc \notin {"out", "enter"}

\* A functor queued while the loop runs is executed without the help of the
\* poll's timeout, unless somebody stops the loop (EventLoop.h:46-48).
QueuedFunctorRuns ==
    \A t \in Tasks :
        InLoop /\ t \in Elements(pendingFunctor) \ unannounced
            ~> current = t \/ loopPc = "out"

\* quit() during loop(), from any thread, makes loop() return: the quit_ it
\* sets is seen at the top of the next iteration (EventLoop.cpp:68).
QuitEndsLoop == InLoop /\ quit ~> loopPc = "out"

\* Functors that queue functors for ever do not keep the loop from its other
\* channels: doPendingFunctors() runs only the batch it swapped out.
IoNotStarved == InLoop /\ ioReady ~> loopPc \in {"callback", "out"}

=============================================================================
