--------------------------- MODULE EventLoopProofs ---------------------------
(***************************************************************************)
(* Proofs about EventLoop for any set of threads, any set of functors and  *)
(* any capacity of the eventfd: its types, that no wakeup is lost, and     *)
(* that it implements FunctorQueue.                                        *)
(***************************************************************************)
EXTENDS EventLoop, SequenceTheorems, TLAPS

\* The flag, the running functor and the batch go with the program counter.
PhaseInv ==
    /\ callingPendingFunctor <=> loopPc \in {"swap", "run", "functor"}
    /\ current # NoTask <=> loopPc = "functor"
    /\ functors # <<>> => loopPc \in {"run", "functor"}

\* NoLostWakeup holds in epoll_wait because it holds from the swap on, all
\* the way back to epoll_wait; only between the read of the eventfd and the
\* swap may a functor be pending with no wakeup on its way.
WakeInv ==
    /\ loopPc \notin {"handle", "callback", "swap"} =>
           NothingAnnounced \/ WakeupInFlight
    /\ QuitReachesPoll

-----------------------------------------------------------------------------
\* Every variable keeps its type (the program counters, the two vectors, the
\* eventfd within what it can hold).
THEOREM TypeCorrect == Spec => []TypeOK
<1> USE MaxCountAssumption, NoTaskAssumption DEF TypeOK, LoopPcs, Channels
<1>1. Init => TypeOK
  <2> SUFFICES ASSUME Init PROVE TypeOK
    OBVIOUS
  <2>1. <<>> \in Seq(Tasks) /\ 0 \in 0 .. MaxCount
    BY EmptySeq
  <2>2. [p \in Threads |-> "idle"] \in [Threads -> {"idle", "wake", "quitWake"}]
    OBVIOUS
  <2> QED
    BY <2>1, <2>2 DEF Init
<1>2. TypeOK /\ [Next]_vars => TypeOK'
  <2> SUFFICES ASSUME TypeOK, [Next]_vars PROVE TypeOK'
    OBVIOUS
  <2>1. CASE LoopEnter
    BY <2>1 DEF LoopEnter, batch, shared, others
  <2>2. CASE LoopStep
    <3>1. CASE LoopResetQuit
      BY <3>1 DEF LoopResetQuit, batch, others
    <3>2. CASE LoopCheck
      BY <3>2 DEF LoopCheck, batch, shared, others
    <3>3. CASE PollReturn
      BY <3>3 DEF PollReturn, Ready, batch, shared, others
    <3>4. CASE HandleRead
      BY <3>4 DEF HandleRead, batch, others
    <3>5. CASE HandleIo
      BY <3>5 DEF HandleIo, batch, shared
    <3>6. CASE CallbackReturn
      BY <3>6 DEF CallbackReturn, batch, shared, others
    <3>7. CASE BeginPending
      BY <3>7 DEF BeginPending, shared, others
    <3>8. CASE SwapPending
      BY <3>8 DEF SwapPending
    <3>9. CASE RunFunctor
      BY <3>9, HeadTailProperties DEF RunFunctor, shared, others
    <3>10. CASE FunctorReturn
      BY <3>10 DEF FunctorReturn, shared, others
    <3>11. CASE EndPending
      BY <3>11 DEF EndPending, shared, others
    <3> QED
      BY <2>2, <3>1, <3>2, <3>3, <3>4, <3>5, <3>6, <3>7, <3>8, <3>9, <3>10, <3>11
         DEF LoopStep
  <2>3. CASE PollTimeout
    BY <2>3 DEF PollTimeout, batch, shared, others
  <2>4. CASE OwnerQuit
    BY <2>4 DEF OwnerQuit, batch, others
  <2>5. ASSUME NEW t \in Tasks, OwnerQueueInLoop(t)
        PROVE  TypeOK'
    BY <2>5, AppendProperties DEF OwnerQueueInLoop, Bumped, batch
  <2>6. CASE IoArrives
    BY <2>6 DEF IoArrives, batch, shared
  <2>7. ASSUME NEW p \in Threads, QuitFrom(p)
        PROVE  TypeOK'
    BY <2>7 DEF QuitFrom, batch
  <2>8. ASSUME NEW p \in Threads, Wakeup(p)
        PROVE  TypeOK'
    BY <2>8 DEF Wakeup, Bumped, batch
  <2>9. ASSUME NEW p \in Threads, NEW t \in Tasks, QueueInLoop(p, t)
        PROVE  TypeOK'
    BY <2>9, AppendProperties DEF QueueInLoop, batch
  <2>10. CASE UNCHANGED vars
    BY <2>10 DEF vars, batch, shared, others
  <2> QED
    BY <2>1, <2>2, <2>3, <2>4, <2>5, <2>6, <2>7, <2>8, <2>9, <2>10
       DEF Next, OwnerCall, ThreadStep
<1>3. QED
  BY <1>1, <1>2, PTL DEF Spec

-----------------------------------------------------------------------------
\* The flag callingPendingFunctor_ is true, a functor is running and the batch
\* holds functors only where doPendingFunctors() says so.
LEMMA PhaseCorrect == Spec => []PhaseInv
<1> USE NoTaskAssumption DEF PhaseInv
<1>1. Init => PhaseInv
  BY DEF Init
<1>2. TypeOK /\ PhaseInv /\ [Next]_vars => PhaseInv'
  <2> SUFFICES ASSUME TypeOK, PhaseInv, [Next]_vars PROVE PhaseInv'
    OBVIOUS
  <2>1. CASE LoopStep
    <3>1. CASE LoopResetQuit \/ LoopCheck \/ PollReturn \/ CallbackReturn
      BY <3>1 DEF LoopResetQuit, LoopCheck, PollReturn, CallbackReturn, batch
    <3>2. CASE HandleRead \/ HandleIo
      BY <3>2 DEF HandleRead, HandleIo, batch
    <3>3. CASE BeginPending \/ EndPending
      BY <3>3 DEF BeginPending, EndPending
    <3>4. CASE SwapPending
      BY <3>4 DEF SwapPending
    <3>5. CASE RunFunctor
      BY <3>5, HeadTailProperties DEF RunFunctor, TypeOK
    <3>6. CASE FunctorReturn
      BY <3>6 DEF FunctorReturn
    <3> QED
      BY <2>1, <3>1, <3>2, <3>3, <3>4, <3>5, <3>6 DEF LoopStep
  <2>2. CASE LoopEnter \/ PollTimeout \/ IoArrives
    BY <2>2 DEF LoopEnter, PollTimeout, IoArrives, batch
  <2>3. CASE OwnerCall
    BY <2>3 DEF OwnerCall, OwnerQuit, OwnerQueueInLoop, batch
  <2>4. ASSUME NEW p \in Threads, ThreadStep(p)
        PROVE  PhaseInv'
    BY <2>4 DEF ThreadStep, QuitFrom, Wakeup, QueueInLoop, batch
  <2>5. CASE UNCHANGED vars
    BY <2>5 DEF vars, batch
  <2> QED
    BY <2>1, <2>2, <2>3, <2>4, <2>5 DEF Next
<1>3. QED
  BY <1>1, <1>2, TypeCorrect, PTL DEF Spec

-----------------------------------------------------------------------------
\* The loop thread never blocks in epoll_wait on a functor that was queued
\* with a wakeup, or on a quit(), while no wakeup is on its way.
THEOREM WakeupsReachThePoll == Spec => [](NoLostWakeup /\ QuitReachesPoll)
<1> USE MaxCountAssumption
    DEF WakeInv, NothingAnnounced, WakeupInFlight, QuitReachesPoll
<1>1. Init => WakeInv
  BY DEF Init
<1>2. TypeOK /\ PhaseInv /\ WakeInv /\ [Next]_vars => WakeInv'
  <2> SUFFICES ASSUME TypeOK, PhaseInv, WakeInv, [Next]_vars PROVE WakeInv'
    OBVIOUS
  <2>1. CASE LoopStep
    <3>1. CASE LoopResetQuit \/ LoopCheck
      BY <3>1 DEF LoopResetQuit, LoopCheck, shared, others
    <3>2. CASE PollReturn \/ HandleRead \/ HandleIo \/ CallbackReturn \/ BeginPending
      BY <3>2 DEF PollReturn, HandleRead, HandleIo, CallbackReturn, BeginPending
    <3>3. CASE SwapPending
      BY <3>3 DEF SwapPending, PhaseInv
    <3>4. CASE RunFunctor \/ FunctorReturn \/ EndPending
      BY <3>4 DEF RunFunctor, FunctorReturn, EndPending, shared, others
    <3> QED
      BY <2>1, <3>1, <3>2, <3>3, <3>4 DEF LoopStep
  <2>2. CASE LoopEnter \/ PollTimeout \/ IoArrives
    BY <2>2 DEF LoopEnter, PollTimeout, IoArrives, shared, others
  <2>3. CASE OwnerQuit
    BY <2>3 DEF OwnerQuit, InUserCode, others
  <2>4. ASSUME NEW t \in Tasks, OwnerQueueInLoop(t)
        PROVE  WakeInv'
    <3>1. CASE callingPendingFunctor
      BY <2>4, <3>1 DEF OwnerQueueInLoop, InUserCode, Bumped, PhaseInv, TypeOK
    <3>2. CASE loopPc = "callback"
      BY <2>4, <3>2 DEF OwnerQueueInLoop
    <3>3. CASE loopPc = "out"
      BY <2>4, <3>3, AppendProperties DEF OwnerQueueInLoop, PhaseInv, TypeOK
    <3> QED
      BY <2>4, <3>1, <3>2, <3>3 DEF OwnerQueueInLoop, InUserCode, PhaseInv
  <2>5. ASSUME NEW p \in Threads, QuitFrom(p)
        PROVE  WakeInv'
    BY <2>5 DEF QuitFrom, TypeOK
  <2>6. ASSUME NEW p \in Threads, Wakeup(p)
        PROVE  WakeInv'
    BY <2>6 DEF Wakeup, Bumped, TypeOK
  <2>7. ASSUME NEW p \in Threads, NEW t \in Tasks, QueueInLoop(p, t)
        PROVE  WakeInv'
    BY <2>7 DEF QueueInLoop, TypeOK
  <2>8. CASE UNCHANGED vars
    BY <2>8 DEF vars, shared, others
  <2> QED
    BY <2>1, <2>2, <2>3, <2>4, <2>5, <2>6, <2>7, <2>8 DEF Next, OwnerCall, ThreadStep
<1>3. WakeInv => NoLostWakeup /\ QuitReachesPoll
  BY DEF NoLostWakeup
<1>4. QED
  BY <1>1, <1>2, <1>3, TypeCorrect, PhaseCorrect, PTL DEF Spec
-----------------------------------------------------------------------------
\* Appending to the second of two sequences appends to their concatenation.
LEMMA AppendToConcat ==
    ASSUME NEW S, NEW f \in Seq(S), NEW p \in Seq(S), NEW t \in S
    PROVE  f \o Append(p, t) = Append(f \o p, t)
<1>1. f \o p \in Seq(S) /\ Append(p, t) \in Seq(S)
  BY ConcatProperties, AppendProperties
<1>2. Append(f \o p, t) \in Seq(S) /\ f \o Append(p, t) \in Seq(S)
  BY <1>1, ConcatProperties, AppendProperties
<1>3. Len(f \o Append(p, t)) = Len(Append(f \o p, t))
  BY <1>1, ConcatProperties, AppendProperties, LenProperties
<1>4. ASSUME NEW i \in 1 .. Len(f \o Append(p, t))
      PROVE  (f \o Append(p, t))[i] = Append(f \o p, t)[i]
  <2>1. Len(f) \in Nat /\ Len(p) \in Nat
    BY LenProperties
  <2>2. Len(Append(p, t)) = Len(p) + 1 /\ Len(f \o p) = Len(f) + Len(p)
    BY AppendProperties, ConcatProperties
  <2>3. i \in 1 .. Len(f) + Len(p) + 1
    BY <1>1, <2>1, <2>2, ConcatProperties
  <2>4. CASE i <= Len(f)
    BY <1>1, <2>1, <2>2, <2>3, <2>4, ConcatProperties, AppendProperties
  <2>5. CASE i > Len(f) /\ i <= Len(f) + Len(p)
    BY <1>1, <2>1, <2>2, <2>3, <2>5, ConcatProperties, AppendProperties
  <2>6. CASE i = Len(f) + Len(p) + 1
    BY <1>1, <2>1, <2>2, <2>3, <2>6, ConcatProperties, AppendProperties
  <2> QED
    BY <2>1, <2>3, <2>4, <2>5, <2>6
<1> QED
  BY <1>2, <1>3, <1>4, SeqEqual

\* The head and the tail of a concatenation come from its first part.
LEMMA HeadTailOfConcat ==
    ASSUME NEW S, NEW f \in Seq(S), NEW p \in Seq(S), f # <<>>
    PROVE  /\ f \o p # <<>>
           /\ Head(f \o p) = Head(f)
           /\ Tail(f \o p) = Tail(f) \o p
<1>1. f \o p \in Seq(S) /\ Tail(f) \in Seq(S) /\ Len(f) \in Nat \ {0} /\ Len(p) \in Nat
  BY ConcatProperties, HeadTailProperties, LenProperties, EmptySeq
<1>2. Len(f \o p) = Len(f) + Len(p) /\ Len(Tail(f)) = Len(f) - 1
  BY <1>1, ConcatProperties, HeadTailProperties
<1>3. f \o p # <<>>
  BY <1>1, <1>2, EmptySeq
<1>4. Tail(f \o p) \in Seq(S) /\ Tail(f) \o p \in Seq(S)
  BY <1>1, <1>3, HeadTailProperties, ConcatProperties
<1>5. Len(Tail(f \o p)) = Len(Tail(f) \o p)
  BY <1>1, <1>2, <1>3, HeadTailProperties, ConcatProperties
<1>6. ASSUME NEW i \in 1 .. Len(Tail(f \o p))
      PROVE  Tail(f \o p)[i] = (Tail(f) \o p)[i]
  BY <1>1, <1>2, <1>3, <1>6, HeadTailProperties, ConcatProperties
<1>7. Head(f \o p) = Head(f)
  BY <1>1, <1>2, <1>3, HeadTailProperties, ConcatProperties
<1> QED
  BY <1>3, <1>4, <1>5, <1>6, <1>7, SeqEqual

\* A quit() alone ends the wait of the loop thread, or is about to.
THEOREM QuitReachesThePoll == Spec => []QuitReachesPoll
<1>1. NoLostWakeup /\ QuitReachesPoll => QuitReachesPoll
  OBVIOUS
<1> QED  BY <1>1, WakeupsReachThePoll, PTL

-----------------------------------------------------------------------------
\* The loop with its two vectors, its flag and its eventfd implements the
\* queue of FunctorQueue: functors are taken off once, in the order of the
\* queueInLoop() calls, and run one at a time.
THEOREM LoopImplementsFunctorQueue == Spec => ImplementsFunctorQueue
<1> USE NoTaskAssumption
<1>1. Init => FunctorOrder!Init
  BY EmptySeq, ConcatProperties DEF Init, FunctorOrder!Init
<1>2. TypeOK /\ PhaseInv /\ [Next]_vars => [FunctorOrder!Next]_FunctorOrder!vars
  <2> SUFFICES ASSUME TypeOK, PhaseInv, [Next]_vars
               PROVE  [FunctorOrder!Next]_FunctorOrder!vars
    OBVIOUS
  <2> USE DEF FunctorOrder!vars, TypeOK
  <2>1. CASE LoopStep
    <3>1. CASE LoopResetQuit \/ LoopCheck \/ PollReturn \/ HandleRead \/ HandleIo
               \/ CallbackReturn \/ BeginPending \/ EndPending
      BY <3>1 DEF LoopResetQuit, LoopCheck, PollReturn, HandleRead, HandleIo,
                  CallbackReturn, BeginPending, EndPending, batch, shared
    <3>2. CASE SwapPending
      <4>1. functors = <<>>
        BY <3>2 DEF SwapPending, PhaseInv
      <4>2. functors' \o pendingFunctor' = functors \o pendingFunctor
        BY <3>2, <4>1, EmptySeq, ConcatEmptySeq DEF SwapPending
      <4> QED
        BY <3>2, <4>2 DEF SwapPending
    <3>3. CASE RunFunctor
      <4>1. current = NoTask
        BY <3>3 DEF RunFunctor, PhaseInv
      <4>2. /\ functors \o pendingFunctor # <<>>
            /\ Head(functors \o pendingFunctor) = Head(functors)
            /\ Tail(functors \o pendingFunctor) = Tail(functors) \o pendingFunctor
        BY <3>3, HeadTailOfConcat DEF RunFunctor
      <4> QED
        BY <3>3, <4>1, <4>2
           DEF RunFunctor, shared, FunctorOrder!Start, FunctorOrder!Next
    <3>4. CASE FunctorReturn
      BY <3>4 DEF FunctorReturn, PhaseInv, shared,
                  FunctorOrder!Finish, FunctorOrder!Next
    <3> QED
      BY <2>1, <3>1, <3>2, <3>3, <3>4 DEF LoopStep
  <2>2. CASE LoopEnter \/ PollTimeout \/ IoArrives \/ OwnerQuit
    BY <2>2 DEF LoopEnter, PollTimeout, IoArrives, OwnerQuit, batch, shared
  <2>3. ASSUME NEW t \in Tasks, OwnerQueueInLoop(t)
        PROVE  FunctorOrder!Next
    BY <2>3, AppendToConcat
       DEF OwnerQueueInLoop, batch, FunctorOrder!Submit, FunctorOrder!Next
  <2>4. ASSUME NEW p \in Threads, QuitFrom(p) \/ Wakeup(p)
        PROVE  UNCHANGED FunctorOrder!vars
    BY <2>4 DEF QuitFrom, Wakeup, batch
  <2>5. ASSUME NEW p \in Threads, NEW t \in Tasks, QueueInLoop(p, t)
        PROVE  FunctorOrder!Next
    BY <2>5, AppendToConcat
       DEF QueueInLoop, batch, FunctorOrder!Submit, FunctorOrder!Next
  <2>6. CASE UNCHANGED vars
    BY <2>6 DEF vars, batch, shared
  <2> QED
    BY <2>1, <2>2, <2>3, <2>4, <2>5, <2>6 DEF Next, OwnerCall, ThreadStep
<1>3. QED
  BY <1>1, <1>2, TypeCorrect, PhaseCorrect, PTL
     DEF Spec, ImplementsFunctorQueue, FunctorOrder!Spec
=============================================================================
