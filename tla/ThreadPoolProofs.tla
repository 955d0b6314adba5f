--------------------------- MODULE ThreadPoolProofs ---------------------------
(***************************************************************************)
(* Proofs about ThreadPool for any number of workers and of tasks: its     *)
(* types, that no worker waits beside a task or in a stopped pool, and     *)
(* that a destroyed pool leaves no task behind.                            *)
(***************************************************************************)
EXTENDS ThreadPool, FiniteSetTheorems, SequenceTheorems, TLAPS

USE MaxSizeAssumption, MaxTasksAssumption

\* The workers that start() has created.
Born == Workers \ At("unborn")

\* Workers are created in the order of their numbers, as many as m_threadSize.
BornInv ==
    \E k \in 0 .. size :
        /\ Born = 1 .. k
        /\ owner = "new" => k = 0
        /\ owner = "starting" => k < size
        /\ owner = "up" => k = size
        /\ owner \in {"joining", "gone"} => k \in {0, size}

\* m_running is false before start() and from the destructor on.
PhaseInv == owner \in {"new", "joining", "gone"} => ~running

\* A worker that left without an exception found nothing but late tasks, and
\* all tasks of a pool that was never started are late.
DrainInv ==
    /\ At("done") \ failed # {} =>
           ~running /\ owner # "new" /\ ToSet(deque) \subseteq late
    /\ Born = {} /\ owner \in {"new", "joining", "gone"} /\ size # 0 =>
           ToSet(deque) \subseteq late
    /\ owner = "gone" => At("unborn") \cup At("done") = Workers

-----------------------------------------------------------------------------
\* What a step of one worker does to the sets At(...).
LEMMA Moved ==
    ASSUME TypeOK, NEW w \in Workers, NEW b, pc' = [pc EXCEPT ![w] = b], NEW x
    PROVE  At(x)' = IF x = b THEN At(x) \cup {w} ELSE At(x) \ {w}
BY DEF TypeOK, At

\* The workers at one place are finitely many.
LEMMA AtFinite ==
    ASSUME NEW x
    PROVE  IsFiniteSet(At(x)) /\ Cardinality(At(x)) \in Nat
<1>1. IsFiniteSet(Workers)
  BY FS_Interval DEF Workers
<1>2. At(x) \in SUBSET Workers
  BY DEF At
<1>3. IsFiniteSet(At(x))
  BY <1>1, <1>2, FS_Subset
<1> QED
  BY <1>3, FS_CardinalityType

\* The worker that Thread::start() creates next is the first that is unborn.
LEMMA NextBorn ==
    ASSUME TypeOK, BornInv, owner = "starting"
    PROVE  /\ Cardinality(Born) + 1 \in 1 .. size
           /\ Born = 1 .. Cardinality(Born)
           /\ pc[Cardinality(Born) + 1] = "unborn"
<1>1. PICK k \in 0 .. size : Born = 1 .. k /\ k < size
  BY DEF BornInv
<1>2. Cardinality(Born) = k
  BY <1>1, FS_Interval DEF TypeOK
<1>3. k + 1 \in Workers /\ k + 1 \notin Born /\ k + 1 \in 1 .. size
  BY <1>1 DEF TypeOK, Workers
<1>4. pc[k + 1] = "unborn"
  BY <1>3 DEF Born, At
<1> QED
  BY <1>1, <1>2, <1>3, <1>4

-----------------------------------------------------------------------------
\* Workers are created once each and up to m_threadSize, and every variable
\* keeps its type; an exception ends a worker of this pool.
LEMMA BornCorrect == Spec => [](TypeOK /\ BornInv)
<1>1. Init => TypeOK /\ BornInv
  <2> SUFFICES ASSUME Init PROVE TypeOK /\ BornInv
    OBVIOUS
  <2>1. TypeOK
    <3>1. <<>> \in Seq(Tasks) /\ 0 \in 0 .. MaxTasks
      BY EmptySeq
    <3>2. pc \in [Workers -> {"unborn", "init", "lock", "waiting", "task", "done"}]
      BY DEF Init
    <3> QED
      BY <3>1, <3>2 DEF Init, TypeOK
  <2>2. Born = 1 .. 0
    BY DEF Init, Born, At
  <2> QED
    BY <2>1, <2>2 DEF Init, BornInv
<1>2. TypeOK /\ BornInv /\ [Next]_vars => (TypeOK /\ BornInv)'
  <2> SUFFICES ASSUME TypeOK, BornInv, [Next]_vars PROVE TypeOK' /\ BornInv'
    OBVIOUS
  <2>1. PICK k \in 0 .. size :
          /\ Born = 1 .. k
          /\ owner = "new" => k = 0
          /\ owner = "starting" => k < size
          /\ owner = "up" => k = size
          /\ owner \in {"joining", "gone"} => k \in {0, size}
    BY DEF BornInv
  <2>2. CASE Start
    <3>1. TypeOK'
      BY <2>2 DEF Start, TypeOK, Threads
    <3>2. Born' = Born
      BY <2>2 DEF Start, Born, At
    <3> QED
      BY <2>1, <2>2, <3>1, <3>2 DEF Start, BornInv, TypeOK
  <2>3. CASE StartThread
    <3> DEFINE w == Cardinality(Born) + 1
    <3>1. owner = "starting" /\ pc' = [pc EXCEPT ![w] = "init"]
          /\ owner' = (IF w = size THEN "up" ELSE "starting")
          /\ UNCHANGED <<size, running, deque, added, late, failed>>
      BY <2>3 DEF StartThread, Born
    <3>2. w \in 1 .. size /\ Born = 1 .. Cardinality(Born) /\ pc[w] = "unborn"
      BY <3>1, NextBorn
    <3>3. w \in Workers
      BY <3>2 DEF TypeOK, Workers
    <3>4. Cardinality(Born) = k
      BY <2>1, FS_Interval DEF TypeOK
    <3> HIDE DEF w
    <3>5. TypeOK'
      BY <3>1, <3>3 DEF TypeOK, Threads
    <3>6. At("unborn")' = At("unborn") \ {w}
      BY <3>1, <3>3, Moved
    <3>7. Born' = Born \cup {w}
      BY <3>3, <3>6 DEF Born
    <3>8. Born' = 1 .. w
      <4>1. Born = 1 .. k /\ w = k + 1
        BY <2>1, <3>4 DEF w
      <4> QED
        BY <3>7, <4>1 DEF TypeOK
    <3> QED
      BY <3>1, <3>2, <3>5, <3>8 DEF BornInv, TypeOK
  <2>4. CASE Stop \/ Destroy
    <3>1. TypeOK'
      BY <2>4 DEF Stop, Destroy, NotifyAll, TypeOK, Threads
    <3>2. Born' = Born
      BY <2>4 DEF Stop, Destroy, NotifyAll, Born, At
    <3> QED
      BY <2>1, <2>4, <3>1, <3>2 DEF Stop, Destroy, BornInv
  <2>5. CASE Join
    <3>1. TypeOK' /\ Born' = Born
      BY <2>5 DEF Join, TypeOK, Threads, Born, At
    <3> QED
      BY <2>1, <2>5, <3>1 DEF Join, BornInv
  <2>6. CASE AddThreadFuncQueue
    <3>1. added + 1 \in Tasks /\ added + 1 \in 0 .. MaxTasks
      BY <2>6 DEF AddThreadFuncQueue, TypeOK, Tasks
    <3>2. deque' \in Seq(Tasks) /\ late' \subseteq Tasks
      BY <2>6, <3>1, AppendProperties DEF AddThreadFuncQueue, TypeOK
    <3>3. pc' \in [Workers -> {"unborn", "init", "lock", "waiting", "task", "done"}]
      BY <2>6 DEF AddThreadFuncQueue, NotifyOne, TypeOK
    <3>4. Born' = Born
      BY <2>6 DEF AddThreadFuncQueue, NotifyOne, TypeOK, Born, At
    <3>5. TypeOK'
      BY <2>6, <3>1, <3>2, <3>3 DEF AddThreadFuncQueue, TypeOK, Threads
    <3> QED
      BY <2>1, <2>6, <3>4, <3>5 DEF AddThreadFuncQueue, BornInv
  <2>7. ASSUME NEW w \in Workers, WorkerStep(w) \/ SpuriousWakeup(w)
        PROVE  TypeOK' /\ BornInv'
    <3>1. Born' = Born
      BY <2>7 DEF WorkerStep, InitReturns, TakeTask, Leave, Wait, TaskReturns,
                  Catch, SpuriousWakeup, Goto, TypeOK, Born, At
    <3>2. pc[w] # "unborn" => w \in Threads
      BY <2>1 DEF Born, At, TypeOK, Threads
    <3>3. deque' \in Seq(Tasks)
      BY <2>7, HeadTailProperties
         DEF WorkerStep, InitReturns, TakeTask, Leave, Wait, TaskReturns, Catch,
             SpuriousWakeup, TypeOK
    <3>4. failed' \subseteq Threads
      BY <2>7, <3>2
         DEF WorkerStep, InitReturns, TakeTask, Leave, Wait, TaskReturns, Catch,
             SpuriousWakeup, TypeOK
    <3>5. UNCHANGED <<size, owner, running, added, late>>
      BY <2>7 DEF WorkerStep, InitReturns, TakeTask, Leave, Wait, TaskReturns,
                  Catch, SpuriousWakeup
    <3>6. pc' \in [Workers -> {"unborn", "init", "lock", "waiting", "task", "done"}]
      BY <2>7 DEF WorkerStep, InitReturns, TakeTask, Leave, Wait, TaskReturns,
                  Catch, SpuriousWakeup, Goto, TypeOK
    <3>7. TypeOK'
      BY <3>3, <3>4, <3>5, <3>6 DEF TypeOK, Threads
    <3> QED
      BY <2>1, <3>1, <3>5, <3>7 DEF BornInv
  <2>8. CASE UNCHANGED vars
    BY <2>1, <2>8 DEF vars, TypeOK, Threads, BornInv, Born, At
  <2> QED
    BY <2>2, <2>3, <2>4, <2>5, <2>6, <2>7, <2>8 DEF Next
<1>3. QED
  BY <1>1, <1>2, PTL DEF Spec

\* Every variable of the pool keeps its type.
THEOREM TypeCorrect == Spec => []TypeOK
BY BornCorrect, PTL

-----------------------------------------------------------------------------
\* The pool does not run before start() and after the destructor began.
LEMMA PhaseCorrect == Spec => []PhaseInv
<1>1. Init => PhaseInv
  BY DEF Init, PhaseInv
<1>2. PhaseInv /\ [Next]_vars => PhaseInv'
  BY DEF PhaseInv, Next, vars, Start, StartThread, Stop, Destroy, Join,
         AddThreadFuncQueue, WorkerStep, InitReturns, TakeTask, Leave, Wait,
         TaskReturns, Catch, SpuriousWakeup
<1>3. QED
  BY <1>1, <1>2, PTL DEF Spec

\* Nobody waits in a pool that was stopped: a worker looks at m_running and
\* waits in one critical section, and stop() wakes all that wait.
THEOREM NobodyWaitsInAStoppedPool == Spec => []NobodyWaitsStopped
<1>1. Init => NobodyWaitsStopped
  BY DEF Init, NobodyWaitsStopped, At
<1>2. TypeOK /\ BornInv /\ NobodyWaitsStopped /\ [Next]_vars => NobodyWaitsStopped'
  <2> SUFFICES ASSUME TypeOK, BornInv, NobodyWaitsStopped, [Next]_vars
               PROVE  NobodyWaitsStopped'
    OBVIOUS
  <2>1. CASE Start \/ Join \/ UNCHANGED vars
    BY <2>1 DEF Start, Join, vars, NobodyWaitsStopped, At
  <2>2. CASE StartThread
    BY <2>2 DEF StartThread, TypeOK, NobodyWaitsStopped, At
  <2>3. CASE Stop \/ Destroy
    BY <2>3 DEF Stop, Destroy, NotifyAll, NobodyWaitsStopped, At
  <2>4. CASE AddThreadFuncQueue
    BY <2>4 DEF AddThreadFuncQueue, NotifyOne, TypeOK, NobodyWaitsStopped, At
  <2>5. ASSUME NEW w \in Workers, Wait(w)
        PROVE  NobodyWaitsStopped'
    BY <2>5 DEF Wait, NobodyWaitsStopped
  <2>6. ASSUME NEW w \in Workers,
               InitReturns(w) \/ TakeTask(w) \/ Leave(w) \/ TaskReturns(w)
                   \/ Catch(w) \/ SpuriousWakeup(w)
        PROVE  NobodyWaitsStopped'
    BY <2>6 DEF InitReturns, TakeTask, Leave, TaskReturns, Catch, SpuriousWakeup,
                Goto, TypeOK, NobodyWaitsStopped, At
  <2> QED
    BY <2>1, <2>2, <2>3, <2>4, <2>5, <2>6 DEF Next, WorkerStep
<1>3. QED
  BY <1>1, <1>2, BornCorrect, PTL DEF Spec

-----------------------------------------------------------------------------
\* While a worker waits there are no more tasks than workers about to take
\* one, so that a notify_one() for each task is enough.
THEOREM NotifyOneSuffices == Spec => []NoIdleWorker
<1>1. Init => NoIdleWorker
  BY DEF Init, NoIdleWorker, At
<1>2. TypeOK /\ BornInv /\ NoIdleWorker /\ [Next]_vars => NoIdleWorker'
  <2> SUFFICES ASSUME TypeOK, BornInv, NoIdleWorker, [Next]_vars PROVE NoIdleWorker'
    OBVIOUS
  <2> DEFINE lock == At("lock")  waiting == At("waiting")
  <2>0. IsFiniteSet(lock) /\ Cardinality(lock) \in Nat
    BY AtFinite
  <2>1. Len(deque) \in Nat
    BY LenProperties DEF TypeOK
  <2>2. CASE Start \/ Join \/ UNCHANGED vars
    BY <2>2 DEF Start, Join, vars, NoIdleWorker, At
  <2>3. CASE StartThread
    <3> DEFINE w == Cardinality(Born) + 1
    <3>1. pc' = [pc EXCEPT ![w] = "init"] /\ deque' = deque
      BY <2>3 DEF StartThread, Born
    <3>2. w \in Workers /\ pc[w] = "unborn"
      BY <2>3, NextBorn DEF StartThread, TypeOK, Workers
    <3> HIDE DEF w
    <3>3. waiting' = waiting /\ lock' = lock
      BY <3>1, <3>2, Moved DEF At
    <3> QED
      BY <3>1, <3>3 DEF NoIdleWorker
  <2>4. CASE Stop \/ Destroy
    BY <2>4 DEF Stop, Destroy, NotifyAll, NoIdleWorker, At
  <2>5. CASE AddThreadFuncQueue
    <3>1. Len(deque') = Len(deque) + 1
      <4>1. added + 1 \in Tasks
        BY <2>5 DEF AddThreadFuncQueue, TypeOK, Tasks
      <4> QED
        BY <2>5, <4>1, AppendProperties DEF AddThreadFuncQueue, TypeOK
    <3>2. CASE waiting = {} /\ UNCHANGED pc
      BY <3>2 DEF NoIdleWorker, At
    <3>3. ASSUME NEW w \in waiting, pc' = [pc EXCEPT ![w] = "lock"]
          PROVE  NoIdleWorker'
      <4>1. w \in Workers /\ w \notin lock
        BY DEF At
      <4>2. lock' = lock \cup {w}
        BY <3>3, <4>1, Moved
      <4>3. Cardinality(lock') = Cardinality(lock) + 1
        BY <2>0, <4>1, <4>2, FS_AddElement
      <4>4. Len(deque) <= Cardinality(lock)
        BY DEF NoIdleWorker
      <4> QED
        BY <2>0, <2>1, <3>1, <4>3, <4>4 DEF NoIdleWorker
    <3> QED
      BY <2>5, <3>2, <3>3 DEF AddThreadFuncQueue, NotifyOne
  <2>6. ASSUME NEW w \in Workers, TakeTask(w)
        PROVE  NoIdleWorker'
    <3>1. Len(deque') = Len(deque) - 1
      BY <2>6, HeadTailProperties DEF TakeTask, TypeOK
    <3>2. w \in lock
      BY <2>6 DEF TakeTask, At
    <3>3. waiting' = waiting \ {w} /\ lock' = lock \ {w}
      BY <2>6, Moved DEF TakeTask, Goto
    <3>4. Cardinality(lock') = Cardinality(lock) - 1
      BY <2>0, <3>2, <3>3, FS_RemoveElement
    <3> QED
      BY <2>0, <2>1, <3>1, <3>3, <3>4 DEF NoIdleWorker
  <2>7. ASSUME NEW w \in Workers, Leave(w) \/ Wait(w)
        PROVE  NoIdleWorker'
    <3>1. Len(deque') = 0
      BY <2>7, EmptySeq DEF Leave, Wait
    <3>2. Cardinality(At("lock")') \in Nat
      <4>1. lock' = lock \ {w}
        BY <2>7, Moved DEF Leave, Wait, Goto
      <4> QED
        BY <2>0, <4>1, FS_RemoveElement, FS_CardinalityType
    <3> QED
      BY <3>1, <3>2 DEF NoIdleWorker
  <2>8. ASSUME NEW w \in Workers,
               InitReturns(w) \/ TaskReturns(w) \/ SpuriousWakeup(w)
        PROVE  NoIdleWorker'
    <3>1. waiting' = waiting \ {w} /\ lock' = lock \cup {w} /\ deque' = deque
      BY <2>8, Moved DEF InitReturns, TaskReturns, SpuriousWakeup, Goto
    <3>2. Cardinality(lock \cup {w})
            = IF w \in lock THEN Cardinality(lock) ELSE Cardinality(lock) + 1
      BY <2>0, FS_AddElement
    <3>3. Cardinality(lock') \in Nat /\ Cardinality(lock') >= Cardinality(lock)
      BY <2>0, <3>1, <3>2
    <3> QED
      BY <2>0, <2>1, <3>1, <3>3 DEF NoIdleWorker
  <2>9. ASSUME NEW w \in Workers, Catch(w)
        PROVE  NoIdleWorker'
    <3>1. w \notin lock /\ deque' = deque
      BY <2>9 DEF Catch, At
    <3>2. waiting' = waiting \ {w} /\ lock' = lock \ {w}
      BY <2>9, Moved DEF Catch, Goto
    <3> QED
      BY <3>1, <3>2 DEF NoIdleWorker
  <2> QED
    BY <2>2, <2>3, <2>4, <2>5, <2>6, <2>7, <2>8, <2>9 DEF Next, WorkerStep
<1>3. QED
  BY <1>1, <1>2, BornCorrect, PTL DEF Spec

-----------------------------------------------------------------------------
\* What is in the deque after a push_back() and after a pop_front().
LEMMA DequeContents ==
    ASSUME TypeOK
    PROVE  /\ ToSet(<<>>) = {}
           /\ \A t \in Tasks : ToSet(Append(deque, t)) = ToSet(deque) \cup {t}
           /\ deque # <<>> => ToSet(Tail(deque)) \subseteq ToSet(deque)
<1>1. deque \in Seq(Tasks) /\ DOMAIN deque = 1 .. Len(deque) /\ Len(deque) \in Nat
  BY LenProperties DEF TypeOK
<1>2. ASSUME NEW t \in Tasks
      PROVE  ToSet(Append(deque, t)) = ToSet(deque) \cup {t}
  <2>1. DOMAIN Append(deque, t) = 1 .. Len(deque) + 1
    BY <1>1, AppendProperties, LenProperties
  <2>2. /\ \A i \in 1 .. Len(deque) : Append(deque, t)[i] = deque[i]
        /\ Append(deque, t)[Len(deque) + 1] = t
    BY <1>1, AppendProperties
  <2> QED
    BY <1>1, <2>1, <2>2 DEF ToSet
<1>3. ASSUME deque # <<>>
      PROVE  ToSet(Tail(deque)) \subseteq ToSet(deque)
  <2>1. DOMAIN Tail(deque) = 1 .. Len(deque) - 1
    BY <1>1, <1>3, HeadTailProperties, LenProperties
  <2>2. \A i \in 1 .. Len(deque) - 1 : Tail(deque)[i] = deque[i + 1]
    BY <1>1, <1>3, HeadTailProperties
  <2> QED
    BY <1>1, <2>1, <2>2 DEF ToSet
<1>4. ToSet(<<>>) = {}
  BY DEF ToSet
<1> QED
  BY <1>2, <1>3, <1>4

\* When the destructor has returned, only tasks added after stop() (or before
\* start()) are left, unless there was no worker that no exception ended.
THEOREM NoTaskIsLeftBehind == Spec => []DrainedAtEnd
<1>1. Init => DrainInv
  BY DEF Init, DrainInv, At, ToSet
<1>2. TypeOK /\ BornInv /\ PhaseInv /\ DrainInv /\ [Next]_vars => DrainInv'
  <2> SUFFICES ASSUME TypeOK, BornInv, PhaseInv, DrainInv, [Next]_vars
               PROVE  DrainInv'
    OBVIOUS
  <2> DEFINE left == At("done") \ failed
  <2>1. CASE Start
    <3>1. left' = left
      BY <2>1 DEF Start, At
    <3>2. left = {}
      BY <2>1 DEF Start, DrainInv
    <3> QED
      BY <2>1, <3>1, <3>2 DEF Start, DrainInv
  <2>2. CASE StartThread
    <3> DEFINE w == Cardinality(Born) + 1
    <3>1. pc' = [pc EXCEPT ![w] = "init"] /\ owner' \in {"starting", "up"}
          /\ UNCHANGED <<running, deque, late, failed>> /\ owner = "starting"
      BY <2>2 DEF StartThread, Born
    <3>2. w \in Workers /\ pc[w] = "unborn"
      BY <2>2, NextBorn DEF StartThread, TypeOK, Workers
    <3> HIDE DEF w
    <3>3. At("done")' = At("done")
      BY <3>1, <3>2 DEF TypeOK, At
    <3> QED
      BY <3>1, <3>3 DEF DrainInv
  <2>3. CASE Stop
    <3>1. At("done")' = At("done") /\ At("unborn")' = At("unborn") /\ Born' = Born
      BY <2>3 DEF Stop, NotifyAll, Born, At
    <3> QED
      BY <2>3, <3>1 DEF Stop, DrainInv
  <2>4. CASE Destroy
    <3>1. At("done")' = At("done") /\ Born' = Born
      BY <2>4 DEF Destroy, NotifyAll, Born, At
    <3>2. owner = "up" /\ size # 0 => Born # {}
      <4>1. SUFFICES ASSUME owner = "up", size # 0 PROVE 1 \in Born
        OBVIOUS
      <4> QED
        BY <4>1 DEF BornInv, TypeOK
    <3> QED
      BY <2>4, <3>1, <3>2 DEF Destroy, DrainInv
  <2>5. CASE Join
    <3>1. At("done")' = At("done") /\ At("unborn")' = At("unborn") /\ Born' = Born
      BY <2>5 DEF Join, Born, At
    <3> QED
      BY <2>5, <3>1 DEF Join, DrainInv, Workers
  <2>6. CASE AddThreadFuncQueue
    <3>1. At("done")' = At("done") /\ At("unborn")' = At("unborn") /\ Born' = Born
      BY <2>6 DEF AddThreadFuncQueue, NotifyOne, TypeOK, Born, At
    <3>2. ToSet(deque') = ToSet(deque) \cup {added'}
      <4>1. added' \in Tasks /\ deque' = Append(deque, added')
        BY <2>6 DEF AddThreadFuncQueue, TypeOK, Tasks
      <4> QED
        BY <4>1, DequeContents
    <3>3. ~running => late' = late \cup {added'}
      BY <2>6 DEF AddThreadFuncQueue
    <3>4. UNCHANGED <<size, owner, running, failed>>
      BY <2>6 DEF AddThreadFuncQueue
    <3> QED
      BY <3>1, <3>2, <3>3, <3>4 DEF DrainInv, PhaseInv, Workers
  <2>7. ASSUME NEW w \in Workers, WorkerStep(w) \/ SpuriousWakeup(w)
        PROVE  DrainInv'
    <3>1. Born' = Born /\ UNCHANGED <<size, owner, running, late>>
      BY <2>7 DEF WorkerStep, InitReturns, TakeTask, Leave, Wait, TaskReturns,
                  Catch, SpuriousWakeup, Goto, TypeOK, Born, At
    <3>2. owner # "gone"
      <4>1. pc[w] \notin {"unborn", "done"}
        BY <2>7 DEF WorkerStep, InitReturns, TakeTask, Leave, Wait, TaskReturns,
                    Catch, SpuriousWakeup
      <4> QED
        BY <4>1 DEF DrainInv, At
    <3>3. ToSet(deque') \subseteq ToSet(deque)
      BY <2>7, DequeContents
         DEF WorkerStep, InitReturns, TakeTask, Leave, Wait, TaskReturns, Catch,
             SpuriousWakeup
    <3>4. CASE Leave(w)
      <4>1. ToSet(deque') = {}
        BY <3>4, DequeContents DEF Leave
      <4>2. owner # "new"
        <5>1. w \in Born
          BY <3>4 DEF Leave, Born, At
        <5> QED
          BY <5>1 DEF BornInv
      <4> QED
        BY <3>1, <3>2, <3>4, <4>1, <4>2 DEF Leave, DrainInv
    <3>5. CASE ~Leave(w)
      <4>1. left' \subseteq left
        BY <2>7, <3>5 DEF WorkerStep, InitReturns, TakeTask, Wait, TaskReturns,
                          Catch, SpuriousWakeup, Goto, TypeOK, At
      <4> QED
        BY <3>1, <3>2, <3>3, <4>1 DEF DrainInv
    <3> QED
      BY <3>4, <3>5
  <2>8. CASE UNCHANGED vars
    BY <2>8 DEF vars, DrainInv, Born, At, ToSet
  <2> QED
    BY <2>1, <2>2, <2>3, <2>4, <2>5, <2>6, <2>7, <2>8 DEF Next
<1>3. TypeOK /\ BornInv /\ DrainInv => DrainedAtEnd
  <2> SUFFICES ASSUME TypeOK, BornInv, DrainInv, owner = "gone", failed # Threads
               PROVE  ToSet(deque) \subseteq late
    BY DEF DrainedAtEnd
  <2>1. PICK w \in Threads : w \notin failed
    BY DEF TypeOK
  <2>2. size # 0 /\ w \in Workers
    BY <2>1 DEF TypeOK, Threads, Workers
  <2>3. CASE Born = {}
    BY <2>2, <2>3 DEF DrainInv
  <2>4. CASE Born # {}
    <3>1. Born = Threads
      BY <2>4 DEF BornInv, Threads, TypeOK
    <3>2. w \in At("done") \ failed
      BY <2>1, <2>2, <3>1 DEF DrainInv, Born
    <3> QED
      BY <3>2 DEF DrainInv
  <2> QED
    BY <2>3, <2>4
<1>4. QED
  BY <1>1, <1>2, <1>3, BornCorrect, PhaseCorrect, PTL DEF Spec
=============================================================================
