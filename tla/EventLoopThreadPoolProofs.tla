---------------------- MODULE EventLoopThreadPoolProofs ----------------------
(***************************************************************************)
(* Proofs about EventLoopThreadPool for any number of threads and of       *)
(* calls: its types, that loop_ never dangles, what the destructor may     *)
(* use, and that loops are dealt out evenly.                               *)
(***************************************************************************)
EXTENDS EventLoopThreadPool, TLAPS

USE NumThreadsAssumption, MaxCallsAssumption

\* TypeOK, variable by variable.
Typed ==
    /\ ownerPc \in OwnerPcs /\ at \in Loops /\ next \in Loops
    /\ tpc \in [Loops -> ThreadPcs]
    /\ loopPtr \in [Loops -> BOOLEAN]
    /\ quit \in [Loops -> BOOLEAN] /\ woken \in [Loops -> BOOLEAN]
    /\ membersGone \in [Loops -> BOOLEAN] /\ selfQuit \in [Loops -> BOOLEAN]
    /\ served \in [Loops -> 0 .. MaxCalls]

\* Where threadFunc() is while loop_ points to its EventLoop, and after.
Published == {"enter", "check", "poll", "user", "clear"}
Left == {"unlock", "destruct", "exited"}

Starting == ownerPc \in {"start", "started", "lock", "waiting"}

Destroying == ownerPc \in {"dtor", "quit", "wake", "join", "destroy"}

PointerInv == \A i \in Loops : loopPtr[i] <=> tpc[i] \in Published

\* start() has gone through the threads below at, each of which has published
\* its loop, and has not created those above.
StartInv ==
    /\ \A i \in Loops : ~Starting \/ i < at => tpc[i] \in Published \cup Left
    /\ \A i \in Loops : Starting /\ i > at => tpc[i] = "none"
    /\ ownerPc = "start" => tpc[at] = "none"
    /\ ownerPc = "started" => tpc[at] # "none"
    /\ ownerPc \in {"lock", "waiting"} => tpc[at] \notin {"none", "begin"}

\* The destructor has called quit() on loop i, or had no need to.
QuitByOwner(i) ==
    \/ ownerPc \in {"wake", "join", "destroy"} /\ at = i
    \/ Destroying /\ i < at
    \/ ownerPc = "done"

\* A loop that was told to quit, or has left loop(), was told by its own code
\* or by the destructor.
QuitInv ==
    \A i \in Loops :
        quit[i] \/ tpc[i] \in {"clear"} \cup Left => selfQuit[i] \/ QuitByOwner(i)

\* What the destructor destroys was joined, or has cleared loop_ by itself.
Harmless(i) == tpc[i] = "exited" \/ (selfQuit[i] /\ tpc[i] \in Left)

DestroyInv ==
    /\ ownerPc = "destroy" => Harmless(at)
    /\ \A i \in Loops : membersGone[i] => Harmless(i)

IInv == PointerInv /\ StartInv /\ QuitInv /\ DestroyInv

\* The loops below next_ have been used once more than the others.
RoundInv ==
    \E n \in 0 .. MaxCalls : \A i \in Loops : served[i] = IF i < next THEN n + 1 ELSE n

-----------------------------------------------------------------------------
\* Every variable keeps its type: next_ and the thread that is started or
\* destroyed are always in range.
THEOREM TypeCorrect == Spec => []TypeOK
<1> USE DEF Typed, Loops, OwnerPcs, ThreadPcs
<1>1. Init => Typed
  BY DEF Init
<1>2. Typed /\ [Next]_vars => Typed'
  <2> SUFFICES ASSUME Typed, [Next]_vars PROVE Typed'
    OBVIOUS
  <2>1. CASE StartThread \/ SemWait \/ TestLoop \/ SpuriousWakeup
    <3>1. CASE StartThread
      BY <3>1 DEF StartThread, loopState
    <3>2. CASE SemWait \/ SpuriousWakeup
      BY <3>2 DEF SemWait, SpuriousWakeup, loopState
    <3>3. CASE TestLoop
      BY <3>3 DEF TestLoop, loopState
    <3> QED
      BY <2>1, <3>1, <3>2, <3>3
  <2>2. CASE GetNextLoop
    BY <2>2 DEF GetNextLoop, Advance, owner, loopState
  <2>3. CASE Destroy \/ ReadLoop \/ QuitLoop \/ WakeLoop
    BY <2>3 DEF Destroy, ReadLoop, QuitLoop, WakeLoop, loopState
  <2>4. CASE Join \/ DestroyMembers
    <3>1. CASE Join
      BY <3>1 DEF Join, loopState
    <3>2. CASE DestroyMembers
      <4>1. at' \in Loops /\ ownerPc' \in OwnerPcs
        BY <3>2 DEF DestroyMembers
      <4>2. membersGone' \in [Loops -> BOOLEAN]
        BY <3>2 DEF DestroyMembers
      <4> QED
        BY <3>2, <4>1, <4>2 DEF DestroyMembers, loopState
    <3> QED
      BY <2>4, <3>1, <3>2
  <2>5. ASSUME NEW i \in Loops, ThreadStep(i)
        PROVE  Typed'
    <3>1. CASE BeginThread(i) \/ InitCallback(i) \/ LoopCheck(i) \/ UserReturns(i)
      BY <3>1 DEF BeginThread, InitCallback, LoopCheck, UserReturns, Goto, owner, loopState
    <3>2. CASE Unlock(i) \/ DestructLoop(i)
      BY <3>2 DEF Unlock, DestructLoop, Goto, owner, loopState
    <3>3. CASE Publish(i) \/ ClearLoop(i)
      BY <3>3 DEF Publish, ClearLoop, owner, loopState
    <3>4. CASE EnterLoop(i) \/ PollWoken(i)
      BY <3>4 DEF EnterLoop, PollWoken, owner
    <3> QED
      BY <2>5, <3>1, <3>2, <3>3, <3>4 DEF ThreadStep
  <2>6. ASSUME NEW i \in Loops, PollOther(i) \/ QuitSelf(i)
        PROVE  Typed'
    BY <2>6 DEF PollOther, QuitSelf, Goto, owner, loopState
  <2>7. CASE UNCHANGED vars
    BY <2>7 DEF vars, owner, loopState
  <2> QED
    BY <2>1, <2>2, <2>3, <2>4, <2>5, <2>6, <2>7 DEF Next, OwnerStep
<1>3. Typed => TypeOK
  BY DEF TypeOK
<1>4. QED
  BY <1>1, <1>2, <1>3, PTL DEF Spec

-----------------------------------------------------------------------------
\* A step of the owner or of a thread keeps the strengthening.
LEMMA Inductive == Spec => []IInv
<1> USE DEF IInv, Published, Left
<1>1. Init => IInv
  BY DEF Init, PointerInv, StartInv, Starting, QuitInv, DestroyInv, Loops
<1>2. TypeOK /\ IInv /\ [Next]_vars => IInv'
  <2> SUFFICES ASSUME TypeOK, IInv, [Next]_vars PROVE IInv'
    OBVIOUS
  <2> USE DEF TypeOK
  <2>1. CASE StartThread
    <3>1. PointerInv'
      BY <2>1 DEF StartThread, PointerInv, StartInv
    <3>2. StartInv'
      BY <2>1 DEF StartThread, StartInv, Starting, Loops
    <3>3. QuitInv' /\ DestroyInv'
      BY <2>1 DEF StartThread, StartInv, QuitInv, QuitByOwner, Destroying, DestroyInv,
                  Harmless, loopState
    <3> QED
      BY <3>1, <3>2, <3>3
  <2>2. CASE SemWait \/ SpuriousWakeup \/ Destroy
    <3>1. PointerInv' /\ StartInv'
      BY <2>2 DEF SemWait, SpuriousWakeup, Destroy, PointerInv, StartInv, Starting
    <3>2. QuitInv' /\ DestroyInv'
      BY <2>2 DEF SemWait, SpuriousWakeup, Destroy, QuitInv, QuitByOwner, Destroying,
                  DestroyInv, Harmless, loopState
    <3> QED
      BY <3>1, <3>2
  <2>3. CASE TestLoop
    <3>1. PointerInv' /\ StartInv'
      BY <2>3 DEF TestLoop, PointerInv, StartInv, Starting, Loops
    <3>2. QuitInv' /\ DestroyInv'
      BY <2>3 DEF TestLoop, QuitInv, QuitByOwner, Destroying, DestroyInv, Harmless,
                  loopState
    <3> QED
      BY <3>1, <3>2
  <2>4. CASE ReadLoop
    <3>1. PointerInv' /\ StartInv'
      BY <2>4 DEF ReadLoop, PointerInv, StartInv, Starting
    <3>2. QuitInv'
      BY <2>4 DEF ReadLoop, QuitInv, QuitByOwner, Destroying, Loops, loopState
    <3>3. ~loopPtr[at] => Harmless(at)
      BY <2>4 DEF ReadLoop, PointerInv, StartInv, Starting, QuitInv, QuitByOwner,
                  Destroying, Harmless, Loops
    <3>4. DestroyInv'
      BY <2>4, <3>3 DEF ReadLoop, DestroyInv, Harmless
    <3> QED
      BY <3>1, <3>2, <3>4
  <2>5. CASE QuitLoop \/ WakeLoop \/ Join
    <3>1. PointerInv' /\ StartInv'
      BY <2>5 DEF QuitLoop, WakeLoop, Join, PointerInv, StartInv, Starting
    <3>2. QuitInv'
      BY <2>5 DEF QuitLoop, WakeLoop, Join, QuitInv, QuitByOwner, Destroying, loopState
    <3>3. DestroyInv'
      BY <2>5 DEF QuitLoop, WakeLoop, Join, DestroyInv, Harmless
    <3> QED
      BY <3>1, <3>2, <3>3
  <2>6. CASE DestroyMembers
    <3>1. PointerInv' /\ StartInv'
      BY <2>6 DEF DestroyMembers, PointerInv, StartInv, Starting
    <3>2. QuitInv'
      BY <2>6 DEF DestroyMembers, QuitInv, QuitByOwner, Destroying, Loops, loopState
    <3>3. DestroyInv'
      BY <2>6 DEF DestroyMembers, DestroyInv, Harmless
    <3> QED
      BY <3>1, <3>2, <3>3
  <2>7. ASSUME NEW i \in Loops, ThreadStep(i) \/ PollOther(i) \/ QuitSelf(i)
        PROVE  IInv'
    <3>1. PointerInv'
      BY <2>7 DEF ThreadStep, BeginThread, InitCallback, Publish, EnterLoop, LoopCheck,
                  PollWoken, UserReturns, ClearLoop, Unlock, DestructLoop, PollOther,
                  QuitSelf, Goto, PointerInv
    <3>2. StartInv'
      BY <2>7 DEF ThreadStep, BeginThread, InitCallback, Publish, EnterLoop, LoopCheck,
                  PollWoken, UserReturns, ClearLoop, Unlock, DestructLoop, PollOther,
                  QuitSelf, Goto, StartInv, Starting, owner
    <3>3. QuitInv'
      BY <2>7 DEF ThreadStep, BeginThread, InitCallback, Publish, EnterLoop, LoopCheck,
                  PollWoken, UserReturns, ClearLoop, Unlock, DestructLoop, PollOther,
                  QuitSelf, Goto, QuitInv, QuitByOwner, Destroying, owner, loopState
    <3>4. DestroyInv'
      BY <2>7 DEF ThreadStep, BeginThread, InitCallback, Publish, EnterLoop, LoopCheck,
                  PollWoken, UserReturns, ClearLoop, Unlock, DestructLoop, PollOther,
                  QuitSelf, Goto, DestroyInv, Harmless, owner
    <3> QED
      BY <3>1, <3>2, <3>3, <3>4
  <2>8. CASE GetNextLoop \/ UNCHANGED vars
    BY <2>8 DEF GetNextLoop, vars, owner, loopState, PointerInv, StartInv, Starting,
                QuitInv, QuitByOwner, Destroying, DestroyInv, Harmless
  <2> QED
    BY <2>1, <2>2, <2>3, <2>4, <2>5, <2>6, <2>7, <2>8 DEF Next, OwnerStep
<1>3. QED
  BY <1>1, <1>2, TypeCorrect, PTL DEF Spec

-----------------------------------------------------------------------------
\* loop_ points to an EventLoop that exists.
THEOREM PointerIsAlive == Spec => []PublishedLoopAlive
<1>1. IInv => PublishedLoopAlive
  BY DEF IInv, PointerInv, Published, PublishedLoopAlive, LoopAlive
<1>2. QED
  BY <1>1, Inductive, PTL

\* When the destructor calls quit() the EventLoop exists, or quit by itself.
THEOREM DestructorQuitsLiveLoop == Spec => []QuitsLiveLoop
<1>1. TypeOK /\ IInv => QuitsLiveLoop
  <2> SUFFICES ASSUME TypeOK, IInv, ownerPc = "quit" PROVE LoopAlive(at) \/ selfQuit[at]
    BY DEF QuitsLiveLoop
  <2>1. tpc[at] \in Published \cup Left
    BY DEF TypeOK, IInv, StartInv, Starting
  <2>2. tpc[at] \in Left => selfQuit[at]
    BY DEF TypeOK, IInv, QuitInv, QuitByOwner, Destroying, Loops
  <2> QED
    BY <2>1, <2>2 DEF Published, Left, LoopAlive
<1>2. QED
  BY <1>1, TypeCorrect, Inductive, PTL

\* The destructor destroys mutex_, cond_ and loop_ behind the last use of
\* them by threadFunc(), unless the loop quit by itself.
THEOREM MembersAreUsedBefore == Spec => []MembersOutliveThread
<1>1. IInv => MembersOutliveThread
  BY DEF IInv, DestroyInv, Harmless, Left, MembersOutliveThread
<1>2. QED
  BY <1>1, Inductive, PTL

\* No loop gets two connections more than another.
THEOREM RoundRobinIsBalanced == Spec => []Balanced
<1>1. Init => RoundInv
  <2> SUFFICES ASSUME Init PROVE RoundInv
    OBVIOUS
  <2>1. \A i \in Loops : served[i] = IF i < next THEN 0 + 1 ELSE 0
    BY DEF Init, Loops
  <2> QED
    BY <2>1 DEF RoundInv
<1>2. TypeOK /\ RoundInv /\ [Next]_vars => RoundInv'
  <2> SUFFICES ASSUME TypeOK, RoundInv, [Next]_vars PROVE RoundInv'
    OBVIOUS
  <2>1. PICK n \in 0 .. MaxCalls :
          \A i \in Loops : served[i] = IF i < next THEN n + 1 ELSE n
    BY DEF RoundInv
  <2>2. CASE GetNextLoop
    <3>1. served[next] = n
      BY <2>1 DEF TypeOK, Loops
    <3>2. n < MaxCalls /\ served' = [served EXCEPT ![next] = n + 1]
      BY <2>2, <3>1 DEF GetNextLoop
    <3>3. CASE next + 1 < NumThreads
      <4>1. next' = next + 1
        BY <2>2, <3>3 DEF GetNextLoop, Advance, TypeOK, Loops
      <4>2. \A i \in Loops : served'[i] = IF i < next' THEN n + 1 ELSE n
        BY <2>1, <3>2, <4>1 DEF TypeOK, Loops
      <4> QED
        BY <4>2 DEF RoundInv
    <3>4. CASE next + 1 = NumThreads
      <4>1. next' = 0
        BY <2>2, <3>4 DEF GetNextLoop, Advance
      <4>2. \A i \in Loops : served'[i] = IF i < next' THEN (n + 1) + 1 ELSE n + 1
        BY <2>1, <3>2, <3>4, <4>1 DEF TypeOK, Loops
      <4>3. n + 1 \in 0 .. MaxCalls
        BY <3>2
      <4> QED
        BY <4>2, <4>3 DEF RoundInv
    <3> QED
      BY <3>3, <3>4 DEF TypeOK, Loops
  <2>3. CASE ~GetNextLoop
    <3>1. UNCHANGED <<next, served>>
      BY <2>3 DEF Next, OwnerStep, StartThread, SemWait, TestLoop, ReadLoop, QuitLoop,
                  WakeLoop, Join, DestroyMembers, SpuriousWakeup, Destroy, ThreadStep,
                  BeginThread, InitCallback, Publish, EnterLoop, LoopCheck, PollWoken,
                  UserReturns, ClearLoop, Unlock, DestructLoop, PollOther, QuitSelf,
                  Goto, vars
    <3> QED
      BY <3>1 DEF RoundInv
  <2> QED
    BY <2>2, <2>3
<1>3. TypeOK /\ RoundInv => Balanced
  BY DEF RoundInv, Balanced, TypeOK, Loops
<1>4. QED
  BY <1>1, <1>2, <1>3, TypeCorrect, PTL DEF Spec
=============================================================================
