--------------------------- MODULE TimerQueueProofs ---------------------------
(***************************************************************************)
(* Proofs about TimerQueue for any addresses, threads, kinds of timers and *)
(* bounds: its types, that the two sets agree, that no deleted timer is    *)
(* followed, that cancels take effect and hit their own timer only, and    *)
(* when the timerfd is armed.                                              *)
(***************************************************************************)
EXTENDS TimerQueue, SequenceTheorems, WellFoundedInduction, TLAPS

USE SlotsAssumption, KindsAssumption, BoundsAssumption

Timers == [sequence : 0 .. MaxTimers, expiration : Nat, repeat : BOOLEAN, interval : Nat]

\* timers_ and activeTimers_ seen from one entry and from one id.
MatchInv ==
    /\ \A e \in timers : e[1] = heap[e[2]].expiration /\ IdOf(e[2]) \in activeTimers
    /\ \A id \in activeTimers :
           id = IdOf(id[1]) /\ <<heap[id[1]].expiration, id[1]>> \in timers

\* NoDanglingTimer in two parts: the pointers, and that no timer is queued to
\* be added twice.
HeldInv ==
    /\ \A e \in timers \cup expired : Live(e[2])
    /\ \A id \in PendingAdds : Live(id[1]) /\ id = IdOf(id[1])
    /\ \A e \in timers, f \in expired : e[2] # f[2]
    /\ \A e, f \in expired : e[2] = f[2] => e = f
    /\ \A id \in PendingAdds : \A e \in timers \cup expired : e[2] # id[1]

Distinct ==
    \A i, j \in DOMAIN requests :
        i # j /\ requests[i][1] = "add" => requests[i] # requests[j]

OwnInv == MatchInv /\ HeldInv /\ Distinct

\* Only handleRead() holds expired timers.  Those of them that were cancelled
\* are in cancelingTimers_, and no others are; a timer that was cancelled
\* after it was queued is not in the queue, nor about to be.
CancelInv ==
    /\ expired # {} => phase = "calling"
    /\ \A s \in Slots : heap[s].sequence <= numCreated
    /\ \A id \in cancelled : id[2] <= numCreated
    /\ activeTimers \cap cancelled = {} /\ PendingAdds \cap cancelled = {}
    /\ \A e \in expired : IdOf(e[2]) \in cancelled <=> IdOf(e[2]) \in cancelingTimers

\* One-shot timers that were called are remembered.
CalledInv == \A e \in called : heap[e[2]].repeat \/ heap[e[2]].sequence \in completed

\* NotLate, of every timer.
FuseInv == fuse > 0 => \A e \in timers : fuse <= Larger(e[1] - now, 1)

Awake == fuse > 0 \/ readable \/ emptyExpiry

\* StallsOnlyAfterEmptyExpiry, with what reset() will do when callbacks run.
StallInv ==
    IF phase = "calling" THEN expired # {} \/ Awake ELSE timers # {} => Awake

-----------------------------------------------------------------------------
\* A nonempty set of numbers has a least one, and so a set of entries has an
\* earliest expiration.
LEMMA LeastNumber ==
    ASSUME NEW T, T \subseteq Nat, T # {}
    PROVE  \E x \in T : \A y \in T : x <= y
<1> DEFINE R == OpToRel(<, Nat)
<1>1. IsWellFoundedOn(R, Nat)
  BY NatLessThanWellFounded
<1>2. \A x, y \in Nat : y < x => <<y, x>> \in R
  BY DEF OpToRel
<1> HIDE DEF R
<1>3. PICK x \in T : \A y \in T : ~ (<<y, x>> \in R)
  BY <1>1, WFMin
<1>4. \A y \in T : ~ (y < x)
  BY <1>2, <1>3
<1>5. \A y \in T : x <= y
  BY <1>4
<1> QED
  BY <1>5

\* Earliest is one of the expirations, and none is before it.
LEMMA EarliestIsFirst ==
    ASSUME NEW entries, entries \subseteq Nat \X Slots, entries # {}
    PROVE  /\ Earliest(entries) \in Nat
           /\ \A e \in entries : Earliest(entries) <= e[1]
           /\ \E e \in entries : Earliest(entries) = e[1]
<1> DEFINE T == {e[1] : e \in entries}
<1>1. T \subseteq Nat /\ T # {}
  OBVIOUS
<1>2. PICK x \in T : \A y \in T : x <= y
  BY <1>1, LeastNumber
<1>3. \E e \in entries : \A f \in entries : e[1] <= f[1]
  BY <1>2
<1> QED
  BY <1>3 DEF Earliest

-----------------------------------------------------------------------------
(* What addTimerInLoop() and cancelInLoop() change *)

\* addTimerInLoop(): the timer enters both sets, and the timerfd is armed for
\* it when it is the earliest.
LEMMA AddEffect ==
    ASSUME NEW s, NEW timer, AddTimerInLoop(s, timer)
    PROVE  /\ timers' = timers \cup {<<timer.expiration, s>>}
           /\ activeTimers' = activeTimers \cup {<<s, timer.sequence>>}
           /\ UNCHANGED cancelingTimers
           /\ \/ /\ EarliestChanged(timer.expiration) /\ Arm(timer.expiration)
                 /\ emptyExpiry' = FALSE
              \/ /\ ~EarliestChanged(timer.expiration)
                 /\ UNCHANGED <<fuse, readable, emptyExpiry>>
BY DEF AddTimerInLoop, Insert, timerfd

\* cancelInLoop(): what is found is erased, what is not is remembered during
\* callbacks.
LEMMA CancelEffect ==
    ASSUME NEW id, CancelInLoop(id)
    PROVE  /\ \/ id \in activeTimers /\ EraseTimer(id) /\ UNCHANGED cancelingTimers
              \/ /\ id \notin activeTimers /\ UNCHANGED <<timers, activeTimers, heap>>
                 /\ cancelingTimers' = IF callingExpiredTimers
                                       THEN cancelingTimers \cup {id} ELSE cancelingTimers
           /\ cancelled' = IF Live(id[1]) /\ id = IdOf(id[1]) /\ id \notin PendingAdds
                           THEN cancelled \cup {id} ELSE cancelled
           /\ UNCHANGED <<fuse, readable, completed, emptyExpiry>>
BY DEF CancelInLoop, FindActive, timerfd

\* The constructor of Timer gives it the next sequence number.
LEMMA NewTimerType ==
    ASSUME TypeOK, NEW kind \in Kinds, numCreated < MaxTimers
    PROVE  /\ NewTimer(kind) \in Timers
           /\ NewTimer(kind).sequence = numCreated + 1
           /\ numCreated + 1 \in 1 .. MaxTimers
<1>1. kind.delay \in Nat /\ kind.repeat \in BOOLEAN /\ kind.interval \in Nat
  OBVIOUS
<1>2. now + kind.delay \in Nat /\ numCreated + 1 \in 1 .. MaxTimers
  BY <1>1 DEF TypeOK
<1> QED
  BY <1>1, <1>2 DEF NewTimer, Timers

\* resetTimerfd() arms for one tick at least.
LEMMA ArmType ==
    ASSUME TypeOK, NEW when \in Nat, Arm(when)
    PROVE  fuse' \in Nat /\ fuse' > 0 /\ readable' = FALSE
<1>1. now \in Nat /\ fuse' = Larger(when - now, 1)
  BY DEF TypeOK, Arm
<1>2. fuse' \in Nat /\ fuse' > 0
  BY <1>1 DEF Larger
<1> QED
  BY <1>2 DEF Arm

\* addTimerInLoop() keeps the types of what it changes.
LEMMA AddType ==
    ASSUME TypeOK, NEW s \in Slots, NEW timer \in Timers, AddTimerInLoop(s, timer)
    PROVE  /\ timers' \subseteq Nat \X Slots
           /\ activeTimers' \subseteq Ids /\ cancelingTimers' \subseteq Ids
           /\ fuse' \in Nat /\ readable' \in BOOLEAN /\ emptyExpiry' \in BOOLEAN
<1>1. /\ timers' = timers \cup {<<timer.expiration, s>>}
      /\ activeTimers' = activeTimers \cup {<<s, timer.sequence>>}
      /\ UNCHANGED cancelingTimers
      /\ \/ Arm(timer.expiration) /\ emptyExpiry' = FALSE
         \/ UNCHANGED <<fuse, readable, emptyExpiry>>
  BY AddEffect
<1>2. timer.expiration \in Nat /\ timer.sequence \in 0 .. MaxTimers
  BY DEF Timers
<1>3. timers' \subseteq Nat \X Slots
  BY <1>1, <1>2 DEF TypeOK
<1>4. activeTimers' \subseteq Ids
  BY <1>1, <1>2 DEF TypeOK, Ids
<1>5. Arm(timer.expiration) => fuse' \in Nat /\ readable' = FALSE
  BY <1>2, ArmType
<1>6. fuse' \in Nat /\ readable' \in BOOLEAN /\ emptyExpiry' \in BOOLEAN
  BY <1>1, <1>5 DEF TypeOK
<1> QED
  BY <1>1, <1>3, <1>4, <1>6 DEF TypeOK

\* cancelInLoop() keeps the types of what it changes.
LEMMA CancelType ==
    ASSUME TypeOK, NEW id \in Ids, CancelInLoop(id)
    PROVE  /\ timers' \subseteq Nat \X Slots
           /\ activeTimers' \subseteq Ids /\ cancelingTimers' \subseteq Ids
           /\ heap' \in [Slots -> Timers]
           /\ cancelled' \subseteq Ids
           /\ UNCHANGED <<fuse, readable, completed, emptyExpiry>>
<1>1. heap' \in [Slots -> Timers]
  <2>1. heap' = heap \/ heap' = [heap EXCEPT ![id[1]] = Free]
    BY CancelEffect DEF EraseTimer
  <2>2. heap \in [Slots -> Timers] /\ Free \in Timers
    BY DEF TypeOK, Free, Timers
  <2> QED
    BY <2>1, <2>2
<1>2. timers' \subseteq Nat \X Slots /\ activeTimers' \subseteq Ids
  BY CancelEffect DEF TypeOK, EraseTimer
<1>3. cancelingTimers' \subseteq Ids /\ cancelled' \subseteq Ids
  BY CancelEffect DEF TypeOK
<1> QED
  BY <1>1, <1>2, <1>3, CancelEffect

-----------------------------------------------------------------------------
\* Every variable of the queue keeps its type; in particular the timerfd is
\* never armed with a negative time.
THEOREM TypeCorrect == Spec => []TypeOK
<1>1. Init => TypeOK
  <2> SUFFICES ASSUME Init PROVE TypeOK
    OBVIOUS
  <2>1. heap \in [Slots -> Timers]
    BY DEF Init, Free, Timers
  <2>2. requests \in Seq({"add", "cancel"} \X Ids)
    BY EmptySeq DEF Init
  <2>3. adding \in [Threads -> Ids \cup {NoId}]
    BY DEF Init
  <2>4. now \in 0 .. MaxTime /\ handleNow \in 0 .. MaxTime /\ numCreated \in 0 .. MaxTimers
    BY DEF Init
  <2>5. readable \in BOOLEAN /\ emptyExpiry \in BOOLEAN
    BY DEF Init
  <2> QED
    BY <2>1, <2>2, <2>3, <2>4, <2>5 DEF Init, TypeOK, Timers
<1>2. TypeOK /\ [Next]_vars => TypeOK'
  <2> SUFFICES ASSUME TypeOK, [Next]_vars PROVE TypeOK'
    OBVIOUS
  <2>0. heap \in [Slots -> Timers]
    BY DEF TypeOK, Timers
  <2>1. ASSUME NEW s \in Slots, NEW kind \in Kinds, AddTimer(s, kind)
        PROVE  TypeOK'
    <3>1. NewTimer(kind) \in Timers /\ numCreated + 1 \in 1 .. MaxTimers
      BY <2>1, NewTimerType DEF AddTimer
    <3>2. heap' \in [Slots -> Timers]
      BY <2>0, <2>1, <3>1 DEF AddTimer
    <3>3. AddTimerInLoop(s, NewTimer(kind))
      BY <2>1 DEF AddTimer
    <3>4. published' \subseteq Ids /\ numCreated' \in 0 .. MaxTimers
      BY <2>1, <3>1 DEF AddTimer, TypeOK, Ids
    <3>5. UNCHANGED <<now, phase, handleNow, expired, called, requests, adding, cancelled,
                      completed>>
      BY <2>1 DEF AddTimer, handling
    <3> QED
      BY <3>1, <3>2, <3>3, <3>4, <3>5, AddType DEF TypeOK, Timers
  <2>2. ASSUME NEW id \in published, Cancel(id)
        PROVE  TypeOK'
    <3>1. id \in Ids /\ CancelInLoop(id)
      BY <2>2 DEF Cancel, TypeOK
    <3>2. UNCHANGED <<now, numCreated, phase, handleNow, expired, called, requests, adding,
                      published>>
      BY <2>2 DEF Cancel, handling, callers
    <3> QED
      BY <3>1, <3>2, CancelType DEF TypeOK, Timers
  <2>3. ASSUME NEW p \in Threads, NEW s \in Slots, NEW kind \in Kinds,
               AddTimerFrom(p, s, kind)
        PROVE  TypeOK'
    <3>1. NewTimer(kind) \in Timers /\ numCreated + 1 \in 1 .. MaxTimers
      BY <2>3, NewTimerType DEF AddTimerFrom
    <3>2. heap' \in [Slots -> Timers]
      BY <2>0, <2>3, <3>1 DEF AddTimerFrom
    <3>3. <<s, numCreated + 1>> \in Ids /\ numCreated' \in 0 .. MaxTimers
      BY <2>3, <3>1 DEF AddTimerFrom, Ids
    <3>4. requests' \in Seq({"add", "cancel"} \X Ids)
      BY <2>3, <3>3, AppendProperties DEF AddTimerFrom, AddRequest, TypeOK
    <3>5. adding' \in [Threads -> Ids \cup {NoId}]
      BY <2>3, <3>3 DEF AddTimerFrom, TypeOK
    <3>6. UNCHANGED <<now, fuse, readable, timers, activeTimers, cancelingTimers, phase,
                      handleNow, expired, called, published, cancelled, completed,
                      emptyExpiry>>
      BY <2>3 DEF AddTimerFrom, timerfd, sets, handling, history
    <3> QED
      BY <3>2, <3>3, <3>4, <3>5, <3>6 DEF TypeOK, Timers
  <2>4. ASSUME NEW p \in Threads, AddTimerReturns(p)
        PROVE  TypeOK'
    <3>1. adding[p] \in Ids
      BY <2>4 DEF AddTimerReturns, TypeOK
    <3>2. published' \subseteq Ids
      <4>1. PICK sequence \in (IF Live(adding[p][1]) THEN {heap[adding[p][1]].sequence}
                               ELSE 0 .. numCreated) :
                published' = published \cup {<<adding[p][1], sequence>>}
        BY <2>4 DEF AddTimerReturns
      <4>2. sequence \in 0 .. MaxTimers
        <5>1. adding[p][1] \in Slots
          BY <3>1 DEF Ids
        <5>2. heap[adding[p][1]].sequence \in 0 .. MaxTimers
          BY <2>0, <5>1 DEF Timers
        <5>3. numCreated \in 0 .. MaxTimers
          BY DEF TypeOK
        <5> QED
          BY <4>1, <5>2, <5>3
      <4> QED
        BY <3>1, <4>1, <4>2 DEF TypeOK, Ids
    <3>3. adding' \in [Threads -> Ids \cup {NoId}]
      BY <2>4 DEF AddTimerReturns, TypeOK
    <3>4. UNCHANGED <<now, fuse, readable, heap, numCreated, timers, activeTimers,
                      cancelingTimers, phase, handleNow, expired, called, requests,
                      cancelled, completed, emptyExpiry>>
      BY <2>4 DEF AddTimerReturns, timerfd, sets, handling, history
    <3> QED
      BY <3>2, <3>3, <3>4 DEF TypeOK
  <2>5. ASSUME NEW p \in Threads, NEW id \in published, CancelFrom(p, id)
        PROVE  TypeOK'
    <3>1. requests' \in Seq({"add", "cancel"} \X Ids)
      BY <2>5, AppendProperties DEF CancelFrom, CancelRequest, TypeOK
    <3> QED
      BY <2>5, <3>1 DEF CancelFrom, TypeOK, timerfd, sets, handling, history
  <2>6. CASE RunRequest
    <3>1. requests' \in Seq({"add", "cancel"} \X Ids) /\ Head(requests)[2] \in Ids
      BY <2>6, HeadTailProperties DEF RunRequest, TypeOK
    <3> DEFINE id == Head(requests)[2]
    <3>2. UNCHANGED <<now, numCreated, phase, handleNow, expired, called, adding, published>>
      BY <2>6 DEF RunRequest, handling
    <3>3. CASE AddTimerInLoop(id[1], heap[id[1]]) /\ UNCHANGED <<heap, cancelled, completed>>
      <4>1. id[1] \in Slots /\ heap[id[1]] \in Timers
        BY <2>0, <3>1 DEF Ids
      <4> QED
        BY <3>1, <3>2, <3>3, <4>1, AddType DEF TypeOK
    <3>4. CASE CancelInLoop(id)
      BY <3>1, <3>2, <3>4, CancelType DEF TypeOK, Timers
    <3> QED
      BY <2>6, <3>3, <3>4 DEF RunRequest
  <2>7. CASE Tick
    BY <2>7 DEF Tick, TypeOK, sets, handling, callers, history
  <2>8. CASE PollTimerfd
    BY <2>8 DEF PollTimerfd, TypeOK, timerfd, sets, callers, history
  <2>9. CASE HandleRead
    <3>1. timers' \subseteq Nat \X Slots /\ expired' \subseteq Nat \X Slots
          /\ activeTimers' \subseteq Ids
      BY <2>9 DEF HandleRead, GetExpired, Due, TypeOK
    <3>2. emptyExpiry' \in BOOLEAN /\ called' \subseteq expired'
      BY <2>9 DEF HandleRead
    <3> QED
      BY <2>9, <3>1, <3>2 DEF HandleRead, TypeOK, callers
  <2>10. ASSUME NEW e \in expired, CallExpired(e)
         PROVE  TypeOK'
    <3>1. heap[e[2]].sequence \in 0 .. MaxTimers
      BY <2>0 DEF TypeOK, Timers
    <3>2. completed' \subseteq 0 .. MaxTimers
      BY <2>10, <3>1 DEF CallExpired, TypeOK
    <3> QED
      BY <2>10, <3>2 DEF CallExpired, TypeOK, timerfd, sets, callers
  <2>11. CASE Reset
    <3> DEFINE kept == {e[2] : e \in {f \in expired : Restarts(f)}}
               dropped == {e[2] : e \in expired} \ kept
    <3>1. heap' = [s \in Slots |-> IF s \in kept THEN Restart(heap[s])
                                   ELSE IF s \in dropped THEN Free ELSE heap[s]]
          /\ Insert([s \in kept |-> heap'[s]])
      BY <2>11 DEF Reset
    <3>2. ASSUME NEW s \in Slots
          PROVE  Restart(heap[s]) \in Timers
      <4>1. handleNow \in Nat /\ heap[s] \in Timers
        BY <2>0 DEF TypeOK
      <4>2. handleNow + heap[s].interval \in Nat
        BY <4>1 DEF Timers
      <4> QED
        BY <4>1, <4>2 DEF Restart, Timers
    <3>3. heap' \in [Slots -> Timers]
      BY <2>0, <3>1, <3>2 DEF Free, Timers
    <3>4. kept \subseteq Slots
      BY DEF TypeOK
    <3>5. timers' \subseteq Nat \X Slots /\ activeTimers' \subseteq Ids
      <4> DEFINE new == [s \in kept |-> heap'[s]]
      <4>1. \A s \in kept : new[s] \in Timers
        BY <3>3, <3>4
      <4>2. \A s \in kept : new[s].expiration \in Nat /\ new[s].sequence \in 0 .. MaxTimers
        BY <4>1 DEF Timers
      <4>3. DOMAIN new = kept
        OBVIOUS
      <4>4. timers' = timers \cup {<<new[s].expiration, s>> : s \in kept}
            /\ activeTimers' = activeTimers \cup {<<s, new[s].sequence>> : s \in kept}
        BY <3>1, <4>3 DEF Insert
      <4> HIDE DEF new
      <4> QED
        BY <3>4, <4>2, <4>4 DEF TypeOK, Ids
    <3>6. fuse' \in Nat /\ readable' \in BOOLEAN
      <4>1. (Arm(Earliest(timers')) /\ timers' # {}) \/ UNCHANGED <<fuse, readable>>
        BY <2>11 DEF Reset, Rearm, timerfd
      <4>2. timers' # {} => Earliest(timers') \in Nat
        BY <3>5, EarliestIsFirst
      <4> QED
        BY <4>1, <4>2, ArmType DEF TypeOK
    <3> QED
      BY <2>11, <3>3, <3>5, <3>6 DEF Reset, TypeOK, Timers, callers, history
  <2>12. CASE UNCHANGED vars
    BY <2>12 DEF vars, timerfd, sets, handling, callers, history, TypeOK
  <2> QED
    BY <2>1, <2>2, <2>3, <2>4, <2>5, <2>6, <2>7, <2>8, <2>9, <2>10, <2>11, <2>12
       DEF Next, OwnerCall, ThreadStep, HandleTimerfd
<1>3. QED
  BY <1>1, <1>2, PTL DEF Spec

-----------------------------------------------------------------------------
(* The queue of functors *)

\* The timers about to be added are those of the queued addTimerInLoop().
LEMMA PendingElement ==
    ASSUME TypeOK
    PROVE  \A id : id \in PendingAdds <=>
               \E i \in 1 .. Len(requests) : requests[i] = <<"add", id>>
<1>1. DOMAIN requests = 1 .. Len(requests)
  BY LenProperties DEF TypeOK
<1>2. \A i \in 1 .. Len(requests) : requests[i] \in {"add", "cancel"} \X Ids
  BY ElementOfSeq DEF TypeOK
<1>3. \A i \in 1 .. Len(requests) : requests[i] = <<requests[i][1], requests[i][2]>>
  BY <1>2
<1> QED
  BY <1>1, <1>3 DEF PendingAdds

\* The timers about to be added have addresses and sequence numbers.
LEMMA PendingType ==
    ASSUME TypeOK
    PROVE  PendingAdds \subseteq Ids
<1>1. \A i \in 1 .. Len(requests) : requests[i] \in {"add", "cancel"} \X Ids
  BY ElementOfSeq DEF TypeOK
<1> QED
  BY <1>1, PendingElement

\* queueInLoop() of an addTimerInLoop().
LEMMA AppendAdd ==
    ASSUME TypeOK, Distinct, NEW id \in Ids, id \notin PendingAdds,
           requests' = Append(requests, AddRequest(id))
    PROVE  PendingAdds' = PendingAdds \cup {id} /\ Distinct'
<1> DEFINE n == Len(requests)
<1>1. /\ n \in Nat /\ DOMAIN requests = 1 .. n
      /\ requests' \in Seq({"add", "cancel"} \X Ids) /\ Len(requests') = n + 1
      /\ DOMAIN requests' = 1 .. n + 1
  BY AppendProperties, LenProperties DEF TypeOK, AddRequest
<1>2. /\ \A i \in 1 .. n : requests'[i] = requests[i]
      /\ requests'[n + 1] = <<"add", id>>
  BY AppendProperties DEF TypeOK, AddRequest
<1>3. \A i \in 1 .. n : requests[i] # <<"add", id>>
  BY PendingElement
<1> HIDE DEF n
<1>4. PendingAdds' = PendingAdds \cup {id}
  BY <1>1, <1>2 DEF PendingAdds
<1>5. Distinct'
  BY <1>1, <1>2, <1>3 DEF Distinct
<1> QED
  BY <1>4, <1>5

\* queueInLoop() of a cancelInLoop().
LEMMA AppendCancel ==
    ASSUME TypeOK, Distinct, NEW id \in Ids, requests' = Append(requests, CancelRequest(id))
    PROVE  PendingAdds' = PendingAdds /\ Distinct'
<1> DEFINE n == Len(requests)
<1>1. /\ n \in Nat /\ DOMAIN requests = 1 .. n
      /\ DOMAIN requests' = 1 .. n + 1
  BY AppendProperties, LenProperties DEF TypeOK, CancelRequest
<1>2. /\ \A i \in 1 .. n : requests'[i] = requests[i]
      /\ requests'[n + 1] = <<"cancel", id>>
  BY AppendProperties DEF TypeOK, CancelRequest
<1> HIDE DEF n
<1>3. PendingAdds' = PendingAdds
  BY <1>1, <1>2 DEF PendingAdds
<1>4. Distinct'
  BY <1>1, <1>2 DEF Distinct
<1> QED
  BY <1>3, <1>4

\* doPendingFunctors() takes the first functor.
LEMMA TakeRequest ==
    ASSUME TypeOK, Distinct, requests # <<>>, requests' = Tail(requests)
    PROVE  /\ Head(requests)[2] \in Ids
           /\ PendingAdds' \subseteq PendingAdds
           /\ Head(requests)[1] = "add" =>
                  Head(requests)[2] \in PendingAdds /\ Head(requests)[2] \notin PendingAdds'
           /\ Distinct'
<1> DEFINE n == Len(requests)
<1>1. /\ n \in Nat /\ n > 0 /\ DOMAIN requests = 1 .. n /\ DOMAIN requests' = 1 .. n - 1
      /\ Head(requests) = requests[1]
  BY HeadTailProperties, LenProperties, EmptySeq DEF TypeOK
<1>2. \A i \in 1 .. n - 1 : requests'[i] = requests[i + 1]
  BY HeadTailProperties DEF TypeOK
<1>3. \A i \in 1 .. n : requests[i] = <<requests[i][1], requests[i][2]>> /\ requests[i][2] \in Ids
  <2>1. \A i \in 1 .. n : requests[i] \in {"add", "cancel"} \X Ids
    BY ElementOfSeq DEF TypeOK
  <2> QED
    BY <2>1
<1> HIDE DEF n
<1>4. PendingAdds' \subseteq PendingAdds
  BY <1>1, <1>2 DEF PendingAdds
<1>5. ASSUME requests[1][1] = "add"
      PROVE  requests[1][2] \in PendingAdds /\ requests[1][2] \notin PendingAdds'
  <2>1. requests[1][2] \in PendingAdds
    BY <1>1, <1>5 DEF PendingAdds
  <2>2. \A i \in 1 .. n - 1 : requests'[i] # requests[1]
    BY <1>1, <1>2, <1>5 DEF Distinct
  <2>3. \A i \in 1 .. n - 1 : requests'[i] = <<requests'[i][1], requests'[i][2]>>
    BY <1>1, <1>2, <1>3
  <2>4. requests[1] = <<"add", requests[1][2]>>
    BY <1>1, <1>3, <1>5
  <2>5. ASSUME NEW i \in 1 .. n - 1, requests'[i][1] = "add", requests'[i][2] = requests[1][2]
        PROVE  FALSE
    BY <2>2, <2>3, <2>4, <2>5
  <2>6. requests[1][2] \notin PendingAdds'
    BY <1>1, <2>5 DEF PendingAdds
  <2> QED
    BY <2>1, <2>6
<1>6. Distinct'
  BY <1>1, <1>2 DEF Distinct
<1> QED
  BY <1>1, <1>3, <1>4, <1>5, <1>6

-----------------------------------------------------------------------------
(* The timers the queue holds, and where *)

\* insert() of a timer that was not held, at an address that nothing else in
\* the queue has.
LEMMA AddHeld ==
    ASSUME TypeOK, OwnInv, NEW s \in Slots,
           \A r \in Slots : r # s => heap'[r] = heap[r],
           heap'[s].sequence # 0,
           \A e \in timers \cup expired : e[2] # s,
           timers' = timers \cup {<<heap'[s].expiration, s>>},
           activeTimers' = activeTimers \cup {<<s, heap'[s].sequence>>},
           expired' = expired, PendingAdds' \subseteq PendingAdds,
           \A id \in PendingAdds' : id[1] # s
    PROVE  MatchInv' /\ HeldInv'
<1>1. \A id \in PendingAdds : id[1] \in Slots
  BY PendingType DEF Ids
<1>2. \A e \in timers \cup expired : e[2] \in Slots
  BY DEF TypeOK
<1>3. ASSUME NEW id \in activeTimers
      PROVE  id[1] \in Slots /\ id[1] # s
  <2>1. PICK e \in timers : e = <<heap[id[1]].expiration, id[1]>>
    BY DEF OwnInv, MatchInv
  <2>2. e[2] = id[1]
    BY <2>1
  <2> QED
    BY <2>2, <1>2
<1>4. MatchInv'
  BY <1>2, <1>3 DEF OwnInv, MatchInv, IdOf
<1>5. HeldInv'
  BY <1>1, <1>2, <1>3 DEF OwnInv, HeldInv, Live, IdOf
<1> QED
  BY <1>4, <1>5

\* cancelInLoop() takes a timer out of everything that holds it.
LEMMA CancelHeld ==
    ASSUME TypeOK, OwnInv, NEW id \in Ids, CancelInLoop(id), expired' = expired,
           PendingAdds' \subseteq PendingAdds
    PROVE  MatchInv' /\ HeldInv'
<1>1. CASE id \notin activeTimers /\ UNCHANGED <<timers, activeTimers, heap>>
  <2>1. MatchInv'
    BY <1>1 DEF OwnInv, MatchInv, IdOf
  <2>2. HeldInv'
    BY <1>1 DEF OwnInv, HeldInv, Live, IdOf
  <2> QED
    BY <2>1, <2>2
<1>2. CASE id \in activeTimers /\ EraseTimer(id)
  <2> DEFINE s == id[1]
  <2>1. s \in Slots /\ id = IdOf(s) /\ <<heap[s].expiration, s>> \in timers
    BY <1>2 DEF OwnInv, MatchInv, Ids
  <2>2. /\ timers' = timers \ {<<heap[s].expiration, s>>}
        /\ activeTimers' = activeTimers \ {id}
        /\ \A r \in Slots : r # s => heap'[r] = heap[r]
    BY <1>2 DEF EraseTimer, TypeOK
  <2>3. \A e \in timers' : e[2] # s /\ e[2] \in Slots
    BY <2>1, <2>2 DEF OwnInv, MatchInv, TypeOK
  <2>4. \A e \in expired : e[2] # s /\ e[2] \in Slots
    BY <2>1 DEF OwnInv, HeldInv, TypeOK
  <2>5. \A it \in PendingAdds : it[1] # s /\ it[1] \in Slots
    BY <2>1, PendingType DEF OwnInv, HeldInv, Ids
  <2>6. \A it \in activeTimers' : it[1] # s /\ it[1] \in Slots
    BY <2>1, <2>2 DEF OwnInv, MatchInv, TypeOK, Ids
  <2> HIDE DEF s
  <2>7. MatchInv'
    <3>1. \A e \in timers' : IdOf(e[2]) # id
      BY <2>1, <2>3 DEF IdOf
    <3>2. \A e \in timers' :
              e[1] = heap'[e[2]].expiration /\ <<e[2], heap'[e[2]].sequence>> \in activeTimers'
      BY <2>2, <2>3, <3>1 DEF OwnInv, MatchInv, IdOf
    <3>3. \A it \in activeTimers' :
              /\ it = <<it[1], heap'[it[1]].sequence>>
              /\ <<heap'[it[1]].expiration, it[1]>> \in timers'
      BY <2>2, <2>6 DEF OwnInv, MatchInv, IdOf
    <3> QED
      BY <3>2, <3>3 DEF MatchInv, IdOf
  <2>8. HeldInv'
    BY <2>2, <2>3, <2>4, <2>5 DEF OwnInv, HeldInv, Live, IdOf
  <2> QED
    BY <2>7, <2>8
<1> QED
  BY <1>1, <1>2, CancelEffect

\* A step that leaves the timers and what holds them alone.
LEMMA SameHeld ==
    ASSUME OwnInv, UNCHANGED <<heap, timers, activeTimers, expired>>,
           PendingAdds' \subseteq PendingAdds
    PROVE  MatchInv' /\ HeldInv'
<1>1. MatchInv'
  BY DEF OwnInv, MatchInv, IdOf
<1>2. HeldInv'
  BY DEF OwnInv, HeldInv, Live, IdOf
<1> QED
  BY <1>1, <1>2

\* A free address is the address of nothing that the queue holds.
LEMMA FreeIsNotHeld ==
    ASSUME TypeOK, OwnInv, NEW s \in Slots, ~Live(s)
    PROVE  /\ \A e \in timers \cup expired : e[2] # s
           /\ \A id \in PendingAdds : id[1] # s
BY DEF OwnInv, HeldInv

\* getExpired() takes the due entries out of both sets.
LEMMA GetExpiredHeld ==
    ASSUME TypeOK, OwnInv, GetExpired, UNCHANGED <<heap, requests>>
    PROVE  OwnInv'
<1>1. PendingAdds' = PendingAdds /\ Distinct'
  BY DEF PendingAdds, OwnInv, Distinct
<1>2. /\ expired' \subseteq timers /\ timers' = timers \ expired'
      /\ activeTimers' = activeTimers \ {IdOf(e[2]) : e \in expired'}
  BY DEF GetExpired, Due
<1>3. \A e \in timers : e = <<heap[e[2]].expiration, e[2]>> /\ IdOf(e[2]) \in activeTimers
  BY DEF OwnInv, MatchInv, TypeOK
<1>4. \A e, f \in timers : e[2] = f[2] => e = f
  BY <1>3
<1>5. MatchInv'
  <2>1. \A e \in timers' : IdOf(e[2]) \in activeTimers'
    <3>1. ASSUME NEW e \in timers', NEW f \in expired', IdOf(e[2]) = IdOf(f[2])
          PROVE  FALSE
      <4>1. e[2] = f[2]
        BY <3>1 DEF IdOf
      <4> QED
        BY <1>2, <1>4, <4>1
    <3> QED
      BY <1>2, <1>3, <3>1
  <2>2. ASSUME NEW id \in activeTimers'
        PROVE  <<heap[id[1]].expiration, id[1]>> \in timers'
    <3>1. PICK e \in timers : e = <<heap[id[1]].expiration, id[1]>>
      BY <1>2 DEF OwnInv, MatchInv
    <3>2. id = IdOf(e[2])
      BY <1>2, <3>1 DEF OwnInv, MatchInv
    <3> QED
      BY <1>2, <3>1, <3>2
  <2> QED
    BY <1>2, <1>3, <2>1, <2>2 DEF OwnInv, MatchInv, IdOf
<1>6. HeldInv'
  <2>1. \A e \in timers' \cup expired' : e \in timers
    BY <1>2
  <2>2. \A e \in timers', f \in expired' : e[2] # f[2]
    BY <1>2, <1>4
  <2> QED
    BY <1>1, <1>4, <2>1, <2>2 DEF OwnInv, HeldInv, Live, IdOf
<1> QED
  BY <1>1, <1>5, <1>6 DEF OwnInv

\* What reset() makes of the timers of expired.
LEMMA ResetEffect ==
    ASSUME TypeOK, OwnInv, Reset
    PROVE  LET kept == {e[2] : e \in {f \in expired : Restarts(f)}}
               dropped == {e[2] : e \in expired} \ kept
           IN  /\ kept \subseteq Slots /\ dropped \subseteq Slots
               /\ \A s \in kept : heap'[s].sequence = heap[s].sequence
               /\ \A s \in dropped : heap'[s] = Free
               /\ \A s \in Slots \ (kept \cup dropped) : heap'[s] = heap[s]
               /\ timers' = timers \cup {<<heap'[s].expiration, s>> : s \in kept}
               /\ activeTimers' = activeTimers \cup {<<s, heap'[s].sequence>> : s \in kept}
               /\ expired' = {}
<1> DEFINE kept == {e[2] : e \in {f \in expired : Restarts(f)}}
           dropped == {e[2] : e \in expired} \ kept
           new == [s \in kept |-> heap'[s]]
<1>1. kept \subseteq Slots /\ dropped \subseteq Slots
  BY DEF TypeOK
<1>2. heap' = [s \in Slots |-> IF s \in kept THEN Restart(heap[s])
                               ELSE IF s \in dropped THEN Free ELSE heap[s]]
      /\ Insert(new) /\ expired' = {}
  BY DEF Reset
<1>3. \A s \in kept : new[s] = heap'[s]
  OBVIOUS
<1>4. DOMAIN new = kept
  OBVIOUS
<1> HIDE DEF new
<1>5. \A s \in kept : heap'[s].sequence = heap[s].sequence
  BY <1>1, <1>2 DEF Restart, TypeOK
<1> HIDE DEF kept, dropped
<1>6. timers' = timers \cup {<<heap'[s].expiration, s>> : s \in kept}
      /\ activeTimers' = activeTimers \cup {<<s, heap'[s].sequence>> : s \in kept}
  BY <1>2, <1>3, <1>4 DEF Insert
<1>7. \A s \in dropped : heap'[s] = Free
  BY <1>1, <1>2 DEF dropped
<1>8. \A s \in Slots \ (kept \cup dropped) : heap'[s] = heap[s]
  BY <1>2
<1> QED
  BY <1>1, <1>2, <1>5, <1>6, <1>7, <1>8 DEF kept, dropped

\* reset() leaves no timer in neither place, and none in two.
LEMMA ResetHeld ==
    ASSUME TypeOK, OwnInv, Reset, UNCHANGED requests
    PROVE  OwnInv'
<1> DEFINE kept == {e[2] : e \in {f \in expired : Restarts(f)}}
           dropped == {e[2] : e \in expired} \ kept
<1>1. /\ kept \subseteq Slots /\ dropped \subseteq Slots
      /\ \A s \in kept : heap'[s].sequence = heap[s].sequence
      /\ \A s \in Slots \ (kept \cup dropped) : heap'[s] = heap[s]
      /\ timers' = timers \cup {<<heap'[s].expiration, s>> : s \in kept}
      /\ activeTimers' = activeTimers \cup {<<s, heap'[s].sequence>> : s \in kept}
      /\ expired' = {}
  BY ResetEffect
<1>2. \A s \in kept \cup dropped : \E e \in expired : e[2] = s
  OBVIOUS
<1>3. PendingAdds' = PendingAdds /\ Distinct'
  BY DEF PendingAdds, OwnInv, Distinct
<1> HIDE DEF kept, dropped
<1>4. \A e \in timers : e[2] \in Slots \ (kept \cup dropped)
  BY <1>2 DEF OwnInv, HeldInv, TypeOK
<1>5. ASSUME NEW id \in PendingAdds
      PROVE  id[1] \in Slots \ (kept \cup dropped)
  <2>1. id[1] \in Slots
    BY PendingType DEF Ids
  <2> QED
    BY <1>2, <2>1 DEF OwnInv, HeldInv
<1>6. ASSUME NEW id \in activeTimers
      PROVE  id[1] \in Slots \ (kept \cup dropped)
  <2>1. PICK e \in timers : e = <<heap[id[1]].expiration, id[1]>>
    BY DEF OwnInv, MatchInv
  <2>2. e[2] = id[1]
    BY <2>1
  <2> QED
    BY <2>2, <1>4
<1>7. \A s \in kept : heap'[s].sequence # 0
  BY <1>1, <1>2 DEF OwnInv, HeldInv, Live
<1>8. MatchInv'
  <2>1. ASSUME NEW e \in timers'
        PROVE  e[1] = heap'[e[2]].expiration /\ <<e[2], heap'[e[2]].sequence>> \in activeTimers'
    <3>1. CASE e \in timers
      BY <1>1, <1>4, <3>1 DEF OwnInv, MatchInv, IdOf
    <3>2. CASE e \notin timers
      <4>1. PICK s \in kept : e = <<heap'[s].expiration, s>>
        BY <1>1, <3>2
      <4> QED
        BY <1>1, <4>1
    <3> QED
      BY <3>1, <3>2
  <2>2. ASSUME NEW id \in activeTimers'
        PROVE  /\ id = <<id[1], heap'[id[1]].sequence>>
               /\ <<heap'[id[1]].expiration, id[1]>> \in timers'
    <3>1. CASE id \in activeTimers
      BY <1>1, <1>6, <3>1 DEF OwnInv, MatchInv, IdOf
    <3>2. CASE id \notin activeTimers
      <4>1. PICK s \in kept : id = <<s, heap'[s].sequence>>
        BY <1>1, <3>2
      <4> QED
        BY <1>1, <4>1
    <3> QED
      BY <3>1, <3>2
  <2> QED
    BY <2>1, <2>2 DEF MatchInv, IdOf
<1>9. HeldInv'
  <2>1. ASSUME NEW e \in timers'
        PROVE  heap'[e[2]].sequence # 0
    <3>1. CASE e \in timers
      BY <1>1, <1>4, <3>1 DEF OwnInv, HeldInv, Live
    <3>2. CASE e \notin timers
      <4>1. PICK s \in kept : e = <<heap'[s].expiration, s>>
        BY <1>1, <3>2
      <4> QED
        BY <1>7, <4>1
    <3> QED
      BY <3>1, <3>2
  <2>2. ASSUME NEW id \in PendingAdds
        PROVE  heap'[id[1]].sequence # 0 /\ id = <<id[1], heap'[id[1]].sequence>>
    BY <1>1, <1>5 DEF OwnInv, HeldInv, Live, IdOf
  <2>3. ASSUME NEW id \in PendingAdds, NEW e \in timers'
        PROVE  e[2] # id[1]
    <3>1. CASE e \in timers
      BY <3>1 DEF OwnInv, HeldInv
    <3>2. CASE e \notin timers
      <4>1. PICK s \in kept : e = <<heap'[s].expiration, s>>
        BY <1>1, <3>2
      <4> QED
        BY <1>5, <4>1
    <3> QED
      BY <3>1, <3>2
  <2> QED
    BY <1>1, <1>3, <2>1, <2>2, <2>3 DEF HeldInv, Live, IdOf
<1> QED
  BY <1>3, <1>8, <1>9 DEF OwnInv

-----------------------------------------------------------------------------
\* What the queue holds is alive, known to both sets, and in one place.
LEMMA OwnCorrect == Spec => []OwnInv
<1>1. Init => OwnInv
  <2> SUFFICES ASSUME Init PROVE OwnInv
    OBVIOUS
  <2>1. requests = <<>> /\ DOMAIN <<>> = {}
    BY DEF Init
  <2>2. PendingAdds = {} /\ Distinct
    BY <2>1 DEF PendingAdds, Distinct
  <2> QED
    BY <2>2 DEF Init, OwnInv, MatchInv, HeldInv
<1>2. TypeOK /\ OwnInv /\ [Next]_vars => OwnInv'
  <2> SUFFICES ASSUME TypeOK, OwnInv, [Next]_vars PROVE OwnInv'
    OBVIOUS
  <2>1. ASSUME NEW s \in Slots, NEW kind \in Kinds, AddTimer(s, kind)
        PROVE  OwnInv'
    <3>1. heap' = [heap EXCEPT ![s] = NewTimer(kind)] /\ ~Live(s)
          /\ AddTimerInLoop(s, NewTimer(kind)) /\ UNCHANGED <<expired, requests>>
      BY <2>1 DEF AddTimer, handling
    <3>2. heap'[s] = NewTimer(kind) /\ heap'[s].sequence # 0
          /\ \A r \in Slots : r # s => heap'[r] = heap[r]
      <4>1. numCreated + 1 \in 1 .. MaxTimers /\ NewTimer(kind).sequence = numCreated + 1
        BY <2>1, NewTimerType DEF AddTimer
      <4>2. heap'[s] = NewTimer(kind) /\ \A r \in Slots : r # s => heap'[r] = heap[r]
        BY <3>1 DEF TypeOK
      <4>3. numCreated + 1 # 0
        BY <4>1
      <4> QED
        BY <4>1, <4>2, <4>3
    <3>3. timers' = timers \cup {<<heap'[s].expiration, s>>}
          /\ activeTimers' = activeTimers \cup {<<s, heap'[s].sequence>>}
      <4> DEFINE timer == NewTimer(kind)
      <4>1. AddTimerInLoop(s, timer) /\ heap'[s] = timer
        BY <3>1, <3>2
      <4> HIDE DEF timer
      <4>2. timers' = timers \cup {<<timer.expiration, s>>}
            /\ activeTimers' = activeTimers \cup {<<s, timer.sequence>>}
        BY <4>1, AddEffect
      <4> QED
        BY <4>1, <4>2
    <3>4. PendingAdds' = PendingAdds /\ Distinct'
      BY <3>1 DEF PendingAdds, OwnInv, Distinct
    <3>5. /\ \A e \in timers \cup expired : e[2] # s
          /\ \A id \in PendingAdds' : id[1] # s
      BY <3>1, <3>4, FreeIsNotHeld
    <3>6. MatchInv' /\ HeldInv'
      BY <3>1, <3>2, <3>3, <3>4, <3>5, AddHeld
    <3> QED
      BY <3>4, <3>6 DEF OwnInv
  <2>2. ASSUME NEW id \in published, Cancel(id)
        PROVE  OwnInv'
    <3>1. id \in Ids /\ CancelInLoop(id) /\ UNCHANGED <<expired, requests>>
      BY <2>2 DEF Cancel, TypeOK, handling, callers
    <3>2. PendingAdds' = PendingAdds /\ Distinct'
      BY <3>1 DEF PendingAdds, OwnInv, Distinct
    <3> QED
      BY <3>1, <3>2, CancelHeld DEF OwnInv
  <2>3. ASSUME NEW p \in Threads, NEW s \in Slots, NEW kind \in Kinds,
               AddTimerFrom(p, s, kind)
        PROVE  OwnInv'
    <3> DEFINE id == <<s, numCreated + 1>>
    <3>1. /\ heap' = [heap EXCEPT ![s] = NewTimer(kind)] /\ ~Live(s)
          /\ requests' = Append(requests, AddRequest(id))
          /\ UNCHANGED <<timers, activeTimers, expired>>
      BY <2>3 DEF AddTimerFrom, sets, handling
    <3>2. /\ heap'[s] = NewTimer(kind) /\ NewTimer(kind).sequence = numCreated + 1
          /\ numCreated + 1 # 0
          /\ \A r \in Slots : r # s => heap'[r] = heap[r]
      <4>1. numCreated + 1 \in 1 .. MaxTimers /\ NewTimer(kind).sequence = numCreated + 1
        BY <2>3, NewTimerType DEF AddTimerFrom
      <4>2. heap'[s] = NewTimer(kind) /\ \A r \in Slots : r # s => heap'[r] = heap[r]
        BY <3>1 DEF TypeOK
      <4>3. numCreated + 1 # 0
        BY <4>1
      <4> QED
        BY <4>1, <4>2, <4>3
    <3>3. id \in Ids /\ id \notin PendingAdds
      BY <2>3, <3>1, NewTimerType, FreeIsNotHeld DEF AddTimerFrom, Ids
    <3>4. PendingAdds' = PendingAdds \cup {id} /\ Distinct'
      BY <3>1, <3>3, AppendAdd DEF OwnInv
    <3>5. /\ \A e \in timers \cup expired : e[2] # s /\ e[2] \in Slots
          /\ \A it \in PendingAdds : it[1] # s /\ it[1] \in Slots
      BY <3>1, FreeIsNotHeld, PendingType DEF TypeOK, Ids
    <3>6. ASSUME NEW it \in activeTimers
          PROVE  it[1] \in Slots /\ it[1] # s
      <4>1. PICK e \in timers : e = <<heap[it[1]].expiration, it[1]>>
        BY DEF OwnInv, MatchInv
      <4> QED
        BY <3>5, <4>1
    <3>7. MatchInv'
      <4>1. ASSUME NEW e \in timers
            PROVE  e[1] = heap'[e[2]].expiration
                   /\ <<e[2], heap'[e[2]].sequence>> \in activeTimers
        <5>1. heap'[e[2]] = heap[e[2]]
          BY <3>2, <3>5
        <5> QED
          BY <5>1 DEF OwnInv, MatchInv, IdOf
      <4>2. ASSUME NEW it \in activeTimers
            PROVE  it = <<it[1], heap'[it[1]].sequence>>
                   /\ <<heap'[it[1]].expiration, it[1]>> \in timers
        <5>1. heap'[it[1]] = heap[it[1]]
          BY <3>2, <3>6
        <5> QED
          BY <5>1 DEF OwnInv, MatchInv, IdOf
      <4> QED
        BY <3>1, <4>1, <4>2 DEF MatchInv, IdOf
    <3>8. HeldInv'
      <4>1. \A e \in timers \cup expired : heap'[e[2]].sequence # 0
        BY <3>2, <3>5 DEF OwnInv, HeldInv, Live
      <4>2. \A it \in PendingAdds :
                heap'[it[1]].sequence # 0 /\ it = <<it[1], heap'[it[1]].sequence>>
        BY <3>2, <3>5 DEF OwnInv, HeldInv, Live, IdOf
      <4>3. id[1] = s /\ heap'[id[1]].sequence # 0 /\ id = <<id[1], heap'[id[1]].sequence>>
        BY <3>2
      <4> HIDE DEF id
      <4>4. \A it \in PendingAdds' : \A e \in timers \cup expired : e[2] # it[1]
        BY <3>4, <3>5, <4>3 DEF OwnInv, HeldInv
      <4> QED
        BY <3>1, <3>4, <4>1, <4>2, <4>3, <4>4 DEF OwnInv, HeldInv, Live, IdOf
    <3> QED
      BY <3>4, <3>7, <3>8 DEF OwnInv
  <2>4. ASSUME NEW p \in Threads, NEW id \in published, CancelFrom(p, id)
        PROVE  OwnInv'
    <3>1. UNCHANGED <<heap, timers, activeTimers, expired>>
      BY <2>4 DEF CancelFrom, sets, handling
    <3>2. PendingAdds' = PendingAdds /\ Distinct'
      BY <2>4, AppendCancel DEF CancelFrom, TypeOK, OwnInv
    <3> QED
      BY <3>1, <3>2, SameHeld DEF OwnInv
  <2>5. CASE RunRequest
    <3> DEFINE id == Head(requests)[2]
    <3>1. requests # <<>> /\ requests' = Tail(requests) /\ UNCHANGED expired
      BY <2>5 DEF RunRequest, handling
    <3>2. /\ id \in Ids /\ PendingAdds' \subseteq PendingAdds /\ Distinct'
          /\ Head(requests)[1] = "add" => id \in PendingAdds /\ id \notin PendingAdds'
      BY <3>1, TakeRequest DEF OwnInv
    <3> HIDE DEF id
    <3>3. CASE CancelInLoop(id)
      BY <3>1, <3>2, <3>3, CancelHeld DEF OwnInv
    <3>4. CASE Head(requests)[1] = "add" /\ AddTimerInLoop(id[1], heap[id[1]])
               /\ UNCHANGED heap
      <4>1. id[1] \in Slots /\ heap'[id[1]].sequence # 0 /\ id = IdOf(id[1])
        BY <3>2, <3>4 DEF OwnInv, HeldInv, Live, Ids
      <4>2. timers' = timers \cup {<<heap'[id[1]].expiration, id[1]>>}
            /\ activeTimers' = activeTimers \cup {<<id[1], heap'[id[1]].sequence>>}
        BY <3>4, AddEffect
      <4>3. \A e \in timers \cup expired : e[2] # id[1]
        BY <3>2, <3>4 DEF OwnInv, HeldInv
      <4>4. ASSUME NEW it \in PendingAdds', it[1] = id[1]
            PROVE  FALSE
        <5>1. it = id
          BY <3>2, <4>1, <4>4 DEF OwnInv, HeldInv
        <5> QED
          BY <3>2, <3>4, <5>1
      <4>5. MatchInv' /\ HeldInv'
        BY <3>1, <3>2, <3>4, <4>1, <4>2, <4>3, <4>4, AddHeld
      <4> QED
        BY <3>2, <4>5 DEF OwnInv
    <3> QED
      BY <2>5, <3>3, <3>4 DEF RunRequest, id
  <2>6. CASE HandleRead
    BY <2>6, GetExpiredHeld DEF HandleRead, callers
  <2>7. CASE Reset
    BY <2>7, ResetHeld DEF Reset, callers
  <2>8. CASE UNCHANGED <<heap, timers, activeTimers, expired, requests>>
    <3>1. PendingAdds' = PendingAdds /\ Distinct'
      BY <2>8 DEF PendingAdds, OwnInv, Distinct
    <3> QED
      BY <2>8, <3>1, SameHeld DEF OwnInv
  <2>9. Tick \/ PollTimerfd \/ (\E e \in expired : CallExpired(e))
            \/ (\E p \in Threads : AddTimerReturns(p)) \/ UNCHANGED vars
          => UNCHANGED <<heap, timers, activeTimers, expired, requests>>
    BY DEF Tick, PollTimerfd, CallExpired, AddTimerReturns, vars, sets, handling, callers
  <2> QED
    BY <2>1, <2>2, <2>3, <2>4, <2>5, <2>6, <2>7, <2>8, <2>9
       DEF Next, OwnerCall, ThreadStep, HandleTimerfd
<1>3. QED
  BY <1>1, <1>2, TypeCorrect, PTL DEF Spec

\* timers_ and activeTimers_ always hold the same timers.
THEOREM SetsAgree == Spec => []TimersMatchActive
<1>1. TypeOK /\ OwnInv => TimersMatchActive
  <2> SUFFICES ASSUME TypeOK, OwnInv PROVE TimersMatchActive
    OBVIOUS
  <2> DEFINE EntryOf(id) == <<heap[id[1]].expiration, id[1]>>
  <2>1. ASSUME NEW e \in timers
        PROVE  \E id \in activeTimers : e = EntryOf(id)
    <3>1. e = <<heap[e[2]].expiration, e[2]>>
      BY DEF TypeOK, OwnInv, MatchInv
    <3>2. IdOf(e[2]) \in activeTimers /\ IdOf(e[2])[1] = e[2]
      BY DEF OwnInv, MatchInv, IdOf
    <3> QED
      BY <3>1, <3>2
  <2>2. \A id \in activeTimers : EntryOf(id) \in timers /\ id = IdOf(id[1])
    BY DEF OwnInv, MatchInv
  <2> HIDE DEF EntryOf
  <2>3. timers = {EntryOf(id) : id \in activeTimers}
    BY <2>1, <2>2
  <2> QED
    BY <2>2, <2>3 DEF EntryOf, TimersMatchActive
<1>2. QED
  BY <1>1, TypeCorrect, OwnCorrect, PTL

\* No timer is followed after it was deleted, or deleted twice.
THEOREM NothingDangles == Spec => []NoDanglingTimer
<1>1. OwnInv => NoDanglingTimer
  BY DEF OwnInv, HeldInv, Distinct, NoDanglingTimer
<1>2. QED
  BY <1>1, OwnCorrect, PTL

-----------------------------------------------------------------------------
(* When the timerfd is armed *)

\* The steps, as the clock and the timerfd see them.
LEMMA TimerfdSteps ==
    ASSUME TypeOK, OwnInv, [Next]_vars
    PROVE  \/ \E s \in Slots, timer \in Timers :
                  AddTimerInLoop(s, timer) /\ UNCHANGED <<now, phase, expired>>
           \/ \E id \in Ids : CancelInLoop(id) /\ UNCHANGED <<now, phase, expired>>
           \/ Tick \/ HandleRead \/ Reset
           \/ /\ UNCHANGED <<now, fuse, readable, timers, expired, emptyExpiry>>
              /\ phase' = phase \/ {phase, phase'} = {"idle", "reported"}
<1>1. ASSUME NEW s \in Slots, NEW kind \in Kinds, AddTimer(s, kind)
      PROVE  \E timer \in Timers :
                 AddTimerInLoop(s, timer) /\ UNCHANGED <<now, phase, expired>>
  <2>1. NewTimer(kind) \in Timers
    BY <1>1, NewTimerType DEF AddTimer
  <2>2. AddTimerInLoop(s, NewTimer(kind)) /\ UNCHANGED <<now, phase, expired>>
    BY <1>1 DEF AddTimer, handling
  <2> QED
    BY <2>1, <2>2
<1>2. ASSUME NEW id \in published, Cancel(id)
      PROVE  id \in Ids /\ CancelInLoop(id) /\ UNCHANGED <<now, phase, expired>>
  BY <1>2 DEF Cancel, TypeOK, handling
<1>3. ASSUME RunRequest
      PROVE  \/ \E s \in Slots, timer \in Timers :
                    AddTimerInLoop(s, timer) /\ UNCHANGED <<now, phase, expired>>
             \/ \E id \in Ids : CancelInLoop(id) /\ UNCHANGED <<now, phase, expired>>
  <2> DEFINE id == Head(requests)[2]
  <2>1. UNCHANGED <<now, phase, expired>>
    BY <1>3 DEF RunRequest, handling
  <2>2. id \in Ids
    BY <1>3, TakeRequest DEF RunRequest, OwnInv
  <2>3. AddTimerInLoop(id[1], heap[id[1]]) \/ CancelInLoop(id)
    BY <1>3 DEF RunRequest
  <2> HIDE DEF id
  <2>4. id[1] \in Slots /\ heap[id[1]] \in Timers
    BY <2>2 DEF Ids, TypeOK, Timers
  <2> QED
    BY <2>1, <2>2, <2>3, <2>4
<1>4. (\E p \in Threads : ThreadStep(p)) \/ (\E e \in expired : CallExpired(e))
          \/ UNCHANGED vars
      => UNCHANGED <<now, fuse, readable, timers, expired, emptyExpiry, phase>>
  BY DEF ThreadStep, AddTimerFrom, AddTimerReturns, CancelFrom, CallExpired, vars, timerfd,
         sets, handling, history
<1>5. PollTimerfd => /\ UNCHANGED <<now, fuse, readable, timers, expired, emptyExpiry>>
                     /\ {phase, phase'} = {"idle", "reported"}
  BY DEF PollTimerfd, timerfd, sets, history
<1> QED
  BY <1>1, <1>2, <1>3, <1>4, <1>5 DEF Next, OwnerCall, HandleTimerfd

\* The timerfd expires when the earliest timer is due, or before.
LEMMA FuseCorrect == Spec => []FuseInv
<1>1. Init => FuseInv
  BY DEF Init, FuseInv
<1>2. TypeOK /\ TypeOK' /\ OwnInv /\ FuseInv /\ [Next]_vars => FuseInv'
  <2> SUFFICES ASSUME TypeOK, TypeOK', OwnInv, FuseInv, [Next]_vars PROVE FuseInv'
    OBVIOUS
  <2>0. now \in Nat /\ fuse \in Nat /\ \A e \in timers : e[1] \in Nat
    BY DEF TypeOK
  <2>1. ASSUME NEW s \in Slots, NEW timer \in Timers, AddTimerInLoop(s, timer), now' = now
        PROVE  FuseInv'
    <3> DEFINE when == timer.expiration
    <3>1. when \in Nat /\ timers' = timers \cup {<<when, s>>}
      BY <2>1, AddEffect DEF Timers
    <3>2. CASE EarliestChanged(when) /\ Arm(when)
      <4>1. fuse' = Larger(when - now, 1) /\ \A e \in timers : when < e[1]
        BY <3>2 DEF EarliestChanged, Arm
      <4> HIDE DEF when
      <4>2. \A e \in timers' : when <= e[1] /\ e[1] \in Nat
        BY <2>0, <3>1, <4>1
      <4> QED
        BY <2>0, <2>1, <3>1, <4>1, <4>2 DEF FuseInv, Larger
    <3>3. CASE ~EarliestChanged(when) /\ fuse' = fuse
      <4>1. PICK e \in timers : ~(when < e[1])
        BY <3>3 DEF EarliestChanged
      <4> HIDE DEF when
      <4>2. fuse > 0 => fuse <= Larger(when - now, 1)
        BY <2>0, <3>1, <4>1 DEF FuseInv, Larger
      <4> QED
        BY <2>1, <3>1, <3>3, <4>2 DEF FuseInv
    <3> QED
      BY <2>1, <3>2, <3>3, AddEffect
  <2>2. ASSUME timers' \subseteq timers, UNCHANGED <<now, fuse>>
        PROVE  FuseInv'
    BY <2>2 DEF FuseInv
  <2>3. ASSUME NEW id \in Ids, CancelInLoop(id)
        PROVE  timers' \subseteq timers /\ fuse' = fuse
    BY <2>3, CancelEffect DEF EraseTimer
  <2>4. CASE Tick
    <3>1. now' = now + 1 /\ timers' = timers /\ fuse' = IF fuse > 0 THEN fuse - 1 ELSE 0
      BY <2>4 DEF Tick, sets
    <3> QED
      BY <2>0, <3>1 DEF FuseInv, Larger
  <2>5. HandleRead => timers' \subseteq timers /\ UNCHANGED <<now, fuse>>
    BY DEF HandleRead, GetExpired
  <2>6. CASE Reset
    <3>1. now' = now /\ timers' \subseteq Nat \X Slots
      BY <2>6 DEF Reset, TypeOK
    <3>2. CASE timers' # {} /\ Arm(Earliest(timers'))
      <4>1. fuse' = Larger(Earliest(timers') - now, 1)
        BY <3>2 DEF Arm
      <4>2. Earliest(timers') \in Nat /\ \A e \in timers' : Earliest(timers') <= e[1]
        BY <3>1, <3>2, EarliestIsFirst
      <4>3. \A e \in timers' : e[1] \in Nat
        BY <3>1
      <4> QED
        BY <2>0, <3>1, <4>1, <4>2, <4>3 DEF FuseInv, Larger
    <3>3. CASE timers' = {}
      BY <3>3 DEF FuseInv
    <3>4. CASE expired = {} /\ fuse' = fuse
      <4>1. timers' = timers
        BY <2>6, <3>4, ResetEffect
      <4> QED
        BY <2>2, <3>1, <3>4, <4>1
    <3> QED
      BY <2>6, <3>2, <3>3, <3>4 DEF Reset, Rearm, timerfd
  <2> QED
    BY <2>1, <2>2, <2>3, <2>4, <2>5, <2>6, TimerfdSteps
<1>3. QED
  BY <1>1, <1>2, TypeCorrect, OwnCorrect, PTL DEF Spec

\* An armed timerfd never expires after the earliest timer is due.
THEOREM NeverLate == Spec => []NotLate
<1>1. TypeOK /\ FuseInv => NotLate
  <2> SUFFICES ASSUME TypeOK, FuseInv, fuse > 0, timers # {}
               PROVE  fuse <= Larger(Earliest(timers) - now, 1)
    BY DEF NotLate
  <2>1. PICK e \in timers : Earliest(timers) = e[1]
    BY EarliestIsFirst DEF TypeOK
  <2> QED
    BY <2>1 DEF FuseInv
<1>2. QED
  BY <1>1, TypeCorrect, FuseCorrect, PTL

\* The only way to leave a scheduled timer without an armed timerfd is an
\* expiry that finds no timer due.
THEOREM OnlyAnEmptyExpiryStalls == Spec => []StallsOnlyAfterEmptyExpiry
<1>1. Init => StallInv
  BY DEF Init, StallInv
<1>2. TypeOK /\ TypeOK' /\ OwnInv /\ StallInv /\ [Next]_vars => StallInv'
  <2> SUFFICES ASSUME TypeOK, TypeOK', OwnInv, StallInv, [Next]_vars PROVE StallInv'
    OBVIOUS
  <2>1. ASSUME NEW s \in Slots, NEW timer \in Timers, AddTimerInLoop(s, timer),
               UNCHANGED <<now, phase, expired>>
        PROVE  StallInv'
    <3>1. CASE Arm(timer.expiration)
      <4>1. fuse' > 0
        BY <3>1, ArmType DEF Timers
      <4> QED
        BY <4>1 DEF StallInv, Awake
    <3>2. CASE ~EarliestChanged(timer.expiration) /\ UNCHANGED <<fuse, readable, emptyExpiry>>
      <4>1. timers # {}
        BY <3>2 DEF EarliestChanged
      <4> QED
        BY <2>1, <3>2, <4>1 DEF StallInv, Awake
    <3> QED
      BY <2>1, <3>1, <3>2, AddEffect
  <2>2. ASSUME NEW id \in Ids, CancelInLoop(id), UNCHANGED <<now, phase, expired>>
        PROVE  StallInv'
    <3>1. timers' \subseteq timers /\ UNCHANGED <<fuse, readable, emptyExpiry>>
      BY <2>2, CancelEffect DEF EraseTimer
    <3> QED
      BY <2>2, <3>1 DEF StallInv, Awake
  <2>3. CASE Tick
    <3>1. UNCHANGED <<timers, phase, expired, emptyExpiry>>
          /\ fuse' = (IF fuse > 0 THEN fuse - 1 ELSE 0) /\ readable' = (readable \/ fuse = 1)
      BY <2>3 DEF Tick, sets, handling, history
    <3>2. Awake => Awake'
      <4>1. fuse > 0 => fuse = 1 \/ fuse' > 0
        BY <3>1 DEF TypeOK
      <4> QED
        BY <3>1, <4>1 DEF Awake
    <3> QED
      BY <3>1, <3>2 DEF StallInv
  <2>4. CASE HandleRead
    <3>1. phase' = "calling" /\ emptyExpiry' = (expired' = {})
      BY <2>4 DEF HandleRead
    <3> QED
      BY <3>1 DEF StallInv, Awake
  <2>5. CASE Reset
    <3>1. phase = "calling" /\ phase' = "idle" /\ emptyExpiry' = emptyExpiry
      BY <2>5 DEF Reset, callingExpiredTimers, history
    <3>2. CASE timers' # {} /\ Arm(Earliest(timers'))
      <4>1. Earliest(timers') \in Nat
        BY <3>2, EarliestIsFirst DEF TypeOK
      <4>2. fuse' > 0
        BY <3>2, <4>1, ArmType
      <4> QED
        BY <4>2 DEF StallInv, Awake, TypeOK
    <3>3. CASE timers' = {}
      BY <3>1, <3>3 DEF StallInv
    <3>4. CASE expired = {} /\ UNCHANGED <<fuse, readable>>
      BY <3>1, <3>4 DEF StallInv, Awake
    <3> QED
      BY <2>5, <3>2, <3>3, <3>4 DEF Reset, Rearm, timerfd
  <2>6. CASE /\ UNCHANGED <<now, fuse, readable, timers, expired, emptyExpiry>>
             /\ phase' = phase \/ {phase, phase'} = {"idle", "reported"}
    <3>1. phase = "calling" <=> phase' = "calling"
      BY <2>6
    <3> QED
      BY <2>6, <3>1 DEF StallInv, Awake
  <2> QED
    BY <2>1, <2>2, <2>3, <2>4, <2>5, <2>6, TimerfdSteps
<1>3. StallInv => StallsOnlyAfterEmptyExpiry
  BY DEF StallInv, Awake, StallsOnlyAfterEmptyExpiry
<1>4. QED
  BY <1>1, <1>2, <1>3, TypeCorrect, OwnCorrect, PTL DEF Spec

-----------------------------------------------------------------------------
(* Cancels, and the timers that go away *)

\* addTimer() leaves every other address alone.
LEMMA NewTimerEffect ==
    ASSUME TypeOK, NEW s \in Slots, NEW kind \in Kinds, numCreated < MaxTimers,
           heap' = [heap EXCEPT ![s] = NewTimer(kind)]
    PROVE  /\ heap'[s].sequence = numCreated + 1
           /\ \A r \in Slots : r # s => heap'[r] = heap[r]
<1>1. NewTimer(kind).sequence = numCreated + 1
  BY NewTimerType
<1> QED
  BY <1>1 DEF TypeOK

\* The number of a new timer is not that of one that was cancelled.
LEMMA NewIsNotCancelled ==
    ASSUME TypeOK, CancelInv, NEW s
    PROVE  <<s, numCreated + 1>> \notin cancelled
BY DEF TypeOK, CancelInv

\* cancelInLoop() of a timer in the queue: it alone is deleted, and it is
\* remembered as cancelled.
LEMMA EraseEffect ==
    ASSUME TypeOK, OwnInv, NEW id \in Ids, CancelInLoop(id), id \in activeTimers
    PROVE  /\ activeTimers' = activeTimers \ {id}
           /\ \A r \in Slots : r # id[1] => heap'[r] = heap[r]
           /\ heap'[id[1]] = Free /\ id = IdOf(id[1]) /\ id[1] \in Slots
           /\ UNCHANGED cancelingTimers /\ cancelled' = cancelled \cup {id}
           /\ id \notin PendingAdds /\ \A e \in expired : e[2] # id[1]
<1>1. EraseTimer(id) /\ UNCHANGED cancelingTimers
  BY CancelEffect
<1>2. id = IdOf(id[1]) /\ id[1] \in Slots
  BY DEF OwnInv, MatchInv, Ids
<1>3. PICK e \in timers : e = <<heap[id[1]].expiration, id[1]>>
  BY DEF OwnInv, MatchInv
<1>4. e[2] = id[1]
  BY <1>3
<1>5. Live(id[1]) /\ id \notin PendingAdds /\ \A f \in expired : f[2] # id[1]
  BY <1>4 DEF OwnInv, HeldInv
<1>6. cancelled' = cancelled \cup {id}
  BY <1>2, <1>5, CancelEffect
<1> QED
  BY <1>1, <1>2, <1>5, <1>6 DEF EraseTimer, TypeOK

\* cancelInLoop() of a timer that is not in the queue.
LEMMA MissEffect ==
    ASSUME NEW id \in Ids, CancelInLoop(id), id \notin activeTimers
    PROVE  /\ UNCHANGED <<activeTimers, heap>>
           /\ cancelingTimers' = IF callingExpiredTimers
                                 THEN cancelingTimers \cup {id} ELSE cancelingTimers
           /\ cancelled' = IF Live(id[1]) /\ id = IdOf(id[1]) /\ id \notin PendingAdds
                           THEN cancelled \cup {id} ELSE cancelled
BY CancelEffect

\* cancelInLoop() keeps cancelled timers out of the queue, and marks those
\* that are running for reset().
LEMMA CancelKeeps ==
    ASSUME TypeOK, OwnInv, CancelInv, NEW id \in Ids, CancelInLoop(id),
           UNCHANGED <<expired, phase, numCreated>>, PendingAdds' \subseteq PendingAdds
    PROVE  CancelInv'
<1>1. CASE id \in activeTimers
  <2>1. /\ activeTimers' = activeTimers \ {id}
        /\ \A r \in Slots : r # id[1] => heap'[r] = heap[r]
        /\ heap'[id[1]] = Free /\ id = IdOf(id[1]) /\ id[1] \in Slots
        /\ UNCHANGED cancelingTimers /\ cancelled' = cancelled \cup {id}
        /\ id \notin PendingAdds /\ \A e \in expired : e[2] # id[1]
    BY <1>1, EraseEffect
  <2>2. \A s \in Slots : heap'[s].sequence <= numCreated
    BY <2>1 DEF CancelInv, Free, TypeOK
  <2>3. id[2] <= numCreated
    BY <2>1 DEF CancelInv, IdOf
  <2>4. \A e \in expired : <<e[2], heap'[e[2]].sequence>> = IdOf(e[2]) /\ IdOf(e[2]) # id
    BY <2>1 DEF TypeOK, IdOf
  <2> QED
    BY <2>1, <2>2, <2>3, <2>4 DEF CancelInv, IdOf
<1>2. CASE id \notin activeTimers
  <2>1. /\ UNCHANGED <<activeTimers, heap>>
        /\ cancelingTimers' = IF callingExpiredTimers
                              THEN cancelingTimers \cup {id} ELSE cancelingTimers
        /\ cancelled' = IF Live(id[1]) /\ id = IdOf(id[1]) /\ id \notin PendingAdds
                        THEN cancelled \cup {id} ELSE cancelled
    BY <1>2, MissEffect
  <2>2. id = IdOf(id[1]) => id[2] <= numCreated
    <3>1. id[1] \in Slots
      BY DEF Ids
    <3>2. heap[id[1]].sequence <= numCreated
      BY <3>1 DEF CancelInv
    <3>3. IdOf(id[1])[2] = heap[id[1]].sequence
      BY DEF IdOf
    <3> QED
      BY <3>2, <3>3
  <2>3. ASSUME NEW e \in expired, IdOf(e[2]) = id
        PROVE  id \in cancelled' /\ id \in cancelingTimers'
    <3>1. e[2] = id[1]
      BY <2>3 DEF IdOf
    <3>2. Live(id[1]) /\ id \notin PendingAdds
      BY <3>1 DEF OwnInv, HeldInv
    <3>3. callingExpiredTimers
      BY DEF CancelInv, callingExpiredTimers
    <3> QED
      BY <2>1, <2>3, <3>1, <3>2, <3>3
  <2>4. ASSUME NEW e \in expired, IdOf(e[2]) # id
        PROVE  IdOf(e[2]) \in cancelled' <=> IdOf(e[2]) \in cancelingTimers'
    BY <2>1, <2>4 DEF CancelInv
  <2>5. \A e \in expired : IdOf(e[2]) \in cancelled' <=> IdOf(e[2]) \in cancelingTimers'
    BY <2>3, <2>4
  <2>6. \A it \in cancelled' : it[2] <= numCreated
    BY <2>1, <2>2 DEF CancelInv
  <2>7. activeTimers' \cap cancelled' = {} /\ PendingAdds' \cap cancelled' = {}
    BY <1>2, <2>1 DEF CancelInv
  <2> QED
    BY <2>1, <2>5, <2>6, <2>7 DEF CancelInv, IdOf
<1> QED
  BY <1>1, <1>2

\* A cancelled timer is not in the queue, on its way to it, or about to be
\* restarted.
LEMMA CancelCorrect == Spec => []CancelInv
<1>1. Init => CancelInv
  <2> SUFFICES ASSUME Init PROVE CancelInv
    OBVIOUS
  <2>1. \A s \in Slots : heap[s].sequence <= numCreated
    BY DEF Init, Free
  <2> QED
    BY <2>1 DEF Init, CancelInv
<1>2. TypeOK /\ OwnInv /\ CancelInv /\ [Next]_vars => CancelInv'
  <2> SUFFICES ASSUME TypeOK, OwnInv, CancelInv, [Next]_vars PROVE CancelInv'
    OBVIOUS
  <2>0. /\ numCreated \in Nat
        /\ \A s \in Slots : heap[s].sequence \in Nat
        /\ \A e \in expired : e[2] \in Slots
        /\ \A id \in cancelled : id[2] \in Nat
    BY DEF TypeOK, Ids
  <2>1. ASSUME NEW s \in Slots, NEW kind \in Kinds, numCreated < MaxTimers, ~Live(s),
               heap' = [heap EXCEPT ![s] = NewTimer(kind)], numCreated' = numCreated + 1,
               UNCHANGED <<phase, expired, cancelingTimers, cancelled>>,
               activeTimers' \subseteq activeTimers \cup {<<s, numCreated + 1>>},
               PendingAdds' \subseteq PendingAdds \cup {<<s, numCreated + 1>>}
        PROVE  CancelInv'
    <3>1. heap'[s].sequence = numCreated + 1 /\ \A r \in Slots : r # s => heap'[r] = heap[r]
      BY <2>1, NewTimerEffect
    <3>2. \A r \in Slots : heap'[r].sequence <= numCreated'
      BY <2>0, <2>1, <3>1 DEF CancelInv
    <3>3. \A id \in cancelled' : id[2] <= numCreated'
      BY <2>0, <2>1 DEF CancelInv
    <3>4. <<s, numCreated + 1>> \notin cancelled
      BY NewIsNotCancelled
    <3>5. \A e \in expired : heap'[e[2]] = heap[e[2]]
      BY <2>0, <2>1, <3>1, FreeIsNotHeld
    <3> QED
      BY <2>1, <3>2, <3>3, <3>4, <3>5 DEF CancelInv, IdOf
  <2>2. ASSUME NEW s \in Slots, NEW kind \in Kinds, AddTimer(s, kind)
        PROVE  CancelInv'
    <3>1. NewTimer(kind).sequence = numCreated + 1
      BY <2>2, NewTimerType DEF AddTimer
    <3>2. activeTimers' = activeTimers \cup {<<s, NewTimer(kind).sequence>>}
          /\ UNCHANGED cancelingTimers
      BY <2>2, AddEffect DEF AddTimer
    <3>3. PendingAdds' = PendingAdds
      BY <2>2 DEF AddTimer, PendingAdds
    <3> QED
      BY <2>1, <2>2, <3>1, <3>2, <3>3 DEF AddTimer, handling
  <2>3. ASSUME NEW id \in published, Cancel(id)
        PROVE  CancelInv'
    <3>1. PendingAdds' = PendingAdds
      BY <2>3 DEF Cancel, PendingAdds, callers
    <3> QED
      BY <2>3, <3>1, CancelKeeps DEF Cancel, TypeOK, handling
  <2>4. ASSUME NEW p \in Threads, NEW s \in Slots, NEW kind \in Kinds,
               AddTimerFrom(p, s, kind)
        PROVE  CancelInv'
    <3> DEFINE id == <<s, numCreated + 1>>
    <3>1. id \in Ids /\ id \notin PendingAdds
      BY <2>4, NewTimerType, FreeIsNotHeld DEF AddTimerFrom, Ids
    <3>2. PendingAdds' = PendingAdds \cup {id}
      BY <2>4, <3>1, AppendAdd DEF AddTimerFrom, OwnInv
    <3> QED
      BY <2>1, <2>4, <3>2 DEF AddTimerFrom, sets, handling, history
  <2>5. ASSUME NEW p \in Threads, NEW id \in published, CancelFrom(p, id)
        PROVE  CancelInv'
    <3>1. PendingAdds' = PendingAdds
      BY <2>5, AppendCancel DEF CancelFrom, TypeOK, OwnInv
    <3> QED
      BY <2>5, <3>1 DEF CancelFrom, CancelInv, IdOf, sets, handling, history
  <2>6. CASE RunRequest
    <3> DEFINE id == Head(requests)[2]
    <3>1. /\ id \in Ids /\ PendingAdds' \subseteq PendingAdds
          /\ Head(requests)[1] = "add" => id \in PendingAdds
          /\ UNCHANGED <<expired, phase, numCreated>>
      BY <2>6, TakeRequest DEF RunRequest, OwnInv, handling
    <3>2. \/ CancelInLoop(id)
          \/ /\ Head(requests)[1] = "add" /\ AddTimerInLoop(id[1], heap[id[1]])
             /\ UNCHANGED <<heap, cancelled>>
      BY <2>6 DEF RunRequest
    <3> HIDE DEF id
    <3>3. CASE CancelInLoop(id)
      BY <3>1, <3>3, CancelKeeps
    <3>4. CASE /\ Head(requests)[1] = "add" /\ AddTimerInLoop(id[1], heap[id[1]])
               /\ UNCHANGED <<heap, cancelled>>
      <4>1. activeTimers' = activeTimers \cup {<<id[1], heap[id[1]].sequence>>}
            /\ UNCHANGED cancelingTimers
        BY <3>1, <3>4, AddEffect DEF Ids
      <4>2. id = <<id[1], heap[id[1]].sequence>> /\ id \notin cancelled
        BY <3>1, <3>4 DEF OwnInv, HeldInv, IdOf, CancelInv
      <4>3. activeTimers' = activeTimers \cup {id}
        BY <4>1, <4>2
      <4> QED
        BY <3>1, <3>4, <4>1, <4>2, <4>3 DEF CancelInv, IdOf
    <3> QED
      BY <3>2, <3>3, <3>4
  <2>7. CASE HandleRead
    <3>1. /\ phase' = "calling" /\ cancelingTimers' = {}
          /\ UNCHANGED <<heap, numCreated, cancelled>> /\ activeTimers' \subseteq activeTimers
          /\ expired' \subseteq timers
      BY <2>7 DEF HandleRead, GetExpired, Due
    <3>2. PendingAdds' = PendingAdds
      BY <2>7 DEF HandleRead, PendingAdds, callers
    <3>3. \A e \in expired' : IdOf(e[2]) \notin cancelled
      BY <3>1 DEF OwnInv, MatchInv, CancelInv
    <3> QED
      BY <3>1, <3>2, <3>3 DEF CancelInv, IdOf
  <2>8. CASE Reset
    <3> DEFINE kept == {e[2] : e \in {f \in expired : Restarts(f)}}
               dropped == {e[2] : e \in expired} \ kept
    <3>1. /\ kept \subseteq Slots /\ dropped \subseteq Slots
          /\ \A s \in kept : heap'[s].sequence = heap[s].sequence
          /\ \A s \in dropped : heap'[s] = Free
          /\ \A s \in Slots \ (kept \cup dropped) : heap'[s] = heap[s]
          /\ activeTimers' = activeTimers \cup {<<s, heap'[s].sequence>> : s \in kept}
          /\ expired' = {}
      BY <2>8, ResetEffect
    <3>2. \A s \in kept : IdOf(s) \notin cancelled
      BY DEF Restarts, CancelInv
    <3>3. UNCHANGED <<numCreated, cancelled>> /\ PendingAdds' = PendingAdds
      BY <2>8 DEF Reset, PendingAdds, callers, history
    <3> HIDE DEF kept, dropped
    <3>4. \A s \in Slots : heap'[s].sequence <= numCreated
      <4>1. Free.sequence <= numCreated
        BY <2>0 DEF Free
      <4> QED
        BY <3>1, <4>1 DEF CancelInv
    <3>5. \A s \in kept : <<s, heap'[s].sequence>> \notin cancelled
      BY <3>1, <3>2 DEF IdOf
    <3>6. activeTimers' \cap cancelled = {}
      BY <3>1, <3>5 DEF CancelInv
    <3> QED
      BY <3>1, <3>3, <3>4, <3>6 DEF CancelInv
  <2>9. Tick \/ PollTimerfd \/ (\E e \in expired : CallExpired(e))
            \/ (\E p \in Threads : AddTimerReturns(p)) \/ UNCHANGED vars
          => /\ UNCHANGED <<heap, numCreated, activeTimers, cancelingTimers, expired, requests,
                           cancelled>>
             /\ phase' = phase \/ phase = "idle"
    BY DEF Tick, PollTimerfd, CallExpired, AddTimerReturns, vars, sets, handling, callers,
           history
  <2>10. CASE /\ UNCHANGED <<heap, numCreated, activeTimers, cancelingTimers, expired, requests,
                             cancelled>>
              /\ phase' = phase \/ phase = "idle"
    BY <2>10 DEF CancelInv, PendingAdds, IdOf
  <2> QED
    BY <2>2, <2>3, <2>4, <2>5, <2>6, <2>7, <2>8, <2>9, <2>10
       DEF Next, OwnerCall, ThreadStep, HandleTimerfd
<1>3. QED
  BY <1>1, <1>2, TypeCorrect, OwnCorrect, PTL DEF Spec

\* A timer that was cancelled once it was in the queue is not in it again.
THEOREM CancelsTakeEffect == Spec => []CancelEffective
<1>1. CancelInv => CancelEffective
  BY DEF CancelInv, CancelEffective
<1>2. QED
  BY <1>1, CancelCorrect, PTL

\* A callback that ran is of a repeating timer, or remembered.
LEMMA CalledCorrect == Spec => []CalledInv
<1>1. Init => CalledInv
  BY DEF Init, CalledInv
<1>2. TypeOK /\ OwnInv /\ CalledInv /\ [Next]_vars => CalledInv'
  <2> SUFFICES ASSUME TypeOK, OwnInv, CalledInv, [Next]_vars PROVE CalledInv'
    OBVIOUS
  <2>1. ASSUME UNCHANGED <<called, completed>>, \A e \in expired : heap'[e[2]] = heap[e[2]]
        PROVE  CalledInv'
    BY <2>1 DEF CalledInv, TypeOK
  <2>2. ASSUME NEW s \in Slots, ~Live(s), NEW kind \in Kinds,
               heap' = [heap EXCEPT ![s] = NewTimer(kind)]
        PROVE  \A e \in expired : heap'[e[2]] = heap[e[2]]
    BY <2>2, FreeIsNotHeld DEF TypeOK
  <2>3. ASSUME NEW id \in Ids, CancelInLoop(id)
        PROVE  \A e \in expired : heap'[e[2]] = heap[e[2]]
    <3>1. CASE id \in activeTimers
      <4>1. /\ \A r \in Slots : r # id[1] => heap'[r] = heap[r]
            /\ \A e \in expired : e[2] # id[1]
        BY <2>3, <3>1, EraseEffect
      <4> QED
        BY <4>1 DEF TypeOK
    <3>2. CASE id \notin activeTimers
      BY <2>3, <3>2, MissEffect
    <3> QED
      BY <3>1, <3>2
  <2>4. ASSUME NEW s \in Slots, NEW kind \in Kinds, AddTimer(s, kind)
        PROVE  CalledInv'
    BY <2>1, <2>2, <2>4 DEF AddTimer, handling
  <2>5. ASSUME NEW id \in published, Cancel(id)
        PROVE  CalledInv'
    <3>1. id \in Ids /\ CancelInLoop(id) /\ UNCHANGED called
      BY <2>5 DEF Cancel, TypeOK, handling
    <3> QED
      BY <2>1, <2>3, <3>1, CancelEffect
  <2>6. ASSUME NEW p \in Threads, NEW s \in Slots, NEW kind \in Kinds,
               AddTimerFrom(p, s, kind)
        PROVE  CalledInv'
    BY <2>1, <2>2, <2>6 DEF AddTimerFrom, handling, history
  <2>7. CASE RunRequest
    <3> DEFINE id == Head(requests)[2]
    <3>1. id \in Ids /\ UNCHANGED called
      BY <2>7, TakeRequest DEF RunRequest, OwnInv, handling
    <3>2. CancelInLoop(id) \/ UNCHANGED <<heap, completed>>
      BY <2>7 DEF RunRequest
    <3> HIDE DEF id
    <3> QED
      BY <2>1, <2>3, <3>1, <3>2, CancelEffect
  <2>8. ASSUME NEW e \in expired, CallExpired(e)
        PROVE  CalledInv'
    <3>1. /\ called' = called \cup {e} /\ UNCHANGED heap
          /\ completed' = IF heap[e[2]].repeat THEN completed
                          ELSE completed \cup {heap[e[2]].sequence}
      BY <2>8 DEF CallExpired
    <3> QED
      BY <3>1 DEF CalledInv
  <2>9. HandleRead \/ Reset => called' = {}
    BY DEF HandleRead, Reset
  <2>10. called' = {} => CalledInv'
    BY DEF CalledInv
  <2>11. Tick \/ PollTimerfd \/ UNCHANGED vars
            \/ (\E p \in Threads : AddTimerReturns(p) \/ \E id \in published : CancelFrom(p, id))
          => UNCHANGED <<heap, called, completed>>
    BY DEF Tick, PollTimerfd, AddTimerReturns, CancelFrom, vars, handling, history
  <2> QED
    BY <2>1, <2>4, <2>5, <2>6, <2>7, <2>8, <2>9, <2>10, <2>11
       DEF Next, OwnerCall, ThreadStep, HandleTimerfd
<1>3. QED
  BY <1>1, <1>2, TypeCorrect, OwnCorrect, PTL DEF Spec

\* A timer goes away only by running, if it is one-shot, or by a cancel() of
\* its own id.
THEOREM NoTimerIsLost == Spec => []NoTimerVanishes
<1> DEFINE Gone(n) == n \in completed \/ \E id \in cancelled : id[2] = n
           Here(n) == \E s \in Slots : heap[s].sequence = n
<1>1. Init => NoTimerVanishes
  BY DEF Init, NoTimerVanishes
<1>2. /\ TypeOK /\ TypeOK' /\ OwnInv /\ CancelInv /\ CalledInv /\ NoTimerVanishes
      /\ [Next]_vars
      => NoTimerVanishes'
  <2> SUFFICES ASSUME TypeOK, TypeOK', OwnInv, CancelInv, CalledInv, NoTimerVanishes,
                      [Next]_vars
               PROVE  NoTimerVanishes'
    OBVIOUS
  <2>0. numCreated \in Nat /\ numCreated' \in Nat
    BY DEF TypeOK
  <2>1. ASSUME UNCHANGED numCreated,
               completed \subseteq completed', cancelled \subseteq cancelled',
               \A s \in Slots : \/ heap'[s].sequence = heap[s].sequence
                               \/ heap[s].sequence \in completed'
                               \/ \E id \in cancelled' : id[2] = heap[s].sequence
        PROVE  NoTimerVanishes'
    <3>1. \A n \in 1 .. numCreated : Here(n) \/ Gone(n)
      BY DEF NoTimerVanishes
    <3>2. ASSUME NEW n, Gone(n)
          PROVE  Gone(n)'
      BY <2>1, <3>2
    <3>3. ASSUME NEW n, Here(n)
          PROVE  Here(n)' \/ Gone(n)'
      BY <2>1, <3>3
    <3>4. \A n \in 1 .. numCreated' : Here(n)' \/ Gone(n)'
      BY <2>1, <3>1, <3>2, <3>3
    <3> QED
      BY <3>4 DEF NoTimerVanishes
  <2>2. ASSUME NEW s \in Slots, NEW kind \in Kinds, numCreated < MaxTimers, ~Live(s),
               heap' = [heap EXCEPT ![s] = NewTimer(kind)], numCreated' = numCreated + 1,
               UNCHANGED <<completed, cancelled>>
        PROVE  NoTimerVanishes'
    <3>1. heap'[s].sequence = numCreated + 1 /\ \A r \in Slots : r # s => heap'[r] = heap[r]
      BY <2>2, NewTimerEffect
    <3>2. ASSUME NEW n \in 1 .. numCreated', n # numCreated + 1
          PROVE  Here(n)' \/ Gone(n)'
      <4>1. n \in 1 .. numCreated /\ n # 0
        BY <2>0, <2>2, <3>2
      <4>2. Here(n) \/ Gone(n)
        BY <4>1 DEF NoTimerVanishes
      <4>3. ASSUME NEW r \in Slots, heap[r].sequence = n
            PROVE  heap'[r].sequence = n
        <5>1. r # s
          BY <2>2, <4>1, <4>3 DEF Live
        <5> QED
          BY <3>1, <4>3, <5>1
      <4> QED
        BY <2>2, <4>2, <4>3
    <3>3. \E r \in Slots : heap'[r].sequence = numCreated + 1
      BY <3>1
    <3> QED
      BY <3>2, <3>3 DEF NoTimerVanishes
  <2>3. ASSUME NEW id \in Ids, CancelInLoop(id), UNCHANGED numCreated
        PROVE  NoTimerVanishes'
    <3>1. completed' = completed
      BY <2>3, CancelEffect
    <3>2. CASE id \in activeTimers
      <4>1. /\ \A r \in Slots : r # id[1] => heap'[r] = heap[r]
            /\ id = IdOf(id[1]) /\ cancelled' = cancelled \cup {id}
        BY <2>3, <3>2, EraseEffect
      <4>2. id[2] = heap[id[1]].sequence
        BY <4>1 DEF IdOf
      <4> QED
        BY <2>1, <2>3, <3>1, <4>1, <4>2
    <3>3. CASE id \notin activeTimers
      <4>1. heap' = heap /\ cancelled \subseteq cancelled'
        BY <2>3, <3>3, MissEffect
      <4> QED
        BY <2>1, <2>3, <3>1, <4>1
    <3> QED
      BY <3>2, <3>3
  <2>4. ASSUME NEW s \in Slots, NEW kind \in Kinds, AddTimer(s, kind)
        PROVE  NoTimerVanishes'
    BY <2>2, <2>4 DEF AddTimer
  <2>5. ASSUME NEW id \in published, Cancel(id)
        PROVE  NoTimerVanishes'
    BY <2>3, <2>5 DEF Cancel, TypeOK
  <2>6. ASSUME NEW p \in Threads, NEW s \in Slots, NEW kind \in Kinds,
               AddTimerFrom(p, s, kind)
        PROVE  NoTimerVanishes'
    BY <2>2, <2>6 DEF AddTimerFrom, history
  <2>7. CASE RunRequest
    <3> DEFINE id == Head(requests)[2]
    <3>1. id \in Ids /\ UNCHANGED numCreated
      BY <2>7, TakeRequest DEF RunRequest, OwnInv
    <3>2. CancelInLoop(id) \/ UNCHANGED <<heap, completed, cancelled>>
      BY <2>7 DEF RunRequest
    <3> HIDE DEF id
    <3> QED
      BY <2>1, <2>3, <3>1, <3>2
  <2>8. ASSUME NEW e \in expired, CallExpired(e)
        PROVE  NoTimerVanishes'
    <3>1. UNCHANGED <<heap, numCreated, cancelled>> /\ completed \subseteq completed'
      BY <2>8 DEF CallExpired
    <3> QED
      BY <2>1, <3>1
  <2>9. CASE Reset
    <3> DEFINE kept == {e[2] : e \in {f \in expired : Restarts(f)}}
               dropped == {e[2] : e \in expired} \ kept
    <3>1. /\ \A s \in kept : heap'[s].sequence = heap[s].sequence
          /\ \A s \in Slots \ (kept \cup dropped) : heap'[s] = heap[s]
      BY <2>9, ResetEffect
    <3>2. called = expired /\ UNCHANGED <<numCreated, completed, cancelled>>
      BY <2>9 DEF Reset, history
    <3>3. ASSUME NEW s \in dropped
          PROVE  \/ heap[s].sequence \in completed
                 \/ \E id \in cancelled : id[2] = heap[s].sequence
      <4>1. PICK e \in expired : e[2] = s /\ ~Restarts(e)
        OBVIOUS
      <4>2. CASE ~heap[s].repeat
        BY <3>2, <4>1, <4>2 DEF CalledInv
      <4>3. CASE IdOf(s) \in cancelingTimers
        <5>1. IdOf(s) \in cancelled
          BY <4>1, <4>3 DEF CancelInv
        <5> QED
          BY <5>1 DEF IdOf
      <4> QED
        BY <4>1, <4>2, <4>3 DEF Restarts
    <3> HIDE DEF kept, dropped
    <3> QED
      BY <2>1, <3>1, <3>2, <3>3
  <2>10. Tick \/ HandleRead \/ PollTimerfd \/ UNCHANGED vars
            \/ (\E p \in Threads : AddTimerReturns(p) \/ \E id \in published : CancelFrom(p, id))
          => UNCHANGED <<heap, numCreated, completed, cancelled>>
    BY DEF Tick, HandleRead, PollTimerfd, AddTimerReturns, CancelFrom, vars, history
  <2> QED
    BY <2>1, <2>4, <2>5, <2>6, <2>7, <2>8, <2>9, <2>10
       DEF Next, OwnerCall, ThreadStep, HandleTimerfd
<1>3. QED
  BY <1>1, <1>2, TypeCorrect, OwnCorrect, CancelCorrect, CalledCorrect, PTL DEF Spec
=============================================================================
