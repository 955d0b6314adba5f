----------------------------- MODULE TimerQueue -----------------------------
(***************************************************************************)
(* TimerQueue (TimerQueue.h, TimerQueue.cpp, Timer.h, TimerId.h): the      *)
(* timers of one loop, kept by expiration in timers_ and by identity in    *)
(* activeTimers_, and one timerfd armed for the earliest of them.          *)
(*                                                                         *)
(* Timers are heap objects: a TimerId is a pointer and a sequence number,  *)
(* and the allocator may give a new timer the address of a deleted one.    *)
(* A thread that is not the loop's hands addTimerInLoop() and              *)
(* cancelInLoop() to the loop as functors; they run in the order of the    *)
(* calls, which is what EventLoop implements (FunctorQueue).               *)
(*                                                                         *)
(* Time is counted in ticks: now is what Timestamp::now() returns, and a   *)
(* tick is at least the 100 microseconds howMuchTimeFromNow() rounds up    *)
(* to.  Timestamp::now() and the timerfd's clock advance together.         *)
(***************************************************************************)
EXTENDS Integers, Sequences, FiniteSets

CONSTANTS
    Slots,      \* addresses a Timer can have, numbers because std::set orders by them
    Threads,    \* the threads other than the loop's own
    Kinds,      \* timers asked for: [delay, repeat, interval], in ticks
    MaxTimers,  \* bound on the number of timers created
    MaxTime,    \* bound on the clock
    MaxRequests \* bound on the functors waiting in the loop

ASSUME SlotsAssumption == Slots \subseteq Nat
ASSUME KindsAssumption == Kinds \subseteq [delay : Nat, repeat : BOOLEAN, interval : Nat]
ASSUME BoundsAssumption == MaxTimers \in Nat /\ MaxTime \in Nat /\ MaxRequests \in Nat

VARIABLES
    now,                \* the clock
    fuse, readable,     \* timerfd_: ticks until it expires (0: disarmed); not read since
    heap,               \* the Timer objects
    numCreated,         \* Timer::s_numCreated_
    timers,             \* timers_: entries <<expiration, address>>
    activeTimers,       \* activeTimers_: ids <<address, sequence>>
    cancelingTimers,    \* cancelingTimers_
    phase,              \* where the loop thread is with this queue
    handleNow,          \* the time handleRead() took
    expired, called,    \* the entries handleRead() took off timers_, and those run
    requests,           \* addTimerInLoop() and cancelInLoop() functors of the loop
    adding,             \* the timer each other thread is inside addTimer() with
    published,          \* the TimerIds addTimer() has returned
    cancelled, completed, emptyExpiry   \* history, see "Histories"

timerfd == <<fuse, readable>>
sets == <<timers, activeTimers, cancelingTimers>>
handling == <<phase, handleNow, expired, called>>
callers == <<requests, adding, published>>
history == <<cancelled, completed, emptyExpiry>>
vars == <<now, timerfd, heap, numCreated, sets, handling, callers, history>>

-----------------------------------------------------------------------------
(* Vocabulary *)

\* No object at this address, or no timer being added: sequence numbers start at 1.
Free == [sequence |-> 0, expiration |-> 0, repeat |-> FALSE, interval |-> 0]

Live(s) == heap[s].sequence # 0
NewTimer(kind) == [sequence   |-> numCreated + 1,
                   expiration |-> now + kind.delay,
                   repeat     |-> kind.repeat,
                   interval   |-> kind.interval]

IdOf(s) == <<s, heap[s].sequence>>
NoId == <<0, 0>>
Ids == Slots \X (0 .. MaxTimers)

\* callingExpiredTimers_
callingExpiredTimers == phase = "calling"

\* The loop thread is inside a callback, of a channel, a functor or a timer.
InCallback == callingExpiredTimers => called # {}

\* The functors waiting in the loop.
AddRequest(id) == <<"add", id>>
CancelRequest(id) == <<"cancel", id>>
PendingAdds == {requests[i][2] : i \in {j \in DOMAIN requests : requests[j][1] = "add"}}

Larger(a, b) == IF a > b THEN a ELSE b

\* A faulty howMuchTimeFromNow(), without its lower bound.
FaultArmNoLowerBound(expiration) ==
    /\ fuse' = expiration - now
    /\ readable' = FALSE

\* resetTimerfd(): timerfd_settime() also forgets an expiry nobody has read.
Arm(expiration) ==
    /\ fuse' = Larger(expiration - now, 1)
    /\ readable' = FALSE

\* std::set's order: by expiration, then by address.
Before(e, f) == e[1] < f[1] \/ (e[1] = f[1] /\ e[2] < f[2])

(* Histories.  cancelled: ids of timers in the queue when cancelInLoop()    *)
(* got them.  completed: one-shot timers whose callback ran.  emptyExpiry:  *)
(* the last expiry of the timerfd found no timer due.                       *)

-----------------------------------------------------------------------------
Init ==
    /\ now = 0
    /\ fuse = 0 /\ readable = FALSE
    /\ heap = [s \in Slots |-> Free]
    /\ numCreated = 0
    /\ timers = {} /\ activeTimers = {} /\ cancelingTimers = {}
    /\ phase = "idle" /\ handleNow = 0 /\ expired = {} /\ called = {}
    /\ requests = <<>>
    /\ adding = [p \in Threads |-> NoId]
    /\ published = {}
    /\ cancelled = {} /\ completed = {} /\ emptyExpiry = FALSE

-----------------------------------------------------------------------------
(* What addTimerInLoop() and cancelInLoop() do, in the loop thread *)

(* The Fault... operators, here and below, are faulty variants of the       *)
(* definition they precede, to show that the properties notice: none of     *)
(* them is part of the specification.                                       *)

\* The timerfd is armed for the first timer only.
FaultEarliestChanged(when) == timers = {}

\* What insert() returns: the new timer is the earliest.
EarliestChanged(when) == \A e \in timers : when < e[1]

\* insert(), of the timers of a record by address.
Insert(new) ==
    /\ timers' = timers \cup {<<new[s].expiration, s>> : s \in DOMAIN new}
    /\ activeTimers' = activeTimers \cup {<<s, new[s].sequence>> : s \in DOMAIN new}

\* insert(), and resetTimerfd() when the new timer is the earliest.
AddTimerInLoop(s, timer) ==
    /\ Insert([t \in {s} |-> timer])
    /\ IF EarliestChanged(timer.expiration)
       THEN Arm(timer.expiration) /\ emptyExpiry' = FALSE
       ELSE UNCHANGED <<timerfd, emptyExpiry>>
    /\ UNCHANGED cancelingTimers

\* The pointer alone names the timer.
FaultFindActive(id) == {a \in activeTimers : a[1] = id[1]}

\* activeTimers_.find(timer)
FindActive(id) == {a \in activeTimers : a = id}

\* The entry stays in timers_.
FaultEraseLeavesEntry(id) ==
    /\ activeTimers' = activeTimers \ {id}
    /\ heap' = [heap EXCEPT ![id[1]] = Free]
    /\ UNCHANGED timers

\* The id stays in activeTimers_.
FaultEraseKeepsActive(id) ==
    /\ timers' = timers \ {<<heap[id[1]].expiration, id[1]>>}
    /\ heap' = [heap EXCEPT ![id[1]] = Free]
    /\ UNCHANGED activeTimers

\* A timer leaves both sets and is deleted.
EraseTimer(id) ==
    /\ timers' = timers \ {<<heap[id[1]].expiration, id[1]>>}
    /\ activeTimers' = activeTimers \ {id}
    /\ heap' = [heap EXCEPT ![id[1]] = Free]

\* A timer that is in the queue is erased and deleted.  One that is not is
\* remembered while callbacks run, and ignored otherwise.
CancelInLoop(id) ==
    /\ \/ \E it \in FindActive(id) : EraseTimer(it) /\ UNCHANGED cancelingTimers
       \/ /\ FindActive(id) = {}
          /\ cancelingTimers' = IF callingExpiredTimers
                                THEN cancelingTimers \cup {id} ELSE cancelingTimers
          /\ UNCHANGED <<timers, activeTimers, heap>>
    /\ cancelled' = IF Live(id[1]) /\ id = IdOf(id[1]) /\ id \notin PendingAdds
                    THEN cancelled \cup {id} ELSE cancelled
    /\ UNCHANGED <<timerfd, completed, emptyExpiry>>

-----------------------------------------------------------------------------
(* addTimer() and cancel() in the loop thread: runInLoop() calls in place *)

AddTimer(s, kind) ==
    /\ InCallback
    /\ numCreated < MaxTimers
    /\ ~Live(s)
    /\ heap' = [heap EXCEPT ![s] = NewTimer(kind)]
    /\ numCreated' = numCreated + 1
    /\ AddTimerInLoop(s, NewTimer(kind))
    /\ published' = published \cup {<<s, numCreated + 1>>}
    /\ UNCHANGED <<now, handling, requests, adding, cancelled, completed>>

Cancel(id) ==
    /\ InCallback
    /\ CancelInLoop(id)
    /\ UNCHANGED <<now, numCreated, handling, callers>>

-----------------------------------------------------------------------------
(* addTimer() and cancel() in another thread *)

\* new Timer and runInLoop(), which queues addTimerInLoop().
AddTimerFrom(p, s, kind) ==
    /\ adding[p] = NoId
    /\ numCreated < MaxTimers
    /\ Len(requests) < MaxRequests
    /\ ~Live(s)
    /\ heap' = [heap EXCEPT ![s] = NewTimer(kind)]
    /\ numCreated' = numCreated + 1
    /\ requests' = Append(requests, AddRequest(<<s, numCreated + 1>>))
    /\ adding' = [adding EXCEPT ![p] = <<s, numCreated + 1>>]
    /\ UNCHANGED <<now, timerfd, sets, handling, published, history>>

\* return TimerId(timer, timer->sequence()): the loop may have deleted the
\* timer by now, and what is read from freed memory may be any number.
AddTimerReturns(p) ==
    /\ adding[p] # NoId
    /\ LET s == adding[p][1]
       IN  \E sequence \in IF Live(s) THEN {heap[s].sequence} ELSE 0 .. numCreated :
               published' = published \cup {<<s, sequence>>}
    /\ adding' = [adding EXCEPT ![p] = NoId]
    /\ UNCHANGED <<now, timerfd, heap, numCreated, sets, handling, requests, history>>

CancelFrom(p, id) ==
    /\ adding[p] = NoId
    /\ Len(requests) < MaxRequests
    /\ requests' = Append(requests, CancelRequest(id))
    /\ UNCHANGED <<now, timerfd, heap, numCreated, sets, handling, adding, published, history>>

\* doPendingFunctors() comes to the next of these functors.
RunRequest ==
    /\ phase = "idle"
    /\ requests # <<>>
    /\ requests' = Tail(requests)
    /\ LET id == Head(requests)[2]
       IN  \/ /\ Head(requests)[1] = "add"
              /\ AddTimerInLoop(id[1], heap[id[1]])
              /\ UNCHANGED <<heap, cancelled, completed>>
           \/ /\ Head(requests)[1] = "cancel"
              /\ CancelInLoop(id)
    /\ UNCHANGED <<now, numCreated, handling, adding, published>>

-----------------------------------------------------------------------------
(* The clock and the expiry of the timerfd *)

Tick ==
    /\ now < MaxTime
    /\ now' = now + 1
    /\ fuse' = IF fuse > 0 THEN fuse - 1 ELSE 0
    /\ readable' = (readable \/ fuse = 1)
    /\ UNCHANGED <<heap, numCreated, sets, handling, callers, history>>

\* epoll_wait reports the timerfd; callbacks of other channels may run first.
PollTimerfd ==
    /\ phase = "idle"
    /\ readable
    /\ phase' = "reported"
    /\ UNCHANGED <<now, timerfd, heap, numCreated, sets, handleNow, expired, called,
                   callers, history>>

\* The entries before the sentry of getExpired(), <<now, the highest address>>.
Due == {e \in timers : e[1] <= now}

\* getExpired(): what is due leaves both sets.
GetExpired ==
    /\ expired' = Due
    /\ timers' = timers \ expired'
    /\ activeTimers' = activeTimers \ {IdOf(e[2]) : e \in expired'}

\* handleRead() up to the first callback: the time, the read of the timerfd,
\* getExpired(), callingExpiredTimers_ = true, cancelingTimers_.clear().
HandleRead ==
    /\ phase = "reported"
    /\ handleNow' = now
    /\ readable' = FALSE
    /\ GetExpired
    /\ cancelingTimers' = {}
    /\ called' = {}
    /\ phase' = "calling"
    /\ emptyExpiry' = (expired' = {})
    /\ UNCHANGED <<now, fuse, heap, numCreated, callers, cancelled, completed>>

\* timer.second->run() for the next entry; the callback lasts until the next
\* CallExpired or Reset.
CallExpired(e) ==
    /\ callingExpiredTimers
    /\ e \in expired \ called
    /\ \A f \in expired \ called : f = e \/ Before(e, f)
    /\ called' = called \cup {e}
    /\ completed' = IF heap[e[2]].repeat THEN completed
                    ELSE completed \cup {heap[e[2]].sequence}
    /\ UNCHANGED <<now, timerfd, heap, numCreated, sets, phase, handleNow, expired,
                   callers, cancelled, emptyExpiry>>

\* A repeating timer starts again even when it was cancelled meanwhile.
FaultRestarts(e) == heap[e[2]].repeat

\* reset(), on every entry of expired: a repeating timer that was not
\* cancelled is restarted and inserted, any other one is deleted.
Restarts(e) == heap[e[2]].repeat /\ IdOf(e[2]) \notin cancelingTimers

\* Timer::restart(now) of a repeating timer.
Restart(timer) == [timer EXCEPT !.expiration = handleNow + timer.interval]

\* The earliest expiration in a set of entries.
Earliest(entries) == (CHOOSE e \in entries : \A f \in entries : e[1] <= f[1])[1]

\* The timerfd is armed again only for a timer that was restarted.
FaultRearm(entries) ==
    IF \E e \in expired : Restarts(e)
    THEN Arm(Earliest(entries))
    ELSE UNCHANGED timerfd

\* The timerfd is armed again inside the loop over expired, hence not at all
\* when no timer had expired.
Rearm(entries) ==
    IF expired # {} /\ entries # {}
    THEN Arm(Earliest(entries))
    ELSE UNCHANGED timerfd

Reset ==
    /\ callingExpiredTimers
    /\ called = expired
    /\ LET kept == {e[2] : e \in {f \in expired : Restarts(f)}}
           dropped == {e[2] : e \in expired} \ kept
       IN  /\ heap' = [s \in Slots |->
                        IF s \in kept THEN Restart(heap[s])
                        ELSE IF s \in dropped THEN Free
                        ELSE heap[s]]
           /\ Insert([s \in kept |-> heap'[s]])
    /\ Rearm(timers')
    /\ expired' = {} /\ called' = {}
    /\ phase' = "idle"
    /\ UNCHANGED <<now, numCreated, cancelingTimers, handleNow, callers, history>>

-----------------------------------------------------------------------------
OwnerCall == \/ \E s \in Slots, kind \in Kinds : AddTimer(s, kind)
             \/ \E id \in published : Cancel(id)

ThreadStep(p) == \/ \E s \in Slots, kind \in Kinds : AddTimerFrom(p, s, kind)
                 \/ AddTimerReturns(p)
                 \/ \E id \in published : CancelFrom(p, id)

HandleTimerfd == \/ PollTimerfd
                 \/ HandleRead
                 \/ \E e \in expired : CallExpired(e)
                 \/ Reset

Next == \/ OwnerCall
        \/ \E p \in Threads : ThreadStep(p)
        \/ RunRequest
        \/ Tick
        \/ HandleTimerfd

Spec == Init /\ [][Next]_vars

-----------------------------------------------------------------------------
(* Properties *)

\* Type invariant.
TypeOK ==
    /\ now \in 0 .. MaxTime
    /\ fuse \in Nat /\ readable \in BOOLEAN
    /\ heap \in [Slots -> [sequence : 0 .. MaxTimers, expiration : Nat,
                           repeat : BOOLEAN, interval : Nat]]
    /\ numCreated \in 0 .. MaxTimers
    /\ timers \subseteq Nat \X Slots
    /\ activeTimers \subseteq Ids
    /\ cancelingTimers \subseteq Ids
    /\ phase \in {"idle", "reported", "calling"}
    /\ handleNow \in 0 .. MaxTime
    /\ expired \subseteq Nat \X Slots
    /\ called \subseteq expired
    /\ requests \in Seq({"add", "cancel"} \X Ids)
    /\ adding \in [Threads -> Ids \cup {NoId}]
    /\ published \subseteq Ids
    /\ cancelled \subseteq Ids
    /\ completed \subseteq 0 .. MaxTimers
    /\ emptyExpiry \in BOOLEAN

\* timers_ and activeTimers_ hold the same timers, under the keys their
\* objects give them: what the assertions n == 1 and result.second of
\* cancelInLoop(), getExpired() and insert() rely on.
TimersMatchActive ==
    /\ timers = {<<heap[id[1]].expiration, id[1]>> : id \in activeTimers}
    /\ \A id \in activeTimers : id = IdOf(id[1])

\* Every pointer the queue may still follow (in timers_, in expired, in a
\* queued addTimerInLoop()) is to a timer that has not been deleted, and no
\* two of them own the same timer: nothing is used after delete or deleted
\* twice, whatever callbacks cancel and however addresses are reused.
NoDanglingTimer ==
    /\ \A e \in timers \cup expired : Live(e[2])
    /\ \A id \in PendingAdds : Live(id[1]) /\ id = IdOf(id[1])
    /\ \A e \in timers, f \in expired : e[2] # f[2]
    /\ \A e, f \in expired : e[2] = f[2] => e = f
    /\ \A id \in PendingAdds : \A e \in timers \cup expired : e[2] # id[1]
    /\ \A i, j \in DOMAIN requests :
           i # j /\ requests[i][1] = "add" => requests[i] # requests[j]

\* A timer cancelled once it was in the queue is not in it afterwards, even
\* when its own callback cancels it and reset() would start it again.
CancelEffective == activeTimers \cap cancelled = {}

\* A timer goes away only by running, if it is one-shot, or by a cancel() of
\* its own id: the id of a deleted timer never cancels the timer that was
\* given the same address.
NoTimerVanishes ==
    \A n \in 1 .. numCreated : \/ \E s \in Slots : heap[s].sequence = n
                               \/ n \in completed
                               \/ \E id \in cancelled : id[2] = n

\* An armed timerfd never expires after the earliest timer is due (one tick
\* late at most when that timer is already due).
NotLate == fuse > 0 /\ timers # {} => fuse <= Larger(Earliest(timers) - now, 1)

\* Between two expiries the timerfd is armed, or about to be read, whenever a
\* timer is scheduled, unless its last expiry found no timer due.
StallsOnlyAfterEmptyExpiry ==
    phase = "idle" /\ timers # {} => fuse > 0 \/ readable \/ emptyExpiry

-----------------------------------------------------------------------------
(* What comments claim and the code does not do; each is refuted by a run. *)

\* TimerQueue.cpp:262: "if the next expiration is valid, reset timerfd so
\* that it fires then".  When no timer had expired, reset() does not.
ArmedWhenScheduled == phase = "idle" /\ timers # {} => fuse > 0 \/ readable

\* TimerQueue.h:38: addTimer() is thread safe.  It reads timer->sequence()
\* after it gave the timer to the loop thread, which may have deleted it.
SequenceReadIsLive == \A p \in Threads : adding[p] # NoId => IdOf(adding[p][1]) = adding[p]
=============================================================================
