# A TLA+ model of my-muduo

my-muduo is a reactor network library in C++: one `EventLoop` per thread, timers
through a timerfd, a pool of loop threads, and TCP servers and connections whose
work is handed between loops as functors. This directory models the parts of it
in which threads, callbacks and file descriptors interact, checks the models with
TLC and proves the main results with TLAPS. The reference is the code; where a
comment or a test says something else, the code is what is modelled, and the
disagreement is one of the findings below.

## 1. Inventory

| Component | State | Operations | Talks to | What is hard |
|---|---|---|---|---|
| `EventLoop` | `quit_`, `pendingFunctor_` (under `mutex_`), `callingPendingFunctor_`, `wakeupFd_`, `activeChannels_` | `loop`, `quit`, `runInLoop`, `queueInLoop`, `wakeup`, `handleRead`, `doPendingFunctors` | `Poller`, `Channel`, `TimerQueue`; every other thread | lost wakeups, lost quits, starvation, work left at exit |
| `TimerQueue`, `Timer`, `TimerId` | `timers_`, `activeTimers_`, `cancelingTimers_`, `callingExpiredTimers_`, the timerfd, the `Timer` objects | `addTimer`, `cancel`, `addTimerInLoop`, `cancelInLoop`, `handleRead`, `getExpired`, `reset`, `insert` | `EventLoop` (functors), the kernel | cancelling from a callback, stale ids and reused addresses, re-arming |
| `EventLoopThread(Pool)`, `Thread` | `loop_`, `loops_`, `next_`, the thread | `start`, `startLoop`, `threadFunc`, `getNextLoop`, destructors | `EventLoop` | publishing and clearing a pointer to a local object, quit/join |
| `Channel` | `events_`, `revents_`, `index_`, `tie_` | `enable*/disable*`, `handleEvent`, `remove` | `EventLoop`, its owner | callbacks that destroy the owner, event tests |
| `EpollPoller`, `Poller` | `m_channels`, the kernel's interest list, `events_` | `poll`, `updateChannel`, `removeChannel` | `Channel` | `index_` against the kernel's list |
| `TcpConnection` | `state_`, `inputBuffer_`, `outputBuffer_`, the socket | `send`, `shutdown`, `connectEstablished`, `connectDestroyed`, `handleRead/Write/Close`, `sendInLoop`, `shutdownInLoop` | `Channel`, its loop, `TcpServer` | calls from other threads, half-closed connections, partial writes, lifetime |
| `TcpServer`, `Acceptor` | `connections_`, `started_`, `nextConnId_` | `start`, `newConnection`, `removeConnection(InLoop)`, destructor | base loop and io loops | which thread does what, order of callbacks |
| `Buffer` | `readerIndex_`, `writerIndex_`, the bytes | `append`, `retrieve*`, `readFd`, `writeFd`, `makeSpace` | `TcpConnection` | index arithmetic |
| `ThreadPool` (`Thread/`) | `m_funcDeque`, `m_running`, `m_threads` | `start`, `stop`, `addThreadFuncQueue`, `runInThread`, destructor | workers | who is notified, draining at stop, tasks that throw; not compiled by the build |

What makes each of them correct:

- `EventLoop`: functors run once, in order, one at a time; nobody sleeps on work; `quit()` ends it.
- `TimerQueue`: the two sets agree; no timer object is used after its deletion; a
  cancel hits its own timer only; the timerfd is armed for the earliest timer.
- `EventLoopThreadPool`: nobody uses a loop that is gone; start and stop terminate; loops are shared evenly.
- `Channel`/`Poller`: `index_` tells whether the kernel watches the fd; no callback runs on a destroyed owner.
- `TcpServer`/`TcpConnection`: UP before messages before DOWN, each once; everything of
  a connection on its own loop; data sent is written; a removed connection is destroyed once.
- `Buffer`: the bytes between the indices are those appended and not yet retrieved.
- `ThreadPool`: no worker sleeps beside a task; `stop()` reaches every worker; tasks added in time are taken.

## 2. Modules

| Module | Models | State and actions |
|---|---|---|
| `FunctorQueue` | what `queueInLoop()` promises | a queue and the functor that runs: `Submit`, `Start`, `Finish` |
| `EventLoop` | `EventLoop.cpp` with any number of other threads | one action per shared access of `loop()`, `queueInLoop()`, `quit()` and `doPendingFunctors()` |
| `EventLoopProofs` | theorems about `EventLoop` | |
| `TimerQueue` | `TimerQueue.cpp`, `Timer`, `TimerId`, the timerfd and the clock | one action per operation; `handleRead()` is `HandleRead`, `CallExpired` for each callback, `Reset` |
| `TimerQueueProofs` | theorems about `TimerQueue` | |
| `EventLoopThreadPool` | the pool, `EventLoopThread`, `Thread` | the owner's steps and the steps of each thread's `threadFunc()` |
| `EventLoopThreadPoolProofs` | theorems about `EventLoopThreadPool` | |
| `EpollPoller` | `updateChannel()`, `removeChannel()`, the interest list | `index`, `channels` (`m_channels`), `registered` and `watched` (the kernel); two fragments of steps, no specification of its own |
| `TcpServer` (extends `EpollPoller`) | `TcpServer`, `TcpConnection`, `Channel`, `Acceptor::handleRead()` | one action per handler, cut where a callback runs or another thread can come between |
| `TcpServerProofs` | theorems about `TcpServer` and `EpollPoller` | |
| `ConnectionLife` | what a connection goes through: accepted, ended, destroyed | a phase for each connection: `Accept`, `End`, `Destroy`, `GoAstray` |
| `ConnectionLifeProofs` | `TcpServer` implements `ConnectionLife` | |
| `Buffer` | `Buffer.h`, `Buffer.cpp` | a record of the vector and its two indices; one operator per operation, no state |
| `BufferProofs` | what the operations do to the content of a buffer | |
| `TcpStream` (extends `Buffer`) | the bytes of one connection: `readFd()`, the two buffers, `send()`, `sendInLoop()`, `shutdown()` | the buffers, the socket in both directions and the loop's functors |
| `TcpStreamProofs` (extends `BufferProofs`) | theorems about `TcpStream` | |
| `ThreadPool` | `Thread/ThreadPool.cpp`, `Thread/Thread.cpp` | one action per critical section of `m_mutex` |
| `ThreadPoolProofs` | theorems about `ThreadPool` | |
| `MCEventLoop`, `MCTimerQueue` | values of constants for TLC | |

How they fit: `EventLoop` is shown to implement `FunctorQueue` (by TLC on an
instance, by TLAPS in general). `TimerQueue` uses that result: the functors its
callers queue run in the order of the calls, and its variable `requests` is that
queue. `EventLoopThreadPool` keeps of each `EventLoop` only `quit_`, the pending
wakeup and where its thread is in `loop()`. `TcpServer` keeps of each loop the round that
`EventLoop` goes through (poll, dispatch, take the functors, run them) and `m_pendingFunctors`
as the queue that `FunctorQueue` is; that a poll ends when a functor is queued is `EventLoop`'s
`NoLostWakeup`. `EpollPoller` has the parts of `TcpServer`'s steps that change a poller. `TcpServer` is
shown to implement `ConnectionLife` for each of its connections, again by TLC and by TLAPS. `TcpStream` is the other half of
`TcpConnection`: `TcpServer` has its threads, its callbacks and its life and no bytes, `TcpStream`
has the bytes of one connection that is up.

Operators named `Fault...` are faulty variants of the definition they stand before.
They are not part of any specification; replacing the definition by the variant must
make the property they are listed with in `PROJECT.json` fail, which shows that the
property can notice a plausible mistake.

### EventLoop

`loopPc` says where the loop thread is: `out` of `loop()`, `enter` (before `quit_ = false`),
`check` (the `while`), `poll`, `handle` (dispatching `active`), `callback`, `swap`, `run`,
`functor`. `functors` and `current` are the local vector of `doPendingFunctors()` and the
functor it executes. User code may run when the loop thread is in `out`, `callback` or
`functor` and may then call `queueInLoop()` and `quit()`. Each other thread is `idle` or
between the first part of a call and its `wakeup()`. The eventfd is a counter that stays at
`MaxCount`, as a non-blocking write to a full eventfd fails and the code ignores it.
`unannounced` remembers the functors the loop's own thread queued outside `loop()`: for
these no `wakeup()` is called, so nothing is promised before the next poll returns.

A step is one access to what threads share: a critical section of `mutex_`, an access of
`quit_`, a read or write of the eventfd.

### TimerQueue

Time is counted in ticks of at least 100 microseconds. `fuse` is the time the timerfd has
left and `readable` says that it expired and was not read. `heap` holds the `Timer` objects
by address; `AddTimer` may take any free address, so a stale `TimerId` and a new timer with
the same address occur. In another thread `addTimer()` is two steps, because the loop
thread can run between its `runInLoop()` and its `timer->sequence()`; what it reads from a
deleted timer is any number. In the loop thread, `AddTimer` and `Cancel` are enabled whenever
a callback can run: of a functor or another channel (`phase` is `idle`, or `reported` between
epoll_wait and `TimerQueue::handleRead()`), or of a timer (`calling`). `Reset` is the whole of
`reset()`, the re-arming included.

### EventLoopThreadPool

The owner starts threads `0 .. NumThreads - 1`, hands out loops, and destroys the pool at any
later time. The init callback and the callbacks of a running loop may call `quit()` on their
own loop (`selfQuit`); the properties say where that makes a difference.

### TcpServer

One base loop and the io loops of its pool, or none: `setThreadNum()` may not have been called,
and then the base loop serves the connections itself (`pool`). `pc` and `on` tell which callback
a loop's thread is in and for which connection: `enable` and `enabled` (inside
`connectEstablished()`), the user's `up`, `message`, `written` and `down` callbacks, `destroy` (the
DOWN callback of `connectDestroyed()`). Inside a user callback the thread may call `send()` and
`shutdown()`; so may other threads, which got a `TcpConnectionPtr` from the UP callback (`held`).
A call is two or three steps: the test of `state_`, `setState(kDisconnecting)`, and the queueing.

Lifetime: a connection is destroyed when nobody is `Referenced`: not `connections_`, no other
thread, no callback that runs for it, no functor that binds a `shared_ptr`. `send()` and
`shutdown()` bind `this`. When such a functor runs on a destroyed connection the model lets it find
the old values, the mildest of what may happen; the properties say where it cannot happen.

`ConnectionLife` says what remains of all this for a user: a connection is accepted once, its DOWN
comes once, and it is destroyed behind its DOWN, or without one only once the server is being
destroyed, whose io loops may stop before they run `connectDestroyed()`. The connections in
`stray` (below) and those that a functor bound to `this` outlives are mapped to `astray`.

Some of the code cannot be reached and is not in the model: nothing calls `enableWriting()`
(`sendInLoop()` calls `enableReading()` in its place), so `handleWrite()` never runs and
`isWriting()` is false; a channel is in epoll only while it watches for input (`watched = registered`
in `IndexMatchesKernel`), and a socket that hangs up is readable, so the EPOLLHUP-without-EPOLLIN
branch of `handleEventWithGuard()` is dead. `handleError()` reads the error and does nothing.

`stray` is a history variable for the two ways around the order of removal. `shutdown()` in another
thread may overwrite the `kDisconnected` of `handleClose()`; a queued `send()` then no longer returns
early and, when it writes only a part, puts the closed channel back into epoll, which closes it a
second time. And `~TcpServer()` may queue `connectDestroyed()` before a `send()` of the same
connection, which is then in `kDisconnecting`. `NoDanglingChannel` and `DownAtMostOnce` hold of all
other connections.

`TcpConnection.h:101` says that `loop_` is never the base loop. It is when the pool has no threads.
Removal is then done in place, not behind the functors already queued: a write complete callback
that calls `shutdown()`, when the next poll reports the close, leaves a `shutdownInLoop()` whose
connection is destroyed. In an io loop this cannot happen, and `LoopFunctorsAlive` claims it of io loops.

### Buffer and TcpStream

A buffer is a record of the vector (`data`), `reader` and `writer`. The other side sends the bytes
1, 2, 3, ..., the other thread those behind `MaxBytes`, so that a byte that is lost, doubled or moved
shows. `ReadFd` is `readv()` into the writable space and then `extrabuf`, whose part goes through
`append()`; `append()` does not advance `writerIndex_`, so these bytes are lost, as is what `sendInLoop()`
appends after a partial write. `spilled` and `unsent` remember both, and `InputIntact` and
`OutputIntact` say that nothing else is ever lost, doubled or out of order. Since bytes are numbered, a
sequence has each byte once and in the order sent if it rises and has the right set of bytes, and that
is how both are stated (`InOrder`), of the bytes of either sender. The application echoes with
`send(&inputBuffer_)` or retrieves any part of what it has; the other thread sends copies of
one or two bytes; either may call `shutdown()`.

`send()` and `shutdown()` are cut where the code lets other threads in, as in `TcpServer`: the test of `state_`,
`setState(kDisconnecting)`, and the queueing, of the other thread (`call`) and of the loop's own (`pc`). Between them the
loop may close the connection and run functors, and the other thread may queue another `send()`. `promised`
remembers what was queued while `state_` was `kConnected`: unless the other side closes, all of
that goes out ahead of FIN, but for what `append()` loses. What is
queued between a `setState()` and its `shutdownInLoop()` may go out too, behind it and in order.

`HandleClose` takes the channel out of epoll (`watched`) and sets the history `down`. A `shutdown()` that has already
tested `state_` then overwrites `kDisconnected`: of two queued `send()`s the first may have been dropped and the second
is written, and a partial write has the channel watched again, so that there may be another close. After
the close nothing is promised therefore, but the order stands and no byte goes out twice: `OutputIntact`
says so of all states, and that nothing is missing of the states before `down`. Without `connectDestroyed()`,
which is `TcpServer`'s, the other thread keeps its pointer for ever.

The other overload of `send()` queues a pointer into the caller's string and is not in the model, as what
it sends is then undefined.

### ThreadPool

`pc` has each worker: `unborn`, `init` (the init callback), `lock` (about to take `m_mutex`), `waiting` on the
condition variable, `task`, `done`. `owner` is the thread that calls `start()` and the destructor;
`stop()` and `addThreadFuncQueue()` may come from any client until the destructor runs, and from tasks
even then. `notify_one()` picks any waiter. `Catch` is an exception, which ends its worker. `late` and `failed`
are histories: the tasks added to a pool that does not run, and the workers that exceptions ended.

## 3. Runs

| Run | Result | Shows |
|---|---|---|
| `event_loop` | passes | `NoLostWakeup`, `QuitReachesPoll`; refinement of `FunctorQueue`; liveness |
| `timer_queue` | passes | seven invariants, see the module |
| `timer_queue_armed` | violated | the timerfd is not armed again after an expiry that found nothing |
| `timer_queue_sequence` | violated | `addTimer()` reads a timer that may be deleted |
| `thread_pool` | passes | pointer, lifetime, fairness of the round robin, termination |
| `thread_pool_wakeup` | violated | `quit()` uses the `EventLoop` after letting it go |
| `thread_pool_destructor` | violated | a quit before `quit_ = false` is forgotten and `join()` hangs |
| `tcp_server` | passes | the poller's books, lifetime, DOWN once and before destruction; refinement of `ConnectionLife`; a connection that ended is removed; `shutdown()` sends its FIN |
| `tcp_server_upfirst` | violated | the io loop may call back before the UP callback |
| `tcp_stream` | passes | every byte once and in order, in both directions and across `shutdown()` and the close; until the close none is missing except those `append()` loses |
| `tcp_stream_intact` | violated | what `append()` loses is missing |
| `task_pool` | passes | no idle worker, nobody left waiting, tasks taken, the destructor returns |

Bounds:

- `event_loop`: two threads and two functors, so that calls overlap with each other and with
  the loop and a functor is queued again while another one runs; the eventfd saturates at 2.
  Functors are queued again without limit, so the behaviours are infinite.
- `timer_queue`: two addresses for three timers (an address is reused while an old id is still
  known), one-shot timers two ticks ahead and repeating ones of one tick, three ticks (a repeating
  timer fires three times, a callback may outlast a period), and two functors waiting (an add and
  the cancel behind it). One other thread is enough: threads only share the queue of functors.
  The clock, the timers and the queue are bounded by `MaxTime`, `MaxTimers`, `MaxRequests` in
  the guards of `Tick`, `AddTimer`/`AddTimerFrom` and `AddTimerFrom`/`CancelFrom`.
- `thread_pool`: two threads (the owner goes on from one to the next and ends with the last), two
  calls of `getNextLoop()` for each. `CHECK_DEADLOCK FALSE`, since the program ends, and since
  `startLoop()` waits for ever when the loop quit by itself before it was noticed.
- `tcp_server`: one connection, with the base loop alone or with an io loop, one other thread that holds
  its pointer, and three calls of `send()` and `shutdown()` (`MaxCalls`, in the guard of `BeginCall`), enough
  for a `shutdown()` that overlaps the close, a `send()` that is still queued then, and one more.
  Connections share nothing but the maps and the queues, so that what may go wrong is between
  the threads that use one connection. `CHECK_DEADLOCK FALSE`, since the server may be destroyed.
  `tcp_server_upfirst` needs one call only.
- `tcp_stream`: a vector of four with one byte in front of the content (`kCheapPrepend` 1, `kInitialSize` 3
  for 8 and 1024), an `extrabuf` of two, four bytes in: the vector fills up, the content moves to the front,
  and reads spill. Two bytes out of the other thread into a socket that takes two at a time: writes
  are whole, partial and empty. Two bytes are also two `send()`s, one of which the close can drop while a `shutdown()`
  lets the other one out. `MaxBytes` and `MaxUserBytes` are in the guards of `PeerSends` and `UserCalls`.
  `CHECK_DEADLOCK FALSE`, as a connection ends.
- `task_pool`: none to three workers and four tasks (`MaxTasks`, in the guard of `AddThreadFuncQueue`): more
  tasks than workers, two waiters when one is notified, and a worker left when another has failed.
  `CHECK_DEADLOCK FALSE`, since the pool is destroyed.

Fairness. `EventLoop`: weak fairness of the loop thread's steps, and of `wakeup()` in a thread
that is inside a call; neither calls nor the poll's ten-second timeout are assumed, so no
progress rests on them. Callbacks return. `EventLoopThreadPool`: weak fairness of the owner
and of each thread; destroying the pool, events on other channels and spurious wakeups are
not assumed. `TimerQueue` has no liveness property: with a bounded clock the question "does
the timer fire" is asked as the invariants `NotLate` and `StallsOnlyAfterEmptyExpiry`.

`TcpServer`: weak fairness of each loop's thread, which includes the return from user callbacks, and of a
thread inside `send()` or `shutdown()`. Calls are bounded, so a callback cannot call for ever. Nobody has
to connect, end a connection, call, or destroy the server.

`TcpStream`: weak fairness of the loop running its functors and of the return from the message
callback, through the steps of a `shutdown()` inside it. Nobody has to send, read or close, and the other
thread's call need not go on. `ThreadPool`: weak fairness of each worker, a task's return (or
exception) included, of the rest of `start()` and of the joins; nobody has to add, stop or destroy,
and spurious wakeups are not assumed.

### Findings

- `TimerQueue.cpp:263` (`timer_queue_armed`): the re-arming in `reset()` is inside the loop over the
  expired timers. When the timerfd expires and its timer was cancelled meanwhile, nothing is
  expired, nothing is armed, and the timers left in `timers_` wait until a new earliest one is added.
- `TimerQueue.cpp:116` (`timer_queue_sequence`): `timer->sequence()` after `runInLoop()`.
- `EventLoop.cpp:92` (`thread_pool_wakeup`): after `quit_ = true` the loop may return for another
  reason than the wakeup, and the `EventLoop`, a local of `threadFunc()`, is gone.
- `EventLoop.cpp:66` with `EventLoopThread.cpp:29` (`thread_pool_destructor`): `loop()` clears `quit_`.
- `TcpServer.cpp:89` (`tcp_server_upfirst`): `newConnection()` runs `connectEstablished()` in the base loop. The
  channel is enabled in the io loop's poller from the base loop's thread, and from then on the io loop
  dispatches it: messages, and even DOWN, may come before UP.
- `Buffer.h:91` (`tcp_stream_intact`): `append()` copies behind `writerIndex_` and does not advance it. What
  `sendInLoop()` could not write at once is never sent, and what `readFd()` read into `extrabuf` is never seen.

## 4. Proofs

`EventLoopProofs`, for any set of threads and of functors and any capacity of the eventfd
(`MaxCountAssumption`: at least one; `NoTaskAssumption`: the value for "no functor" is no functor):

- `TypeCorrect`: `Spec => []TypeOK`.
- `WakeupsReachThePoll`: `Spec => []NoLostWakeup`, and `QuitReachesThePoll`: `Spec => []QuitReachesPoll`, from
  one invariant. `NoLostWakeup` speaks of the poll
  only and is not inductive. `WakeInv` says that it holds everywhere except between the read of the
  eventfd and the swap, where the pending functors are about to be taken anyway; the swap
  empties `pendingFunctor` because the local vector is empty, which is `PhaseInv` (`PhaseCorrect`).
- `LoopImplementsFunctorQueue`: `Spec => ImplementsFunctorQueue`, with the queue mapped to the two vectors
  one after the other. The swap is a stutter because the local vector is empty, `RunFunctor` takes
  the head of the concatenation (`HeadTailOfConcat`) and `queueInLoop()` appends to it (`AppendToConcat`).

`ThreadPoolProofs`, for any number of workers and of tasks (`MaxSizeAssumption`, `MaxTasksAssumption`: they are
numbers):

- `TypeCorrect`: `Spec => []TypeOK`. That an exception ends only a worker of this pool needs `BornInv`: the
  workers created so far are 1 .. k, with k below `m_threadSize` until `start()` is through.
- `NobodyWaitsInAStoppedPool`: `Spec => []NobodyWaitsStopped`, inductive with the types.
- `NotifyOneSuffices`: `Spec => []NoIdleWorker`, inductive with the types. A new task sends one waiter, if
  there is one, on its way (both numbers grow by one), a task is taken by one that is on its
  way (both shrink by one), and whoever begins to wait or leaves has seen an empty deque.
- `NoTaskIsLeftBehind`: `Spec => []DrainedAtEnd`, from `DrainInv`: once a worker has left without an exception the
  deque holds late tasks only, and it stays so because the pool does not run any more (`PhaseInv`); a
  pool destroyed before `start()` has only late tasks; and at the end every worker of a pool that was
  started has left (`BornInv`).

`EventLoopThreadPoolProofs`, for any number of threads and calls (`NumThreadsAssumption`, `MaxCallsAssumption`):

- `TypeCorrect`: `Spec => []TypeOK`.
- `PointerIsAlive` (`PublishedLoopAlive`), `DestructorQuitsLiveLoop` (`QuitsLiveLoop`) and `MembersAreUsedBefore`
  (`MembersOutliveThread`), from one inductive invariant, `IInv`. `PointerInv`: `loop_` is set exactly while
  `threadFunc()` is between its two critical sections. `StartInv`: `start()` has left behind it only threads that have
  published their loops. `QuitInv`: a loop that was told to quit, or has returned, was told by the destructor
  or by its own code, so the thread the destructor comes to still has its loop unless `selfQuit`. `DestroyInv`:
  what is destroyed was joined, or had nothing left to do with the members.
- `RoundRobinIsBalanced` (`Balanced`), from `RoundInv`: the loops below `next_` were returned once more than the others.

`TimerQueueProofs`, for any addresses, threads, kinds of timers and bounds (`SlotsAssumption`, `KindsAssumption`,
`BoundsAssumption`: addresses, times and bounds are natural numbers). Each theorem is `Spec => []` of the
invariant that the run `timer_queue` checks:

- `TypeCorrect` (`TypeOK`), `SetsAgree` (`TimersMatchActive`), `NothingDangles` (`NoDanglingTimer`). The last two are proved
  together as `OwnInv`: `MatchInv` says that the sets agree, entry by entry and id by id, `HeldInv` that an
  address is in `timers_`, in `expired` or in one queued `addTimerInLoop()` and alive there, and `Distinct` that
  no `addTimerInLoop()` is queued twice. Neither stands alone: an erase deletes what the two sets agree on, and
  the sets go on agreeing because nothing else holds the deleted address.
- `CancelsTakeEffect` (`CancelEffective`), from `CancelInv`: of the expired timers, exactly those that were
  cancelled are in `cancelingTimers_`, so `reset()` does not insert them again; and a new timer has a
  sequence number that no cancelled id has.
- `NoTimerIsLost` (`NoTimerVanishes`), from `CancelInv` and `CalledInv`: `reset()` deletes timers that ran once or
  were cancelled, and `cancelInLoop()` the one that has both the address and the number.
- `NeverLate` (`NotLate`), from `FuseInv`, which says it of every entry. `Earliest` is a choice, so it needs that a
  nonempty set of numbers has a least one (`LeastNumber`, from the library's well-founded induction).
- `OnlyAnEmptyExpiryStalls` (`StallsOnlyAfterEmptyExpiry`), from `StallInv`, which adds what holds while callbacks
  run: either some timer had expired, and `reset()` will arm again, or nobody's expiry was lost.

`TcpServerProofs`, for any connections, io loops, other threads and calls (`LoopsAssumption`: the base loop is no
io loop and no loop's thread is one of the others; `NoConnAssumption`: the value for "no connection" is none;
`MaxCallsAssumption`: the bound on calls is a number). Each theorem is `Spec => []` of an invariant of the
run `tcp_server`. None of these is inductive; what they rest on is proved in layers, each
using those before it:

- `Typed` adds to `TypeOK` what the queues hold, and that a thread works for a connection or is idle.
- `ThreadInv`, `FreshInv`, `PlaceInv` hold together. A callback runs in its connection's loop, except
  `connectEstablished()`, which runs in the base loop; a thread inside a call may use the connection; nothing knows
  a connection before `newConnection()` and only the base loop one that is not enabled yet; functors and
  events are queued in the connection's loop and its removal in the base loop. `TypeCorrect` (`TypeOK`) needs the last.
- `PollInv` gives `IndexCorrect` (`IndexMatchesKernel`). The books go wrong when `disableAll()` or
  `enableReading()` meets a channel in the wrong place, so it also says what a loop dispatches is in epoll
  (`RoundInv`), a connection in `kConnected` is in epoll and has not reported DOWN (`StateInv`), and
  stays in epoll while its loop's thread is inside `send()` (`CallInv`).
- `EnteredInv` and `OwnedInv` give `NoDangling` (`NoDanglingChannel`): a channel that `m_channels` has belongs to a connection
  that is in `connections_`, or whose `connectDestroyed()` is queued or running, and these own it.
- `DownInv` gives `DownOnce` (`DownAtMostOnce`): after DOWN a connection stays in `kDisconnected` and out of epoll, so
  neither `handleClose()` nor `connectDestroyed()` reports again.
- `SawInv` gives `DestroyedDown` (`DestroyedSawDown`): while the server lives only `removeConnectionInLoop()` takes a
  connection out of `connections_`, and it is queued behind DOWN.
- `BehindInv` gives `FunctorsAlive` (`LoopFunctorsAlive`): once an io loop's connection has left `connections_`, its
  `connectDestroyed()` is behind every functor of its loop that binds `this`. A callback can queue one more only while
  the connection is up, hence before `removeConnection()` was called.

Two lemmas carry most of it: `QueueChanges` (who may push what, and where) and `Changes` (a step keeps a connection's
state, `index_` and DOWNs or is one of six operations).

`ConnectionLifeProofs`: `LifeImplemented` is `Spec => ImplementsConnectionLife`, from the same assumptions. A step does
nothing to any connection but one, or ends the life of the server (`OneConnection`), so the simulation
is about one connection (`Moves`). It is accepted by a server that lives (`NoneMoves`); nothing counts its
DOWN back and, by `SawInv`, it is not destroyed before it while the server lives; and with the last
`shared_ptr` gone nobody can make another (`NotRevived`), unless it goes astray.

`BufferProofs`, for any sizes (`BufferAssumption`: they are numbers, and `extrabuf` is not empty):

- `AppendAddsNothing`: `append()` leaves the content of any buffer as it was, whether the vector has room, grows,
  or has its content moved to the front (`MakeSpaceKeeps`, `RetrieveLeaves` and others, by the indices of the bytes).
- `ReadFdAdds`: `readFd()` adds the bytes that the vector has room for, in order, and no others.

`TcpStreamProofs`, for any sizes, any capacity of the socket and any number of bytes (`TcpStreamAssumption`:
they are numbers). Both intactness theorems rest on `ConcatOrder` (a concatenation rises when both parts do
and the first is below the second) and `Cut` (a sequence is its two pieces):

- `TypeCorrect` (`TypeOK`): in both buffers the indices stay in order and inside the vector.
- `InputReachesCallback` (`InputIntact`), from `InputInv`: it adds that only bytes that were sent can be spilled, without which
  a byte could be lost before it comes.
- `OutputReachesWire` (`OutputIntact`), from `OutputInv`. `EchoInv`: what is echoed was delivered, so by `InputInv` the bytes
  of the next message are above it. `QueueInv`: the queued functors have rising bytes of the other thread,
  above those on the wire, and none of either was lost by a partial write. `ShutdownInv`: while `state_` is `kConnected` no
  `shutdownInLoop()` is queued or about to be, since `setState()` comes first and nothing sets `state_` back, so that a
  `send()` queued then is ahead of it; and `state_` is `kDisconnected` only after `handleClose()`, so that until then the loop drops
  nothing before FIN. `PromiseInv`: until `handleClose()`, what was promised is on the wire, pending or unsent.
- `OutputBufferStaysEmpty`: `outputBuffer_` never has any content. It says of every size what `tcp_stream_intact` shows
  on one: the rest of a partial write is dropped.

TLAPS cannot unfold a `SelectSeq`, which is defined by a recursion inside `LET`; the order of bytes is
therefore stated with `InOrder` and sets.

Only model-checked: the liveness properties `QueuedFunctorRuns`, `QuitEndsLoop`, `IoNotStarved`, `StartReturns`,
`QuitEndsThread`, `EndedIsRemoved`, `ShutdownSendsFin`, `PromiseKept`, `TaskIsTaken` and `DestructorReturns`, as fairness and
ENABLED are out of the prover's reach. Every other property of a passing run is a theorem.

## 5. Not modelled

- `easylogging++` is vendored: 7688 of the repository's 11302 lines. `InetAddress`, `Socket`, `CurrentThread` and
  the formatting of `Timestamp` are thin wrappers and text; `ThreadLocalStorage` is used by nothing; the
  programs under `tests/` are read as statements of what the library should do.
- Code that cannot run: `handleWrite()`, `Buffer::writeFd()` and what depends on `isWriting()`, since nothing
  enables writing. `handleError()` reads the error and changes nothing.
- `Acceptor::handleRead()` when `accept()` fails for want of descriptors: the listening socket stays readable
  and the loop spins, which no state of these models shows. The reuse of fd numbers.
- A pool of io loops without threads has no life of its own (`TcpServer` has that case as `pool`). A second
  call of `ThreadPool::start()` would assign over a joinable `std::thread`, which ends the process; it is
  not made.
- SIGPIPE: the models follow a program that ignores it.
- Queued functors that a loop which quit never runs: `TcpServer` has them stop with the loop and says what
  remains true; nothing is promised about them.

## 6. Plan

Every safety invariant of a passing run and both refinements are proved. What is left are the safety parts of
the liveness properties, as action properties: a functor keeps its turn while others are queued behind
it, what a `shutdown()` has queued stays queued until its loop runs it or stops, a task stays in the deque
until a worker takes it, and a batch of functors never grows while the loop runs it.
