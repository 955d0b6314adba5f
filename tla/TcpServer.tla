------------------------------ MODULE TcpServer ------------------------------
(***************************************************************************)
(* TcpServer and its TcpConnections: connections accepted by the base      *)
(* loop, dealt out to io loops, read, written, closed and destroyed by     *)
(* the threads of both, and by threads that were given a TcpConnectionPtr. *)
(*                                                                         *)
(* A loop's thread goes round as EventLoop.tla has it: it polls, dispatches *)
(* the channels the poll reported (active), takes the queued functors and  *)
(* runs them (running).  pc tells which callback it is in, and on for      *)
(* which connection.                                                       *)
(*                                                                         *)
(* A connection is destroyed when the last shared_ptr of it goes; send()   *)
(* and shutdown() bind this, which is none.  (The code drops the functors  *)
(* of a batch when all have run; here each goes when it has run, which     *)
(* destroys a connection no later than the code does.)                     *)
(*                                                                         *)
(* Bytes are not kept, only whether read() has something to return: they   *)
(* are in TcpStream.tla.                                                   *)
(***************************************************************************)
EXTENDS EpollPoller, Naturals, Sequences, SequencesExt

CONSTANTS
    BaseLoop,       \* the loop of the TcpServer
    IoLoops,        \* the loops its pool may have
    Users,          \* threads that are not a loop's
    NoConn,         \* not a connection
    MaxCalls        \* bound on the calls of send() and shutdown() by user code

Loops == {BaseLoop} \cup IoLoops
Threads == Loops \cup Users

ASSUME LoopsAssumption == BaseLoop \notin IoLoops /\ Users \cap Loops = {}
ASSUME NoConnAssumption == NoConn \notin Conns
ASSUME MaxCallsAssumption == MaxCalls \in Nat

VARIABLES
    server,         \* new, up, destroying (in its destructor), gone
    pool,           \* loops of its pool; none unless setThreadNum() was called
    connections,    \* connections_
    state,          \* state_, "none" before newConnection()
    loopOf,         \* loop_ of each connection
    held,           \* connections Users have a TcpConnectionPtr of
    pc, on,         \* what each loop's thread does, and for which connection
    call,           \* where each thread is in send() or shutdown()
    active,         \* channels the loop's last poll reported, not dispatched yet
    polled,         \* the loop polled, and did not take its functors yet
    running,        \* functors it took and did not run yet
    queue,          \* m_pendingFunctors
    inbox,          \* socket: unread input, or an error not reported yet
    peer,           \* socket: open, or how the other side ended it
    finSent,        \* socket: shutdownWrite() was called
    downs,          \* history: connection callbacks that reported DOWN
    calls,          \* history: how many calls user code has made
    stray           \* history: connections whose shutdown() overwrote
                    \* kDisconnected, or that sent after connectDestroyed()

owners == <<server, pool, connections, loopOf, held>>
rounds == <<active, polled, running>>
thread == <<pc, on, call>>
socket == <<inbox, peer, finSent>>
history == <<downs, calls, stray>>
vars == <<pollerVars, owners, state, thread, rounds, queue, socket, history>>

-----------------------------------------------------------------------------
(* Vocabulary *)

\* Functors: those in Owning bind a shared_ptr, those in Raw bind this.  The
\* high water mark callback is like the write complete callback, and written
\* stands for either.
Owning == {"remove", "destroy", "written"}
Raw == {"send", "shutdown"}
Functor(op, c, x) == [op |-> op, conn |-> c, user |-> x \in Users]

Queued == UNION {ToSet(queue[l]) \cup ToSet(running[l]) : l \in Loops}

\* Somebody has a shared_ptr of c.
Referenced(c) ==
    \/ c \in connections \cup held
    \/ \E l \in Loops : on[l] = c
    \/ \E f \in Queued : f.conn = c /\ f.op \in Owning

\* User code that runs in thread x can use c.
CanUse(x, c) ==
    IF x \in Users THEN c \in held
    ELSE on[x] = c /\ pc[x] \in {"up", "message", "written", "down"}

\* The thread of loop l starts its work for c, or ends it.
Become(l, where, c) ==
    /\ pc' = [pc EXCEPT ![l] = where]
    /\ on' = [on EXCEPT ![l] = c]

Push(l, f) == queue' = [queue EXCEPT ![l] = Append(@, f)]

\* A DOWN callback; more than two are two.
CountDown(c) == downs' = [downs EXCEPT ![c] = IF @ < 2 THEN @ + 1 ELSE @]

-----------------------------------------------------------------------------
Init ==
    /\ PollerInit
    /\ server = "new" /\ pool = {}
    /\ connections = {} /\ held = {}
    /\ state = [c \in Conns |-> "none"]
    /\ loopOf = [c \in Conns |-> BaseLoop]
    /\ pc = [l \in Loops |-> "idle"]
    /\ on = [l \in Loops |-> NoConn]
    /\ call = [x \in Threads |-> [at |-> "none", conn |-> NoConn]]
    /\ active = [l \in Loops |-> {}]
    /\ polled = [l \in Loops |-> FALSE]
    /\ running = [l \in Loops |-> <<>>]
    /\ queue = [l \in Loops |-> <<>>]
    /\ inbox = [c \in Conns |-> FALSE]
    /\ peer = [c \in Conns |-> "open"]
    /\ finSent = [c \in Conns |-> FALSE]
    /\ downs = [c \in Conns |-> 0]
    /\ calls = 0 /\ stray = {}

-----------------------------------------------------------------------------
(* The other side of a connection *)

PeerSends(c) ==
    /\ state[c] # "none" /\ peer[c] = "open"
    /\ inbox' = [inbox EXCEPT ![c] = TRUE]
    /\ UNCHANGED <<pollerVars, owners, state, thread, rounds, queue, peer, finSent, history>>

PeerCloses(c) ==
    /\ state[c] # "none" /\ peer[c] = "open"
    /\ peer' = [peer EXCEPT ![c] = "fin"]
    /\ UNCHANGED <<pollerVars, owners, state, thread, rounds, queue, inbox, finSent, history>>

\* One read() reports the reset, those after it return 0.
PeerResets(c) ==
    /\ state[c] # "none" /\ peer[c] = "open"
    /\ peer' = [peer EXCEPT ![c] = "reset"]
    /\ inbox' = [inbox EXCEPT ![c] = TRUE]
    /\ UNCHANGED <<pollerVars, owners, state, thread, rounds, queue, finSent, history>>

-----------------------------------------------------------------------------
(* The rounds of a loop *)

\* The thread is between two callbacks of loop(): dispatching what it polled,
\* running the functors it took, or about to poll.
InLoop(l) == pc[l] = "idle" /\ (l = BaseLoop => server = "up")
Dispatching(l) == InLoop(l) /\ polled[l]
AboutToPoll(l) == InLoop(l) /\ ~polled[l] /\ running[l] = <<>>

\* Every poller reports the channels of all loops.
FaultReady(l) == {c \in registered : inbox[c] \/ peer[c] # "open"}

Ready(l) == {c \in registered : loopOf[c] = l /\ (inbox[c] \/ peer[c] # "open")}

\* poll() returns for its channels, the wakeup fd, or the listening socket
\* (the last adds nothing to active).  Rounds with nothing to do are left out.
Poll(l) ==
    /\ AboutToPoll(l)
    /\ \/ Ready(l) # {} \/ queue[l] # <<>>
       \/ l = BaseLoop /\ \E c \in Conns : state[c] = "none"
    /\ active' = [active EXCEPT ![l] = Ready(l)]
    /\ polled' = [polled EXCEPT ![l] = TRUE]
    /\ UNCHANGED <<pollerVars, owners, state, thread, running, queue, socket, history>>

TakeFunctors(l) ==
    /\ Dispatching(l) /\ active[l] = {}
    /\ polled' = [polled EXCEPT ![l] = FALSE]
    /\ running' = [running EXCEPT ![l] = queue[l]]
    /\ queue' = [queue EXCEPT ![l] = <<>>]
    /\ UNCHANGED <<pollerVars, owners, state, thread, active, socket, history>>

\* The next functor, which the thread is about to run, is op.
NextFunctor(l, op) ==
    /\ InLoop(l) /\ running[l] # <<>>
    /\ Head(running[l]).op = op

Target(l) == Head(running[l]).conn

Pop(l) == running' = [running EXCEPT ![l] = Tail(@)] /\ UNCHANGED <<active, polled>>

-----------------------------------------------------------------------------
(* Accepting, in the base loop's thread *)

\* setThreadNum(), or not, and start(): the pool's loops run, and the acceptor
\* listens.
Start ==
    /\ server = "new"
    /\ server' = "up"
    /\ pool' \in {{}, IoLoops}
    /\ UNCHANGED <<pollerVars, connections, loopOf, held, state, thread, rounds, queue,
                   socket, history>>

\* Acceptor::handleRead(): accept() returns c.  One that fails does nothing.
Accept(c) ==
    /\ Dispatching(BaseLoop)
    /\ state[c] = "none"

GetNextLoop == IF pool = {} THEN {BaseLoop} ELSE pool

\* TcpConnection's constructor, for a connection of loop l.
Construct(c, l) ==
    /\ loopOf' = [loopOf EXCEPT ![c] = l]
    /\ state' = [state EXCEPT ![c] = "kConnecting"]

\* newConnection() is called without keeping the connection in connections_.
FaultNewConnection(c) ==
    /\ Accept(c)
    /\ \E l \in GetNextLoop : Construct(c, l)
    /\ Become(BaseLoop, "enable", c)
    /\ UNCHANGED <<pollerVars, server, pool, connections, held, call, rounds, queue, socket, history>>

\* newConnection(), up to connectEstablished(), which it calls in place.
NewConnection(c) ==
    /\ Accept(c)
    /\ \E l \in GetNextLoop : Construct(c, l)
    /\ connections' = connections \cup {c}
    /\ Become(BaseLoop, "enable", c)
    /\ UNCHANGED <<pollerVars, server, pool, held, call, rounds, queue, socket, history>>

\* setState(kConnected), tie() and enableReading(): from here on the io loop
\* dispatches the channel.
EnableReading ==
    /\ pc[BaseLoop] = "enable"
    /\ state' = [state EXCEPT ![on[BaseLoop]] = "kConnected"]
    /\ EnableChannel(on[BaseLoop])
    /\ Become(BaseLoop, "enabled", on[BaseLoop])
    /\ UNCHANGED <<owners, call, rounds, queue, socket, history>>

\* connectionCallback_(shared_from_this()): UP.
ConnectionUp ==
    /\ pc[BaseLoop] = "enabled"
    /\ Become(BaseLoop, "up", on[BaseLoop])
    /\ UNCHANGED <<pollerVars, owners, state, call, rounds, queue, socket, history>>

\* The callback may leave a TcpConnectionPtr where another thread finds it.
KeepPointer ==
    /\ Users # {} /\ pc[BaseLoop] = "up"
    /\ held' = held \cup {on[BaseLoop]}
    /\ UNCHANGED <<pollerVars, server, pool, connections, loopOf, state, thread, rounds,
                   queue, socket, history>>

DropPointer(c) ==
    /\ c \in held /\ \A x \in Users : call[x].conn # c
    /\ held' = held \ {c}
    /\ UNCHANGED <<pollerVars, server, pool, connections, loopOf, state, thread, rounds,
                   queue, socket, history>>

\* A connection, message, write complete or high water mark callback returns to the loop.
CallbackReturns(l) ==
    /\ pc[l] \in {"up", "message", "written"}
    /\ call[l].at = "none"
    /\ Become(l, "idle", NoConn)
    /\ UNCHANGED <<pollerVars, owners, state, call, rounds, queue, socket, history>>

-----------------------------------------------------------------------------
(* send() and shutdown(), by user code in any thread *)

\* if (state_ == kConnected)
BeginCall(x, c) ==
    /\ CanUse(x, c)
    /\ call[x].at = "none"
    /\ state[c] = "kConnected"
    /\ calls < MaxCalls /\ calls' = calls + 1
    /\ \E method \in {"send", "shutdown"} :
           call' = [call EXCEPT ![x] = [at |-> method, conn |-> c]]
    /\ UNCHANGED <<pollerVars, owners, state, pc, on, rounds, queue, socket, downs, stray>>

CallEnds(x) == call' = [call EXCEPT ![x] = [at |-> "none", conn |-> NoConn]]

\* write() gives EPIPE or ECONNRESET.
WriteFails(c) == peer[c] = "reset" \/ finSent[c]

\* sendInLoop() does not look at state_.
FaultSendInLoop(l, c) ==
    IF WriteFails(c)
    THEN UNCHANGED <<pollerVars, queue>>
    ELSE \/ Push(l, Functor("written", c, l)) /\ UNCHANGED pollerVars
         \/ /\ EnableChannel(c)
            /\ Push(l, Functor("written", c, l)) \/ UNCHANGED queue

\* sendInLoop(): nothing is written; or all, and the write complete callback
\* is queued; or less, when the high water mark callback may be, and the
\* channel is enabled for reading.  outputBuffer_ stays empty, since
\* Buffer::append() does not advance its writerIndex_.
SendInLoop(l, c) ==
    IF state[c] = "kDisconnected" \/ WriteFails(c)
    THEN UNCHANGED <<pollerVars, queue>>
    ELSE \/ Push(l, Functor("written", c, l)) /\ UNCHANGED pollerVars
         \/ /\ EnableChannel(c)
            /\ Push(l, Functor("written", c, l)) \/ UNCHANGED queue

\* send(): in place in the connection's loop, else queued.
Send(x) ==
    /\ call[x].at = "send"
    /\ LET c == call[x].conn
       IN  IF x = loopOf[c]
           THEN SendInLoop(x, c)
           ELSE Push(loopOf[c], Functor("send", c, x)) /\ UNCHANGED pollerVars
    /\ CallEnds(x)
    /\ UNCHANGED <<owners, state, pc, on, rounds, socket, history>>

\* shutdown(): setState(kDisconnecting) ...
SetDisconnecting(x) ==
    /\ call[x].at = "shutdown"
    /\ LET c == call[x].conn
       IN  /\ state' = [state EXCEPT ![c] = "kDisconnecting"]
           /\ stray' = IF state[c] = "kDisconnected" THEN stray \cup {c} ELSE stray
    /\ call' = [call EXCEPT ![x].at = "queue"]
    /\ UNCHANGED <<pollerVars, owners, pc, on, rounds, queue, socket, downs, calls>>

\* shutdown() does nothing after setState(kDisconnecting).
FaultQueueShutdown(x) ==
    /\ call[x].at = "queue"
    /\ CallEnds(x)
    /\ UNCHANGED <<pollerVars, owners, state, pc, on, rounds, queue, socket, history>>

\* ... and queueInLoop(shutdownInLoop).
QueueShutdown(x) ==
    /\ call[x].at = "queue"
    /\ Push(loopOf[call[x].conn], Functor("shutdown", call[x].conn, x))
    /\ CallEnds(x)
    /\ UNCHANGED <<pollerVars, owners, state, pc, on, rounds, socket, history>>

RunSend(l) ==
    /\ NextFunctor(l, "send")
    /\ SendInLoop(l, Target(l))
    /\ stray' = IF index[Target(l)] = "kNew" /\ state[Target(l)] # "kDisconnected"
                THEN stray \cup {Target(l)} ELSE stray
    /\ Pop(l)
    /\ UNCHANGED <<owners, state, thread, socket, downs, calls>>

ShutdownWrite(c) == finSent' = [finSent EXCEPT ![c] = TRUE]

\* shutdownInLoop(): isWriting() is never true.
RunShutdown(l) ==
    /\ NextFunctor(l, "shutdown")
    /\ ShutdownWrite(Target(l))
    /\ Pop(l)
    /\ UNCHANGED <<pollerVars, owners, state, thread, queue, inbox, peer, history>>

\* writeCompleteCallback_(shared_from_this()), or highWaterMarkCallback_().
RunWritten(l) ==
    /\ NextFunctor(l, "written")
    /\ Become(l, "written", Target(l))
    /\ Pop(l)
    /\ UNCHANGED <<pollerVars, owners, state, call, queue, socket, history>>

-----------------------------------------------------------------------------
(* Events: Channel::handleEvent(), TcpConnection::handleRead() and          *)
(* handleClose().                                                           *)

\* The next channel is c's; the connection is there, or tie_.lock() fails.
NextEvent(l, c) ==
    /\ Dispatching(l) /\ c \in active[l]
    /\ active' = [active EXCEPT ![l] = @ \ {c}]
    /\ UNCHANGED <<polled, running>>

SkipEvent(l, c) ==
    /\ NextEvent(l, c) /\ ~Referenced(c)
    /\ UNCHANGED <<pollerVars, owners, state, thread, queue, socket, history>>

\* The read callback runs whatever the event is; the others do not, as the
\* channel is watched for input only, and the error callback changes nothing.
HandleEventWithGuard(l, c) == NextEvent(l, c) /\ Referenced(c)

\* handleRead(): readFd() returns a number of bytes, or the -1 that size_t
\* makes a large one; the message callback follows either.
HandleRead(l, c) ==
    /\ HandleEventWithGuard(l, c)
    /\ inbox[c]
    /\ inbox' = [inbox EXCEPT ![c] = FALSE]
    /\ Become(l, "message", c)
    /\ UNCHANGED <<pollerVars, owners, state, call, queue, peer, finSent, history>>

\* handleClose() does not disable the channel.
FaultHandleClose(l, c) ==
    /\ HandleEventWithGuard(l, c)
    /\ ~inbox[c] /\ peer[c] # "open"
    /\ state' = [state EXCEPT ![c] = "kDisconnected"]
    /\ CountDown(c)
    /\ Become(l, "down", c)
    /\ UNCHANGED <<pollerVars, owners, call, queue, socket, calls, stray>>

\* handleRead() that reads nothing, and handleClose() up to the connection
\* callback: setState(kDisconnected), disableAll().
HandleClose(l, c) ==
    /\ HandleEventWithGuard(l, c)
    /\ ~inbox[c] /\ peer[c] # "open"
    /\ state' = [state EXCEPT ![c] = "kDisconnected"]
    /\ DisableAll(c)
    /\ CountDown(c)
    /\ Become(l, "down", c)
    /\ UNCHANGED <<owners, call, queue, socket, calls, stray>>

\* Any loop removes and destroys the connection in place.
FaultCloseCallback(l) ==
    /\ pc[l] = "down" /\ call[l].at = "none"
    /\ connections' = connections \ {on[l]}
    /\ RemoveChannel(on[l])
    /\ Become(l, "idle", NoConn)
    /\ UNCHANGED <<server, pool, loopOf, held, state, call, rounds, queue, socket, history>>

\* No closeCallback_ is set.
FaultNoCloseCallback(l) ==
    /\ pc[l] = "down" /\ call[l].at = "none"
    /\ Become(l, "idle", NoConn)
    /\ UNCHANGED <<pollerVars, owners, state, call, rounds, queue, socket, history>>

\* closeCallback_ is removeConnection(), which is queued to the base loop; in
\* the base loop itself connectDestroyed() follows in place, with state_ no
\* longer kConnected.
CloseCallback(l) ==
    /\ pc[l] = "down" /\ call[l].at = "none"
    /\ IF l = BaseLoop
       THEN /\ connections' = connections \ {on[l]}
            /\ RemoveChannel(on[l])
            /\ UNCHANGED queue
       ELSE /\ Push(BaseLoop, Functor("remove", on[l], l))
            /\ UNCHANGED <<pollerVars, connections>>
    /\ Become(l, "idle", NoConn)
    /\ UNCHANGED <<server, pool, loopOf, held, state, call, rounds, socket, history>>

-----------------------------------------------------------------------------
(* Removing *)

\* removeConnectionInLoop(), for a connection of another loop.
RunRemove ==
    /\ NextFunctor(BaseLoop, "remove")
    /\ connections' = connections \ {Target(BaseLoop)}
    /\ Push(loopOf[Target(BaseLoop)], Functor("destroy", Target(BaseLoop), BaseLoop))
    /\ Pop(BaseLoop)
    /\ UNCHANGED <<pollerVars, server, pool, loopOf, held, state, thread, socket, history>>

\* connectDestroyed(): a connection that is still up is told so first.
ConnectDestroyed(l, c) ==
    IF state[c] = "kConnected"
    THEN /\ state' = [state EXCEPT ![c] = "kDisconnected"]
         /\ DisableAll(c)
         /\ CountDown(c)
         /\ Become(l, "destroy", c)
    ELSE RemoveChannel(c) /\ UNCHANGED <<state, downs, pc, on>>

RunDestroy(l) ==
    /\ NextFunctor(l, "destroy")
    /\ ConnectDestroyed(l, Target(l))
    /\ Pop(l)
    /\ UNCHANGED <<owners, call, queue, socket, calls, stray>>

\* channel_->remove(), after the connection callback.
DestroyReturns(l) ==
    /\ pc[l] = "destroy"
    /\ RemoveChannel(on[l])
    /\ Become(l, "idle", NoConn)
    /\ UNCHANGED <<owners, state, call, rounds, queue, socket, history>>

-----------------------------------------------------------------------------
(* ~TcpServer(), when the base loop's loop() has returned *)

DestroyServer ==
    /\ AboutToPoll(BaseLoop)
    /\ server' = "destroying"
    /\ UNCHANGED <<pollerVars, pool, connections, loopOf, held, state, thread, rounds,
                   queue, socket, history>>

\* connectDestroyed() is run in place or queued to the io loop.
DestroyConnection(c) ==
    /\ server = "destroying" /\ pc[BaseLoop] = "idle"
    /\ c \in connections
    /\ connections' = connections \ {c}
    /\ IF loopOf[c] = BaseLoop
       THEN ConnectDestroyed(BaseLoop, c) /\ UNCHANGED queue
       ELSE /\ Push(loopOf[c], Functor("destroy", c, BaseLoop))
            /\ UNCHANGED <<pollerVars, state, downs, pc, on>>
    /\ UNCHANGED <<server, pool, loopOf, held, call, rounds, socket, calls, stray>>

DestroyPool ==
    /\ server = "destroying" /\ pc[BaseLoop] = "idle"
    /\ connections = {}
    /\ server' = "gone"
    /\ UNCHANGED <<pollerVars, pool, connections, loopOf, held, state, thread, rounds,
                   queue, socket, history>>

\* The pool's destructor quit the loop; functors may be left.
StopLoop(l) ==
    /\ server = "gone"
    /\ l \in pool /\ AboutToPoll(l)
    /\ pc' = [pc EXCEPT ![l] = "stopped"]
    /\ UNCHANGED <<pollerVars, owners, state, on, call, rounds, queue, socket, history>>

-----------------------------------------------------------------------------
PeerStep(c) == PeerSends(c) \/ PeerCloses(c) \/ PeerResets(c)
CallStep(x) == Send(x) \/ SetDisconnecting(x) \/ QueueShutdown(x)
BaseStep == EnableReading \/ ConnectionUp \/ RunRemove
HandleEvent(l, c) == SkipEvent(l, c) \/ HandleRead(l, c) \/ HandleClose(l, c)
Return(l) == CallbackReturns(l) \/ CloseCallback(l) \/ DestroyReturns(l)

LoopStep(l) ==
    \/ Poll(l) \/ TakeFunctors(l)
    \/ \E c \in Conns : HandleEvent(l, c)
    \/ RunSend(l) \/ RunShutdown(l) \/ RunWritten(l) \/ RunDestroy(l)
    \/ Return(l)

Next ==
    \/ \E c \in Conns : PeerStep(c) \/ NewConnection(c) \/ DropPointer(c) \/ DestroyConnection(c)
    \/ \E x \in Threads : CallStep(x) \/ \E c \in Conns : BeginCall(x, c)
    \/ \E l \in Loops : LoopStep(l) \/ StopLoop(l)
    \/ Start \/ BaseStep \/ KeepPointer \/ DestroyServer \/ DestroyPool

Spec == Init /\ [][Next]_vars

\* Threads run, and a user callback returns in the end: it calls send() and
\* shutdown() finitely often.  Nobody has to connect, to end a connection, to
\* call anything or to destroy the server.
Fairness ==
    /\ WF_vars(BaseStep)
    /\ \A l \in Loops : WF_vars(LoopStep(l))
    /\ \A x \in Threads : WF_vars(CallStep(x))

FairSpec == Spec /\ Fairness

-----------------------------------------------------------------------------
(* Properties *)

\* Type invariant; a loop dispatches its own channels only.
TypeOK ==
    /\ {channels, registered, watched, connections, held, stray} \subseteq SUBSET Conns
    /\ index \in [Conns -> Indices]
    /\ server \in {"new", "up", "destroying", "gone"} /\ pool \in {{}, IoLoops}
    /\ state \in [Conns -> {"none", "kConnecting", "kConnected", "kDisconnecting",
                          "kDisconnected"}]
    /\ loopOf \in [Conns -> Loops]
    /\ pc \in [Loops -> {"idle", "enable", "enabled", "up", "message", "written",
                         "down", "destroy", "stopped"}]
    /\ on \in [Loops -> Conns \cup {NoConn}]
    /\ call \in [Threads -> [at : {"none", "send", "shutdown", "queue"},
                             conn : Conns \cup {NoConn}]]
    /\ \A l \in Loops : active[l] \subseteq {c \in Conns : loopOf[c] = l}
    /\ polled \in [Loops -> BOOLEAN]
    /\ Queued \subseteq [op : Owning \cup Raw, conn : Conns, user : BOOLEAN]
    /\ {inbox, finSent} \subseteq [Conns -> BOOLEAN]
    /\ peer \in [Conns -> {"open", "fin", "reset"}]
    /\ downs \in [Conns -> 0 .. 2] /\ calls \in 0 .. MaxCalls

\* When the last shared_ptr of a connection goes, no epoll instance and no
\* list of active channels has its channel, which goes with it: tie() alone
\* does not ensure that.  stray names the two ways round it.
NoDanglingChannel ==
    \A c \in Conns :
        state[c] # "none" /\ ~Referenced(c) /\ c \notin stray =>
            /\ c \notin registered \cup channels
            /\ \A l \in Loops : c \notin active[l]

\* A connection reports DOWN at most once, whether the other side ended it,
\* the server was destroyed, or both.
DownAtMostOnce == \A c \in Conns \ stray : downs[c] <= 1

\* While the server lives a connection is destroyed only after it reported
\* DOWN.
DestroyedSawDown ==
    \A c \in Conns : server = "up" /\ state[c] # "none" /\ ~Referenced(c) => downs[c] >= 1

\* A functor of send() or shutdown() that a loop's own callback queued finds
\* its connection alive though it does not own it: connectDestroyed() of an io
\* loop is queued behind it.  That needs a loop_ that is not the base loop,
\* which TcpConnection.h:101 takes for granted, and a living server.
LoopFunctorsAlive ==
    \A f \in Queued :
        server = "up" /\ f.op \in Raw /\ ~f.user /\ loopOf[f.conn] # BaseLoop =>
            Referenced(f.conn)

\* The life of a connection as ConnectionLife.tla has it, although it is
\* counted in functors, loops and a map by several threads: nothing revives a
\* connection, ends it twice or destroys it before its end.
phase ==
    [c \in Conns |->
        CASE state[c] = "none" -> "none"
          [] c \in stray -> "astray"
          [] c \notin stray /\ state[c] # "none" /\ ~Referenced(c) -> "destroyed"
          [] OTHER -> IF downs[c] = 0 THEN "live" ELSE "ended"]

Life == INSTANCE ConnectionLife WITH serving <- server \in {"new", "up"}

ImplementsConnectionLife == Life!Spec

\* A connection that the other side ended leaves connections_ and is destroyed,
\* unless a thread has a TcpConnectionPtr or the server is destroyed.
EndedIsRemoved ==
    \A c \in Conns :
        c \in registered /\ peer[c] # "open" ~>
            \/ c \notin connections /\ (Referenced(c) => c \in held)
            \/ server # "up"

\* shutdown() closes the socket for writing, unless the connection ends first
\* or the server is destroyed.
ShutdownSendsFin ==
    \A c \in Conns :
        state[c] = "kDisconnecting" ~>
            finSent[c] \/ state[c] = "kDisconnected" \/ server # "up"

-----------------------------------------------------------------------------
(* What a test says and the code does not do; refuted by a run.             *)

\* tests/echoServer.cc:45-56: the connection callback says that a connection
\* is up, then messages come, then it says that it is down.
UpFirst ==
    \A l \in Loops :
        pc[l] \in {"message", "down"} /\ on[l] = on[BaseLoop] => pc[BaseLoop] # "enabled"
=============================================================================
