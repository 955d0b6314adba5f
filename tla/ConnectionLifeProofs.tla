------------------------- MODULE ConnectionLifeProofs -------------------------
(***************************************************************************)
(* Proof that TcpServer implements ConnectionLife: a step of any thread    *)
(* takes one connection, at most, one phase further.                       *)
(***************************************************************************)
EXTENDS TcpServerProofs

\* A step does nothing to the phase of c, nor to what holds c.
Alone(c) ==
    /\ state'[c] = state[c] /\ downs'[c] = downs[c]
    /\ c \in stray' <=> c \in stray
    /\ c \in connections' <=> c \in connections
    /\ c \in held' <=> c \in held
    /\ \A l \in Loops : on'[l] = c <=> on[l] = c
    /\ \A f \in Functors : f.conn = c => (f \in Queued' <=> f \in Queued)

\* A step concerns d only, or ends the life of the server.
Concerns(d) == UNCHANGED server /\ \A c \in Conns \ {d} : Alone(c)

-----------------------------------------------------------------------------
\* A thread that turns to d, from d or from nothing, leaves the others.
LEMMA BecomeAlone ==
    ASSUME Typed, NEW l \in Loops, NEW where, NEW d \in Conns \cup {NoConn}, Become(l, where, d),
           NEW c \in Conns, c # d, on[l] # c
    PROVE  \A k \in Loops : on'[k] = c <=> on[k] = c
<1>1. on \in [Loops -> Conns \cup {NoConn}] /\ on' = [on EXCEPT ![l] = d]
  BY DEF Typed, Become
<1>2. on'[l] = d /\ \A k \in Loops \ {l} : on'[k] = on[k]
  BY <1>1
<1> QED  BY <1>2

\* What connectDestroyed() of d does to other connections.
LEMMA DestroyedAlone ==
    ASSUME Typed, NEW l \in Loops, NEW d \in Conns, ConnectDestroyed(l, d), pc[l] = "idle",
           NEW c \in Conns, c # d
    PROVE  /\ state'[c] = state[c] /\ downs'[c] = downs[c]
           /\ \A k \in Loops : on'[k] = c <=> on[k] = c
<1>1. /\ state \in [Conns -> States] /\ downs \in [Conns -> 0 .. 2]
      /\ on \in [Loops -> Conns \cup {NoConn}] /\ on[l] = NoConn
  BY DEF Typed
<1>2. CASE state[d] = "kConnected"
  <2>1. state' = [state EXCEPT ![d] = "kDisconnected"] /\ CountDown(d) /\ Become(l, "destroy", d)
    BY <1>2 DEF ConnectDestroyed
  <2>2. downs' = [downs EXCEPT ![d] = downs'[d]]
    BY <1>1, <2>1, CountDownEffect
  <2>3. on[l] # c
    BY <1>1, NoConnAssumption
  <2>4. \A k \in Loops : on'[k] = c <=> on[k] = c
    BY <2>1, <2>3, BecomeAlone
  <2> QED  BY <1>1, <2>1, <2>2, <2>4
<1>3. CASE state[d] # "kConnected"
  BY <1>3 DEF ConnectDestroyed
<1> QED  BY <1>2, <1>3

\* Each step concerns one connection at most.
LEMMA OneConnection ==
    ASSUME Typed, RoundInv, [Next]_vars
    PROVE  (\E d \in Conns \cup {NoConn} : Concerns(d)) \/ \A c \in Conns : Alone(c)
<1> DEFINE Goal == (\E d \in Conns \cup {NoConn} : Concerns(d)) \/ \A c \in Conns : Alone(c)
<1> BaseLoop \in Loops
  BY DEF Loops
<1> USE DEF pollerVars, owners, rounds, thread, socket, history
<1>1. ASSUME UNCHANGED <<state, downs, stray, connections, held, on>>, Queued' = Queued
      PROVE  Goal
  BY <1>1 DEF Alone
<1>2. ASSUME UNCHANGED <<queue, running>> PROVE Queued' = Queued
  BY <1>2 DEF Queued
<1>3. ASSUME NEW l \in Loops, running[l] # <<>>, Pop(l), UNCHANGED queue
      PROVE  \A f \in Functors : f.conn # Target(l) => (f \in Queued' <=> f \in Queued)
  BY <1>3, PopEffect DEF Target
<1>4. ASSUME NEW l \in Loops, NEW f \in Functors, Push(l, f), UNCHANGED running
      PROVE  \A g \in Functors : g.conn # f.conn => (g \in Queued' <=> g \in Queued)
  BY <1>4, PushEffect
<1>5. ASSUME NEW l \in Loops, running[l] # <<>>, Pop(l), NEW k \in Loops, NEW f \in Functors, Push(k, f),
             f.conn = Target(l)
      PROVE  \A g \in Functors : g.conn # Target(l) => (g \in Queued' <=> g \in Queued)
  BY <1>5, PopPushEffect DEF Target
<1>6. ASSUME NEW l \in Loops, NEW d \in Conns \cup {NoConn}, NEW where, Become(l, where, d),
             on[l] \in {d, NoConn}
      PROVE  \A c \in Conns \ {d} : \A k \in Loops : on'[k] = c <=> on[k] = c
  BY <1>6, BecomeAlone, NoConnAssumption
<1>7. ASSUME NEW l \in Loops, NEW where, Become(l, where, NoConn)
      PROVE  \A c \in Conns \ {on[l]} : \A k \in Loops : on'[k] = c <=> on[k] = c
  BY <1>7, BecomeAlone, NoConnAssumption
<1>8. ASSUME NEW d \in Conns, NewConnection(d) PROVE Goal
  <2>1. /\ state' = [state EXCEPT ![d] = "kConnecting"] /\ connections' = connections \cup {d}
        /\ Become(BaseLoop, "enable", d) /\ pc[BaseLoop] = "idle"
        /\ UNCHANGED <<downs, stray, held, queue, running, server>>
    BY <1>8 DEF NewConnection, Accept, Dispatching, InLoop, Construct
  <2>2. on[BaseLoop] = NoConn
    BY <2>1 DEF Typed
  <2>3. \A c \in Conns \ {d} : state'[c] = state[c]
    BY <2>1 DEF Typed
  <2> QED  BY <1>2, <1>6, <2>1, <2>2, <2>3 DEF Concerns, Alone
<1>9. ASSUME NEW d \in Conns, DestroyConnection(d) PROVE Goal
  <2>1. /\ connections' = connections \ {d} /\ pc[BaseLoop] = "idle"
        /\ UNCHANGED <<server, stray, held, running>>
    BY <1>9 DEF DestroyConnection
  <2>2. CASE loopOf[d] = BaseLoop
    <3>1. ConnectDestroyed(BaseLoop, d) /\ UNCHANGED queue
      BY <1>9, <2>2 DEF DestroyConnection
    <3>2. \A c \in Conns \ {d} : /\ state'[c] = state[c] /\ downs'[c] = downs[c]
                                 /\ \A k \in Loops : on'[k] = c <=> on[k] = c
      BY <2>1, <3>1, DestroyedAlone
    <3> QED  BY <1>2, <2>1, <3>1, <3>2 DEF Concerns, Alone
  <2>3. CASE loopOf[d] # BaseLoop
    <3>1. /\ Push(loopOf[d], Functor("destroy", d, BaseLoop)) /\ UNCHANGED <<state, downs, on>>
          /\ loopOf[d] \in Loops
      BY <1>9, <2>3 DEF DestroyConnection, Typed
    <3>2. Functor("destroy", d, BaseLoop) \in Functors /\ Functor("destroy", d, BaseLoop).conn = d
      BY FunctorType DEF Owning
    <3> QED  BY <1>4, <2>1, <3>1, <3>2 DEF Concerns, Alone
  <2> QED  BY <2>2, <2>3
<1>10. ASSUME NEW d \in Conns, DropPointer(d) PROVE Goal
  <2>1. held' = held \ {d} /\ UNCHANGED <<state, downs, stray, connections, on, queue, running, server>>
    BY <1>10 DEF DropPointer
  <2> QED  BY <1>2, <2>1 DEF Concerns, Alone
<1>11. ASSUME KeepPointer PROVE Goal
  <2>1. /\ held' = held \cup {on[BaseLoop]} /\ on[BaseLoop] \in Conns
        /\ UNCHANGED <<state, downs, stray, connections, on, queue, running, server>>
    BY <1>11 DEF KeepPointer, Typed
  <2> QED  BY <1>2, <2>1 DEF Concerns, Alone
<1>12. ASSUME NEW x \in Threads, Send(x) \/ QueueShutdown(x) PROVE Goal
  <2> DEFINE d == call[x].conn
  <2>1. /\ d \in Conns /\ loopOf[d] \in Loops
        /\ UNCHANGED <<state, downs, stray, connections, held, on, running, server>>
    BY <1>12 DEF Send, QueueShutdown, Typed, Calls
  <2>2. /\ Functor("send", d, x) \in Functors /\ Functor("send", d, x).conn = d
        /\ Functor("shutdown", d, x) \in Functors /\ Functor("shutdown", d, x).conn = d
        /\ Functor("written", d, x) \in Functors /\ Functor("written", d, x).conn = d
    BY <2>1, FunctorType DEF Owning, Raw
  <2>3. \/ UNCHANGED queue
        \/ Push(loopOf[d], Functor("send", d, x)) \/ Push(loopOf[d], Functor("shutdown", d, x))
        \/ Push(loopOf[d], Functor("written", d, x))
    BY <1>12, <2>1, SendEffect DEF Send, QueueShutdown
  <2>4. \A f \in Functors : f.conn # d => (f \in Queued' <=> f \in Queued)
    BY <1>2, <1>4, <2>1, <2>2, <2>3
  <2> QED  BY <2>1, <2>4 DEF Concerns, Alone
<1>13. ASSUME NEW x \in Threads, SetDisconnecting(x) PROVE Goal
  <2> DEFINE d == call[x].conn
  <2>1. /\ d \in Conns /\ state' = [state EXCEPT ![d] = "kDisconnecting"] /\ stray' \in {stray, stray \cup {d}}
        /\ UNCHANGED <<downs, connections, held, on, queue, running, server>>
    BY <1>13 DEF SetDisconnecting, Typed, Calls
  <2>2. \A c \in Conns \ {d} : state'[c] = state[c]
    BY <2>1 DEF Typed
  <2> QED  BY <1>2, <2>1, <2>2 DEF Concerns, Alone
<1>14. ASSUME NEW l \in Loops, NEW d \in Conns, HandleRead(l, d) PROVE Goal
  <2>1. /\ Become(l, "message", d) /\ pc[l] = "idle"
        /\ UNCHANGED <<state, downs, stray, connections, held, queue, running, server>>
    BY <1>14 DEF HandleRead, HandleEventWithGuard, NextEvent, Dispatching, InLoop
  <2>2. on[l] = NoConn
    BY <2>1 DEF Typed
  <2> QED  BY <1>2, <1>6, <2>1, <2>2 DEF Concerns, Alone
<1>15. ASSUME NEW l \in Loops, NEW d \in Conns, HandleClose(l, d) PROVE Goal
  <2>1. /\ Become(l, "down", d) /\ pc[l] = "idle" /\ state' = [state EXCEPT ![d] = "kDisconnected"]
        /\ CountDown(d) /\ UNCHANGED <<stray, connections, held, queue, running, server>>
    BY <1>15 DEF HandleClose, HandleEventWithGuard, NextEvent, Dispatching, InLoop
  <2>2. on[l] = NoConn
    BY <2>1 DEF Typed
  <2>3. downs' = [downs EXCEPT ![d] = downs'[d]]
    BY <2>1, CountDownEffect DEF Typed
  <2>4. \A c \in Conns \ {d} : state'[c] = state[c] /\ downs'[c] = downs[c]
    BY <2>1, <2>3 DEF Typed
  <2> QED  BY <1>2, <1>6, <2>1, <2>2, <2>4 DEF Concerns, Alone
<1>16. ASSUME NEW l \in Loops, RunSend(l) PROVE Goal
  <2> DEFINE d == Target(l)
  <2>1. /\ running[l] # <<>> /\ Pop(l) /\ SendInLoop(l, d) /\ d \in Conns /\ stray' \in {stray, stray \cup {d}}
        /\ UNCHANGED <<state, downs, connections, held, on, server>>
    BY <1>16, TargetType DEF RunSend, NextFunctor
  <2>2. Functor("written", d, l) \in Functors /\ Functor("written", d, l).conn = d
    BY <2>1, FunctorType DEF Owning
  <2>3. UNCHANGED queue \/ Push(l, Functor("written", d, l))
    BY <2>1, SendEffect
  <2>4. \A f \in Functors : f.conn # d => (f \in Queued' <=> f \in Queued)
    BY <1>3, <1>5, <2>1, <2>2, <2>3
  <2> QED  BY <2>1, <2>4 DEF Concerns, Alone
<1>17. ASSUME NEW l \in Loops, RunShutdown(l) PROVE Goal
  <2>1. /\ running[l] # <<>> /\ Pop(l) /\ Target(l) \in Conns
        /\ UNCHANGED <<state, downs, stray, connections, held, on, queue, server>>
    BY <1>17, TargetType DEF RunShutdown, NextFunctor
  <2> QED  BY <1>3, <2>1 DEF Concerns, Alone
<1>18. ASSUME NEW l \in Loops, RunWritten(l) PROVE Goal
  <2>1. /\ running[l] # <<>> /\ Pop(l) /\ Target(l) \in Conns /\ Become(l, "written", Target(l))
        /\ pc[l] = "idle" /\ UNCHANGED <<state, downs, stray, connections, held, queue, server>>
    BY <1>18, TargetType DEF RunWritten, NextFunctor, InLoop
  <2>2. on[l] = NoConn
    BY <2>1 DEF Typed
  <2> QED  BY <1>3, <1>6, <2>1, <2>2 DEF Concerns, Alone
<1>19. ASSUME NEW l \in Loops, RunDestroy(l) PROVE Goal
  <2>1. /\ running[l] # <<>> /\ Pop(l) /\ Target(l) \in Conns /\ ConnectDestroyed(l, Target(l))
        /\ pc[l] = "idle" /\ UNCHANGED <<stray, connections, held, queue, server>>
    BY <1>19, TargetType DEF RunDestroy, NextFunctor, InLoop
  <2>2. \A c \in Conns \ {Target(l)} : /\ state'[c] = state[c] /\ downs'[c] = downs[c]
                                       /\ \A k \in Loops : on'[k] = c <=> on[k] = c
    BY <2>1, DestroyedAlone
  <2> QED  BY <1>3, <2>1, <2>2 DEF Concerns, Alone
<1>20. CASE RunRemove
  <2> DEFINE d == Target(BaseLoop)
             f == Functor("destroy", d, BaseLoop)
  <2>1. /\ running[BaseLoop] # <<>> /\ Pop(BaseLoop) /\ d \in Conns /\ loopOf[d] \in Loops
        /\ Push(loopOf[d], f) /\ connections' = connections \ {d}
        /\ UNCHANGED <<state, downs, stray, held, on, server>>
    BY <1>20, TargetType DEF RunRemove, NextFunctor, Typed
  <2>2. f \in Functors /\ f.conn = d
    BY <2>1, FunctorType DEF Owning
  <2>3. \A g \in Functors : g.conn # d => (g \in Queued' <=> g \in Queued)
    BY <1>5, <2>1, <2>2
  <2> QED  BY <2>1, <2>3 DEF Concerns, Alone
<1>21. ASSUME NEW l \in Loops, Return(l) PROVE Goal
  <2> DEFINE d == on[l]
             f == Functor("remove", d, l)
  <2>1. /\ pc[l] \in {"up", "message", "written", "down", "destroy"} /\ Become(l, "idle", NoConn)
        /\ UNCHANGED <<state, downs, stray, held, running, server>>
        /\ connections' \in {connections, connections \ {d}}
        /\ UNCHANGED queue \/ Push(BaseLoop, f)
    <3>1. CASE CallbackReturns(l) \/ DestroyReturns(l)
      BY <3>1 DEF CallbackReturns, DestroyReturns
    <3>2. CASE CloseCallback(l)
      BY <3>2 DEF CloseCallback
    <3> QED  BY <1>21, <3>1, <3>2 DEF Return
  <2>2. d \in Conns
    BY <2>1 DEF Typed
  <2>3. f \in Functors /\ f.conn = d
    BY <2>2, FunctorType DEF Owning
  <2>4. \A g \in Functors : g.conn # d => (g \in Queued' <=> g \in Queued)
    BY <1>2, <1>4, <2>1, <2>3
  <2> QED  BY <1>7, <2>1, <2>2, <2>4 DEF Concerns, Alone
<1>22. CASE EnableReading
  <2> DEFINE d == on[BaseLoop]
  <2>1. /\ d \in Conns /\ state' = [state EXCEPT ![d] = "kConnected"] /\ Become(BaseLoop, "enabled", d)
        /\ UNCHANGED <<downs, stray, connections, held, queue, running, server>>
    BY <1>22 DEF EnableReading, Typed
  <2>2. \A c \in Conns \ {d} : state'[c] = state[c]
    BY <2>1 DEF Typed
  <2> QED  BY <1>2, <1>6, <2>1, <2>2 DEF Concerns, Alone
<1>23. CASE ConnectionUp
  <2>1. /\ Become(BaseLoop, "up", on[BaseLoop])
        /\ UNCHANGED <<state, downs, stray, connections, held, queue, running>>
    BY <1>23 DEF ConnectionUp
  <2>2. on' = on
    BY <2>1 DEF Become, Typed
  <2> QED  BY <1>1, <1>2, <2>1, <2>2
<1>24. ASSUME NEW l \in Loops, TakeFunctors(l) PROVE Goal
  <2>1. running[l] = <<>>
    BY <1>24 DEF TakeFunctors, Dispatching, RoundInv
  <2>2. Queued' = Queued
    BY <1>24, <2>1, TakeEffect
  <2> QED  BY <1>1, <1>24, <2>2 DEF TakeFunctors
<1>25. ASSUME NEW d \in Conns, PeerStep(d) PROVE Goal
  BY <1>1, <1>2, <1>25 DEF PeerStep, PeerSends, PeerCloses, PeerResets
<1>26. ASSUME NEW x \in Threads, NEW d \in Conns, BeginCall(x, d) PROVE Goal
  BY <1>1, <1>2, <1>26 DEF BeginCall
<1>27. ASSUME NEW l \in Loops, Poll(l) \/ StopLoop(l) \/ \E d \in Conns : SkipEvent(l, d) PROVE Goal
  BY <1>1, <1>2, <1>27 DEF Poll, StopLoop, SkipEvent, NextEvent
<1>28. CASE Start \/ DestroyServer \/ DestroyPool
  BY <1>1, <1>2, <1>28 DEF Start, DestroyServer, DestroyPool
<1>29. CASE UNCHANGED vars
  BY <1>1, <1>2, <1>29 DEF vars
<1> HIDE DEF pollerVars, owners, rounds, thread, socket, history
<1> QED
  BY <1>8, <1>9, <1>10, <1>11, <1>12, <1>13, <1>14, <1>15, <1>16, <1>17, <1>18, <1>19, <1>20,
     <1>21, <1>22, <1>23, <1>24, <1>25, <1>26, <1>27, <1>28, <1>29
     DEF Next, CallStep, BaseStep, HandleEvent, LoopStep

\* A thread takes a shared_ptr of a connection from one that there is, or makes
\* the connection.
LEMMA TakenFrom ==
    ASSUME Typed, [Next]_vars, NEW c \in Conns, c \in held' \/ \E l \in Loops : on'[l] = c
    PROVE  Referenced(c) \/ NewConnection(c)
<1> DEFINE Goal == Referenced(c) \/ NewConnection(c)
<1> BaseLoop \in Loops
  BY DEF Loops
<1> USE DEF pollerVars, owners, rounds, thread, socket, history
<1>1. CASE UNCHANGED <<held, on>>
  BY <1>1 DEF Referenced
<1>2. ASSUME NEW l \in Loops, NEW where, NEW d \in Conns \cup {NoConn}, Become(l, where, d),
             UNCHANGED held, d = NoConn \/ Referenced(d) \/ NewConnection(d)
      PROVE  Goal
  <2>1. CASE c = d
    BY <1>2, <2>1, NoConnAssumption
  <2>2. CASE \E k \in Loops : on[k] = c
    BY <2>2 DEF Referenced
  <2>3. CASE c # d /\ \A k \in Loops : on[k] # c
    BY <1>2, <2>3, BecomeAlone DEF Referenced
  <2> QED  BY <2>1, <2>2, <2>3
<1>3. ASSUME NEW l \in Loops, NEW op \in Owning, NextFunctor(l, op)
      PROVE  Target(l) \in Conns /\ Referenced(Target(l))
  <2>1. Head(running[l]) \in Queued /\ Target(l) \in Conns
    BY <1>3, TargetType, WaitingFunctors DEF NextFunctor
  <2> QED  BY <1>3, <2>1 DEF NextFunctor, Target, Referenced
<1>4. ASSUME NEW l \in Loops, NEW d \in Conns, ConnectDestroyed(l, d), UNCHANGED held, Referenced(d)
      PROVE  Goal
  BY <1>1, <1>2, <1>4 DEF ConnectDestroyed
<1>5. ASSUME NEW d \in Conns, NewConnection(d) PROVE Goal
  BY <1>2, <1>5 DEF NewConnection
<1>6. ASSUME NEW d \in Conns, DestroyConnection(d) PROVE Goal
  <2>1. UNCHANGED held /\ Referenced(d)
    BY <1>6 DEF DestroyConnection, Referenced
  <2>2. ConnectDestroyed(BaseLoop, d) \/ UNCHANGED on
    BY <1>6 DEF DestroyConnection
  <2> QED  BY <1>1, <1>4, <2>1, <2>2
<1>7. ASSUME NEW d \in Conns, DropPointer(d) PROVE Goal
  BY <1>7 DEF DropPointer, Referenced
<1>8. CASE KeepPointer
  BY <1>8 DEF KeepPointer, Referenced
<1>9. ASSUME NEW l \in Loops, NEW d \in Conns, HandleEvent(l, d) PROVE Goal
  <2>1. CASE SkipEvent(l, d)
    BY <1>1, <2>1 DEF SkipEvent
  <2>2. CASE HandleRead(l, d) \/ HandleClose(l, d)
    BY <1>2, <2>2 DEF HandleRead, HandleClose, HandleEventWithGuard
  <2> QED  BY <1>9, <2>1, <2>2 DEF HandleEvent
<1>10. ASSUME NEW l \in Loops, RunWritten(l) PROVE Goal
  BY <1>2, <1>3, <1>10 DEF RunWritten, Owning
<1>11. ASSUME NEW l \in Loops, RunDestroy(l) PROVE Goal
  BY <1>3, <1>4, <1>11 DEF RunDestroy, Owning
<1>12. ASSUME NEW l \in Loops, Return(l) PROVE Goal
  BY <1>2, <1>12 DEF Return, CallbackReturns, CloseCallback, DestroyReturns
<1>13. CASE EnableReading \/ ConnectionUp
  <2>1. on[BaseLoop] \in Conns \cup {NoConn} /\ Referenced(on[BaseLoop])
    BY DEF Typed, Referenced
  <2> QED  BY <1>2, <1>13, <2>1 DEF EnableReading, ConnectionUp
<1>14. ASSUME NEW d \in Conns, PeerStep(d) PROVE Goal
  BY <1>1, <1>14 DEF PeerStep, PeerSends, PeerCloses, PeerResets
<1>15. ASSUME NEW x \in Threads, CallStep(x) \/ \E d \in Conns : BeginCall(x, d) PROVE Goal
  BY <1>1, <1>15 DEF CallStep, Send, SetDisconnecting, QueueShutdown, BeginCall
<1>16. ASSUME NEW l \in Loops,
              Poll(l) \/ TakeFunctors(l) \/ RunSend(l) \/ RunShutdown(l) \/ StopLoop(l)
       PROVE  Goal
  BY <1>1, <1>16 DEF Poll, TakeFunctors, RunSend, RunShutdown, StopLoop
<1>17. CASE Start \/ RunRemove \/ DestroyServer \/ DestroyPool
  BY <1>1, <1>17 DEF Start, RunRemove, DestroyServer, DestroyPool
<1>18. CASE UNCHANGED vars
  BY <1>1, <1>18 DEF vars
<1> HIDE DEF pollerVars, owners, rounds, thread, socket, history
<1> QED
  BY <1>5, <1>6, <1>7, <1>8, <1>9, <1>10, <1>11, <1>12, <1>13, <1>14, <1>15, <1>16, <1>17, <1>18
     DEF Next, BaseStep, LoopStep

\* Nothing revives a connection, unless it goes astray.
LEMMA NotRevived ==
    ASSUME Typed, Typed', ThreadInv, FreshInv, OwnedInv, [Next]_vars,
           NEW c \in Conns, state[c] # "none", c \notin stray', ~Referenced(c)
    PROVE  ~Referenced(c)'
<1>1. ~NewConnection(c)
  BY DEF NewConnection, Accept
<1>2. c \notin held' /\ \A l \in Loops : on'[l] # c
  BY <1>1, TakenFrom
<1>3. c \notin connections'
  <2>1. c \notin connections
    BY DEF Referenced
  <2> QED  BY <1>1, <2>1, OwnerChanges
<1>4. index[c] = "kNew"
  <2>1. ~ToBeRemoved(c) /\ c \notin stray
    BY OwnerChanges DEF ToBeRemoved, Referenced, Owning
  <2> QED  BY <2>1 DEF OwnedInv
<1>5. ASSUME NEW f \in Queued', f.conn = c, f.op \in Owning PROVE FALSE
  <2>1. f \notin Queued
    BY <1>5 DEF Referenced
  <2>2. PICK l \in Loops : f \in Waiting(l)'
    BY <1>5, QueuedWaiting
  <2>3. f \notin Waiting(l) /\ f \in Functors
    BY <1>5, <2>1, WaitingFunctors, QueuedTyped
  <2>4. PushedBy(l, f)
    BY <2>2, <2>3, Pushed
  <2>5. ASSUME NEW x \in Threads, call[x].at # "none", c = call[x].conn PROVE FALSE
    <3>1. CanUse(x, c)
      BY <2>5 DEF ThreadInv
    <3>2. c \in held \/ (x \in Loops /\ on[x] = c)
      BY <3>1 DEF CanUse, Threads
    <3> QED  BY <3>2 DEF Referenced
  <2>6. ASSUME NEW k \in Loops, on[k] = c PROVE FALSE
    BY <2>6 DEF Referenced
  <2>7. ~(NextFunctor(BaseLoop, "remove") /\ c = Target(BaseLoop))
    <3>1. SUFFICES ASSUME NextFunctor(BaseLoop, "remove"), c = Target(BaseLoop) PROVE FALSE
      OBVIOUS
    <3>2. BaseLoop \in Loops
      BY DEF Loops
    <3>3. Head(running[BaseLoop]) \in Queued
      BY <3>1, <3>2, TargetType, WaitingFunctors DEF NextFunctor
    <3> QED  BY <3>1, <3>3 DEF NextFunctor, Target, Referenced, Owning
  <2> QED  BY <1>4, <1>5, <2>4, <2>5, <2>6, <2>7 DEF PushedBy, Referenced
<1> QED  BY <1>2, <1>3, <1>5 DEF Referenced

-----------------------------------------------------------------------------
(* Phases *)

\* The phase of one connection; no connection that was not accepted is astray.
PhaseOf(c) ==
    IF state[c] = "none" THEN "none"
    ELSE IF c \in stray THEN "astray"
    ELSE IF ~Referenced(c) THEN "destroyed"
    ELSE IF downs[c] = 0 THEN "live" ELSE "ended"

\* The phases are those.
LEMMA PhaseValue == FreshInv => phase = [c \in Conns |-> PhaseOf(c)]
<1> SUFFICES ASSUME FreshInv PROVE phase = [c \in Conns |-> PhaseOf(c)]
  OBVIOUS
<1>1. ASSUME NEW c \in Conns PROVE state[c] = "none" => c \notin stray
  BY DEF FreshInv, Fresh, Unknown
<1> QED  BY <1>1 DEF phase, PhaseOf

\* A step that leaves a connection alone leaves its phase.
LEMMA AlonePhase ==
    ASSUME Typed, Typed', NEW c \in Conns, Alone(c)
    PROVE  PhaseOf(c)' = PhaseOf(c)
<1>1. Queued \subseteq Functors /\ Queued' \subseteq Functors
  BY WaitingFunctors, QueuedTyped
<1>2. (\E f \in Queued : f.conn = c /\ f.op \in Owning) <=> \E f \in Queued' : f.conn = c /\ f.op \in Owning
  BY <1>1 DEF Alone
<1>3. Referenced(c)' <=> Referenced(c)
  BY <1>2 DEF Alone, Referenced
<1> QED  BY <1>3 DEF Alone, PhaseOf

\* All that is known of the server.
ServerInv == ThreadInv /\ FreshInv /\ PlaceInv /\ PollInv /\ EnteredInv /\ OwnedInv /\ SawInv

\* Who goes from one phase to another.
Moves(c) ==
    \/ PhaseOf(c)' = PhaseOf(c)
    \/ Serving /\ PhaseOf(c) = "none" /\ PhaseOf(c)' = "live"
    \/ PhaseOf(c) = "live" /\ PhaseOf(c)' = "ended"
    \/ /\ PhaseOf(c) \in IF Serving THEN {"ended"} ELSE {"live", "ended"}
       /\ PhaseOf(c)' = "destroyed"
    \/ PhaseOf(c) \in {"live", "ended", "destroyed"} /\ PhaseOf(c)' = "astray"

\* A connection nothing has to do with yet is accepted, by a server that lives.
LEMMA NoneMoves ==
    ASSUME Typed, Typed', ServerInv, [Next]_vars, NEW c \in Conns, state[c] = "none"
    PROVE  Moves(c)
<1>1. Unknown(c) /\ \A l \in Loops : on[l] # c
  BY DEF ServerInv, FreshInv, Fresh
<1>2. CASE Accepts(c)
  <2>1. NewConnection(c) /\ state'[c] = "kConnecting" /\ downs'[c] = 0
    BY <1>1, <1>2 DEF Accepts, Unknown
  <2>2. c \in connections' /\ UNCHANGED stray /\ server = "up"
    BY <2>1 DEF NewConnection, Accept, Dispatching, InLoop, history
  <2> QED  BY <1>1, <2>1, <2>2 DEF Moves, PhaseOf, Referenced, Serving, Unknown
<1>3. CASE state'[c] = "none"
  BY <1>3 DEF Moves, PhaseOf
<1>4. ASSUME NEW l \in Loops, NEW op, NextFunctor(l, op), Target(l) = c PROVE FALSE
  BY <1>1, <1>4, TargetType, WaitingFunctors DEF NextFunctor, Target, Unknown
<1>5. ~Enables(c) /\ ~Leaves(c)
  BY <1>1 DEF Enables, Leaves, Unknown, Loops
<1>6. ~SendsOn(c)
  BY <1>1, <1>4 DEF SendsOn, Unknown, Threads
<1>7. ASSUME NEW l \in Loops PROVE ~Ends(l, c)
  BY <1>1 DEF Ends, Unknown
<1>8. Keeps(c) \/ (\E l \in Loops : Removes(l, c)) => state'[c] = "none"
  BY DEF Keeps, Removes
<1> QED  BY <1>2, <1>3, <1>5, <1>6, <1>7, <1>8, Changes DEF ServerInv

\* A connection that was accepted goes on to its end and its destruction.
LEMMA AcceptedMoves ==
    ASSUME Typed, Typed', ServerInv, ServerInv', UNCHANGED server, [Next]_vars,
           NEW c \in Conns, state[c] # "none"
    PROVE  Moves(c)
<1>1. /\ state'[c] # "none"
      /\ \/ downs'[c] = downs[c]
         \/ downs'[c] >= 1 /\ \E l \in Loops : on'[l] = c
  BY Changes DEF ServerInv, Keeps, Accepts, Enables, SendsOn, Leaves, Ends, Removes
<1>2. stray \subseteq stray'
  BY OwnerChanges
<1>3. CASE c \in stray'
  BY <1>1, <1>2, <1>3 DEF Moves, PhaseOf
<1>4. CASE c \notin stray' /\ ~Referenced(c)
  <2>1. ~Referenced(c)'
    BY <1>4, NotRevived DEF ServerInv
  <2> QED  BY <1>1, <1>2, <1>4, <2>1 DEF Moves, PhaseOf
<1>5. CASE c \notin stray' /\ Referenced(c) /\ Referenced(c)'
  <2>1. downs[c] \in 0 .. 2 /\ downs'[c] \in 0 .. 2
    BY DEF Typed
  <2>2. PhaseOf(c) = IF downs[c] = 0 THEN "live" ELSE "ended"
    BY <1>2, <1>5 DEF PhaseOf
  <2>3. PhaseOf(c)' = IF downs'[c] = 0 THEN "live" ELSE "ended"
    BY <1>1, <1>5 DEF PhaseOf
  <2>4. downs[c] # 0 => downs'[c] # 0
    BY <1>1, <2>1
  <2> QED  BY <2>2, <2>3, <2>4 DEF Moves
<1>6. CASE c \notin stray' /\ Referenced(c) /\ ~Referenced(c)'
  <2>1. downs'[c] = downs[c]
    BY <1>1, <1>6 DEF Referenced
  <2>2. Serving => downs[c] # 0
    <3>1. SUFFICES ASSUME Serving PROVE downs[c] # 0
      OBVIOUS
    <3>2. Serving' /\ c \notin connections'
      BY <1>6, <3>1 DEF Serving, Referenced
    <3>3. downs'[c] >= 1
      BY <1>1, <3>2 DEF ServerInv, SawInv
    <3> QED  BY <2>1, <3>3
  <2>3. PhaseOf(c) = IF downs[c] = 0 THEN "live" ELSE "ended"
    BY <1>2, <1>6 DEF PhaseOf
  <2>4. PhaseOf(c)' = "destroyed"
    BY <1>1, <1>6 DEF PhaseOf
  <2> QED  BY <2>2, <2>3, <2>4 DEF Moves
<1> QED  BY <1>3, <1>4, <1>5, <1>6

-----------------------------------------------------------------------------
(* The refinement *)

\* A step of the server is a step of one connection's life, the end of
\* serving, or neither.
LEMMA LifeStep ==
    ASSUME Typed, Typed', ServerInv, ServerInv', [Next]_vars
    PROVE  [Life!Next]_(Life!vars)
<1>1. /\ phase = [c \in Conns |-> PhaseOf(c)]
      /\ phase' = [c \in Conns |-> PhaseOf(c)']
  <2>1. (FreshInv => phase = [c \in Conns |-> PhaseOf(c)])'
    BY PhaseValue, PTL
  <2> QED  BY <2>1, PhaseValue DEF ServerInv
<1>2. CASE \A c \in Conns : Alone(c)
  <2>1. phase' = phase
    BY <1>1, <1>2, AlonePhase
  <2>2. Serving' => Serving
    BY OwnerChanges
  <2>3. CASE Serving' <=> Serving
    BY <2>1, <2>3 DEF Life!vars, Serving
  <2>4. CASE Serving /\ ~Serving'
    BY <2>1, <2>4 DEF Life!Next, Life!StopServing, Serving
  <2> QED  BY <2>2, <2>3, <2>4
<1>3. ASSUME NEW d \in Conns, Concerns(d) PROVE [Life!Next]_(Life!vars)
  <2>1. UNCHANGED server /\ (server \in {"new", "up"})' = (server \in {"new", "up"})
    BY <1>3 DEF Concerns
  <2>2. phase' = [phase EXCEPT ![d] = PhaseOf(d)']
    BY <1>1, <1>3, AlonePhase DEF Concerns
  <2>3. phase[d] = PhaseOf(d)
    BY <1>1
  <2>4. Moves(d)
    BY <2>1, NoneMoves, AcceptedMoves
  <2>5. CASE PhaseOf(d)' = PhaseOf(d)
    <3>1. phase' = phase
      BY <1>1, <2>2, <2>5
    <3> QED  BY <2>1, <3>1 DEF Life!vars
  <2>6. CASE Serving /\ PhaseOf(d) = "none" /\ PhaseOf(d)' = "live"
    <3>1. Life!Accept(d)
      BY <2>1, <2>2, <2>3, <2>6 DEF Life!Accept, Life!Change, Serving
    <3> QED  BY <3>1 DEF Life!Next
  <2>7. CASE PhaseOf(d) = "live" /\ PhaseOf(d)' = "ended"
    <3>1. Life!End(d)
      BY <2>1, <2>2, <2>3, <2>7 DEF Life!End, Life!Change
    <3> QED  BY <3>1 DEF Life!Next
  <2>8. CASE /\ PhaseOf(d) \in IF Serving THEN {"ended"} ELSE {"live", "ended"}
             /\ PhaseOf(d)' = "destroyed"
    <3>1. Life!Destroy(d)
      BY <2>1, <2>2, <2>3, <2>8 DEF Life!Destroy, Life!Change, Serving
    <3> QED  BY <3>1 DEF Life!Next
  <2>9. CASE PhaseOf(d) \in {"live", "ended", "destroyed"} /\ PhaseOf(d)' = "astray"
    <3>1. Life!GoAstray(d)
      BY <2>1, <2>2, <2>3, <2>9 DEF Life!GoAstray, Life!Change
    <3> QED  BY <3>1 DEF Life!Next
  <2> QED  BY <2>4, <2>5, <2>6, <2>7, <2>8, <2>9 DEF Moves
<1>4. \/ \E d \in Conns \cup {NoConn} : Concerns(d)
      \/ \A c \in Conns : Alone(c)
  BY OneConnection DEF ServerInv, PollInv
<1>5. Concerns(NoConn) => \A c \in Conns : Alone(c)
  BY NoConnAssumption DEF Concerns
<1> QED  BY <1>2, <1>3, <1>4, <1>5

\* Each connection is accepted once, ends once and stays ended, and is
\* destroyed for good behind its end, or with the server, unless it goes astray.
THEOREM LifeImplemented == Spec => ImplementsConnectionLife
<1>1. Init => Life!Init
  BY DEF Init, Life!Init, phase
<1>2. Typed /\ Typed' /\ ServerInv /\ ServerInv' /\ [Next]_vars => [Life!Next]_(Life!vars)
  BY LifeStep
<1>3. Spec => [](Typed /\ ServerInv)
  BY TypesHold, ThreadsHold, PollHolds, OwnedHolds, SawHolds, PTL DEF ServerInv
<1> QED  BY <1>1, <1>2, <1>3, PTL DEF Spec, ImplementsConnectionLife, Life!Spec
=============================================================================
