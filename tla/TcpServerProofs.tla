--------------------------- MODULE TcpServerProofs ---------------------------
(***************************************************************************)
(* Proofs about TcpServer for any connections, loops, other threads and    *)
(* number of calls: its types, that index_ agrees with the kernel, that no *)
(* channel outlives its connection, that DOWN comes once and before a      *)
(* connection is destroyed, and that the functors of a loop's own threads  *)
(* find their connections alive.                                           *)
(***************************************************************************)
EXTENDS TcpServer, SequenceTheorems, TLAPS

USE LoopsAssumption, NoConnAssumption, MaxCallsAssumption

Functors == [op : Owning \cup Raw, conn : Conns, user : BOOLEAN]
States == {"none", "kConnecting", "kConnected", "kDisconnecting", "kDisconnected"}
LoopPcs == {"idle", "enable", "enabled", "up", "message", "written", "down", "destroy",
            "stopped"}
Calls == [at : {"none", "send", "shutdown", "queue"}, conn : Conns \cup {NoConn}]

\* TypeOK, with what it leaves open about the sets and sequences of each loop,
\* and a connection for each thread that works for one.
Typed ==
    /\ channels \subseteq Conns /\ registered \subseteq Conns /\ watched \subseteq Conns
    /\ index \in [Conns -> Indices]
    /\ server \in {"new", "up", "destroying", "gone"} /\ pool \in {{}, IoLoops}
    /\ connections \subseteq Conns /\ held \subseteq Conns /\ stray \subseteq Conns
    /\ state \in [Conns -> States]
    /\ loopOf \in [Conns -> Loops]
    /\ pc \in [Loops -> LoopPcs]
    /\ on \in [Loops -> Conns \cup {NoConn}]
    /\ call \in [Threads -> Calls]
    /\ active \in [Loops -> SUBSET Conns]
    /\ polled \in [Loops -> BOOLEAN]
    /\ running \in [Loops -> Seq(Functors)]
    /\ queue \in [Loops -> Seq(Functors)]
    /\ inbox \in [Conns -> BOOLEAN] /\ finSent \in [Conns -> BOOLEAN]
    /\ peer \in [Conns -> {"open", "fin", "reset"}]
    /\ downs \in [Conns -> 0 .. 2] /\ calls \in 0 .. MaxCalls
    /\ \A l \in Loops : on[l] = NoConn <=> pc[l] \in {"idle", "stopped"}
    /\ \A x \in Threads : call[x].at = "none" <=> call[x].conn = NoConn

Waiting(l) == ToSet(queue[l]) \cup ToSet(running[l])

\* Which connection a thread works for, and in which loops.
ThreadInv ==
    /\ \A l \in Loops : pc[l] \in {"enable", "enabled", "up"} => l = BaseLoop
    /\ \A l \in Loops : pc[l] \in {"message", "written", "down", "destroy"} => loopOf[on[l]] = l
    /\ \A x \in Threads : call[x].at # "none" => CanUse(x, call[x].conn)

\* Nothing knows a connection that was not accepted, and the base loop alone
\* one that was not enabled.
Unknown(c) ==
    /\ index[c] = "kNew" /\ downs[c] = 0
    /\ c \notin held \cup stray \cup registered
    /\ \A f \in Queued : f.conn # c
    /\ \A x \in Threads : call[x].conn # c
    /\ \A l \in Loops : c \notin active[l]

Fresh(c) ==
    /\ state[c] \in {"none", "kConnecting"} => Unknown(c)
    /\ state[c] = "none" => c \notin connections /\ \A l \in Loops : on[l] # c
    /\ state[c] = "kConnecting" =>
           /\ on[BaseLoop] = c /\ pc[BaseLoop] = "enable"
           /\ \A l \in Loops : on[l] = c => l = BaseLoop
    /\ pc[BaseLoop] = "enable" /\ on[BaseLoop] = c => state[c] = "kConnecting"

FreshInv == \A c \in Conns : Fresh(c)

\* The functors and events of a connection are in its loop, its removal in the
\* base loop.
InPlace(f, l) ==
    IF f.op = "remove" THEN l = BaseLoop /\ loopOf[f.conn] # l ELSE loopOf[f.conn] = l

PlaceInv ==
    /\ \A l \in Loops : \A f \in Waiting(l) : InPlace(f, l)
    /\ \A l \in Loops : \A c \in active[l] : loopOf[c] = l

\* What a loop dispatches is registered, and it has nothing to dispatch while
\* it runs functors.
RoundInv ==
    /\ \A l \in Loops :
           /\ polled[l] => running[l] = <<>>
           /\ ~polled[l] => active[l] = {}
           /\ active[l] \subseteq registered
           /\ pc[l] = "down" => on[l] \notin active[l]
           /\ pc[l] = "destroy" => ~polled[l]
    /\ server \in {"destroying", "gone"} => ~polled[BaseLoop] /\ running[BaseLoop] = <<>>

\* A connection that is up is in epoll and has not reported DOWN; where DOWN
\* is reported, it is not up.
StateInv ==
    /\ \A c \in Conns : state[c] = "kConnected" => index[c] = "kAdded" /\ downs[c] = 0
    /\ \A l \in Loops :
           pc[l] \in {"down", "destroy"} =>
               state[on[l]] \in {"kDisconnecting", "kDisconnected"} /\ downs[on[l]] >= 1

\* While the thread of a connection's loop is inside send() or shutdown(), the
\* connection stays in epoll.
CallInv ==
    \A l \in Loops :
        call[l].at # "none" /\ loopOf[call[l].conn] = l =>
            index[call[l].conn] = "kAdded" /\ downs[call[l].conn] = 0

PollInv == IndexMatchesKernel /\ RoundInv /\ StateInv /\ CallInv

\* The base loop's thread brings up connections that are in connections_.
EnteredInv == pc[BaseLoop] \in {"enable", "enabled", "up"} => on[BaseLoop] \in connections

\* Something will remove the channel of a connection.
ToBeRemoved(c) ==
    \/ c \in connections
    \/ \E f \in Queued : f.op = "destroy" /\ f.conn = c
    \/ \E l \in Loops : pc[l] = "destroy" /\ on[l] = c

OwnedInv == \A c \in Conns \ stray : index[c] # "kNew" => ToBeRemoved(c)

\* After the first DOWN a connection stays disconnected and out of epoll.
DownInv ==
    \A c \in Conns \ stray :
        downs[c] = 0 \/ (downs[c] = 1 /\ state[c] = "kDisconnected" /\ index[c] # "kAdded")

\* A connection is in connections_ until it has reported DOWN.
Serving == server \in {"new", "up"}

SawInv ==
    /\ \A f \in Queued : f.op = "remove" => downs[f.conn] >= 1
    /\ Serving => \A c \in Conns : state[c] # "none" /\ c \notin connections => downs[c] >= 1

\* Each functor of sequence s that uses c and does not own it, from a loop's
\* thread, is followed by the destruction of c.
Borrows(f, c) == f.op \in Raw /\ ~f.user /\ f.conn = c
IsDestroy(f, c) == f.op = "destroy" /\ f.conn = c
HasDestroy(s, c) == \E j \in DOMAIN s : IsDestroy(s[j], c)
Followed(s, c) ==
    \A i \in DOMAIN s : Borrows(s[i], c) => \E j \in DOMAIN s : j > i /\ IsDestroy(s[j], c)

\* Once an io loop's connection has left connections_, its destruction is
\* queued behind all functors of its loop that borrow it.
Behind(c) ==
    /\ Followed(queue[loopOf[c]], c)
    /\ Followed(running[loopOf[c]], c) \/ HasDestroy(queue[loopOf[c]], c)

BehindInv == Serving => \A c \in Conns \ connections : loopOf[c] # BaseLoop => Behind(c)

-----------------------------------------------------------------------------
(* What the operators on queues, channels and threads do *)

\* Appending to a sequence adds the element to its elements.
LEMMA AppendElements ==
    ASSUME NEW S, NEW s \in Seq(S), NEW e \in S
    PROVE  /\ Append(s, e) \in Seq(S)
           /\ ToSet(Append(s, e)) = ToSet(s) \cup {e}
BY AppendProperties, LenProperties DEF ToSet

\* A nonempty sequence has its head and the elements of its tail.
LEMMA TailElements ==
    ASSUME NEW S, NEW s \in Seq(S), s # <<>>
    PROVE  /\ Tail(s) \in Seq(S) /\ Head(s) \in S
           /\ ToSet(s) = ToSet(Tail(s)) \cup {Head(s)}
<1>1. /\ Tail(s) \in Seq(S) /\ Head(s) \in S /\ Len(s) \in Nat \ {0}
      /\ Len(Tail(s)) = Len(s) - 1 /\ Head(s) = s[1]
      /\ \A i \in 1 .. Len(Tail(s)) : Tail(s)[i] = s[i + 1]
  BY HeadTailProperties, LenProperties, EmptySeq
<1>2. ASSUME NEW e \in ToSet(s)
      PROVE  e = Head(s) \/ e \in ToSet(Tail(s))
  <2>1. PICK i \in 1 .. Len(s) : e = s[i]
    BY <1>2, LenProperties DEF ToSet
  <2>2. CASE i = 1
    BY <2>1, <2>2, <1>1
  <2>3. CASE i # 1
    <3>1. i - 1 \in 1 .. Len(Tail(s)) /\ e = Tail(s)[i - 1]
      BY <2>1, <2>3, <1>1
    <3> QED  BY <3>1, <1>1, LenProperties DEF ToSet
  <2> QED  BY <2>2, <2>3
<1>3. ASSUME NEW e \in ToSet(Tail(s))
      PROVE  e \in ToSet(s)
  <2>1. PICK i \in 1 .. Len(Tail(s)) : e = Tail(s)[i]
    BY <1>3, <1>1, LenProperties DEF ToSet
  <2>2. i + 1 \in 1 .. Len(s) /\ e = s[i + 1]
    BY <2>1, <1>1
  <2> QED  BY <2>2, LenProperties DEF ToSet
<1>4. Head(s) \in ToSet(s)
  <2>1. 1 \in 1 .. Len(s)
    BY <1>1
  <2> QED  BY <2>1, <1>1, LenProperties DEF ToSet
<1> QED  BY <1>1, <1>2, <1>3, <1>4

\* The empty sequence has no elements.
LEMMA NoElements == ToSet(<<>>) = {}
BY DEF ToSet

\* The queued functors are those of the loops.
LEMMA QueuedWaiting ==
    /\ Queued = UNION {Waiting(l) : l \in Loops}
    /\ Queued' = UNION {Waiting(l)' : l \in Loops}
BY DEF Queued, Waiting

\* Elements of a loop's sequences are functors, and queued.
LEMMA WaitingFunctors ==
    ASSUME Typed
    PROVE  /\ Queued \subseteq Functors
           /\ \A l \in Loops : Waiting(l) \subseteq Queued
<1>1. \A l \in Loops : queue[l] \in Seq(Functors) /\ running[l] \in Seq(Functors)
  BY DEF Typed
<1>2. \A s \in Seq(Functors) : ToSet(s) \subseteq Functors
  BY LenProperties DEF ToSet
<1>3. \A l \in Loops : Waiting(l) \subseteq Functors
  BY <1>1, <1>2 DEF Waiting
<1> QED  BY <1>3, QueuedWaiting

\* The same after the step.
LEMMA QueuedTyped ==
    ASSUME Typed'
    PROVE  Queued' \subseteq Functors
<1>1. \A l \in Loops : queue'[l] \in Seq(Functors) /\ running'[l] \in Seq(Functors)
  BY DEF Typed
<1>2. \A s \in Seq(Functors) : ToSet(s) \subseteq Functors
  BY LenProperties DEF ToSet
<1>3. \A l \in Loops : Waiting(l)' \subseteq Functors
  BY <1>1, <1>2 DEF Waiting
<1> QED  BY <1>3, QueuedWaiting

\* Push(), where no functor is run, adds one functor to one loop.
LEMMA PushEffect ==
    ASSUME Typed, NEW l \in Loops, NEW f \in Functors, Push(l, f), UNCHANGED running
    PROVE  /\ queue' \in [Loops -> Seq(Functors)]
           /\ \A k \in Loops : Waiting(k)' = IF k = l THEN Waiting(k) \cup {f} ELSE Waiting(k)
           /\ Queued' = Queued \cup {f}
<1>1. queue \in [Loops -> Seq(Functors)] /\ queue' = [queue EXCEPT ![l] = Append(queue[l], f)]
  BY DEF Typed, Push
<1>2. Append(queue[l], f) \in Seq(Functors) /\ ToSet(Append(queue[l], f)) = ToSet(queue[l]) \cup {f}
  BY <1>1, AppendElements
<1>3. queue' \in [Loops -> Seq(Functors)]
  BY <1>1, <1>2
<1>4. \A k \in Loops : Waiting(k)' = IF k = l THEN Waiting(k) \cup {f} ELSE Waiting(k)
  BY <1>1, <1>2 DEF Waiting
<1>5. Queued' = Queued \cup {f}
  BY <1>4, QueuedWaiting
<1> QED  BY <1>3, <1>4, <1>5

\* Running the next functor takes it, at most, from what waits.
LEMMA PopEffect ==
    ASSUME Typed, NEW l \in Loops, running[l] # <<>>, Pop(l), UNCHANGED queue
    PROVE  /\ running' \in [Loops -> Seq(Functors)]
           /\ Head(running[l]) \in Functors /\ Head(running[l]) \in Waiting(l)
           /\ \A k \in Loops : Waiting(k)' \subseteq Waiting(k)
           /\ Queued = Queued' \cup {Head(running[l])}
<1>1. /\ running \in [Loops -> Seq(Functors)]
      /\ running' = [running EXCEPT ![l] = Tail(running[l])]
  BY DEF Typed, Pop
<1>2. /\ Tail(running[l]) \in Seq(Functors) /\ Head(running[l]) \in Functors
      /\ ToSet(running[l]) = ToSet(Tail(running[l])) \cup {Head(running[l])}
  BY <1>1, TailElements
<1>3. running' \in [Loops -> Seq(Functors)]
  BY <1>1, <1>2
<1>4. \A k \in Loops : Waiting(k) = IF k = l THEN Waiting(k)' \cup {Head(running[l])} ELSE Waiting(k)'
  BY <1>1, <1>2 DEF Waiting
<1>5. Queued = Queued' \cup {Head(running[l])}
  BY <1>4, QueuedWaiting
<1> QED  BY <1>2, <1>3, <1>4, <1>5

\* The same when the functor pushes another.
LEMMA PopPushEffect ==
    ASSUME Typed, NEW l \in Loops, running[l] # <<>>, Pop(l),
           NEW k \in Loops, NEW f \in Functors, Push(k, f)
    PROVE  /\ running' \in [Loops -> Seq(Functors)] /\ queue' \in [Loops -> Seq(Functors)]
           /\ Head(running[l]) \in Functors /\ Head(running[l]) \in Waiting(l)
           /\ \A m \in Loops : Waiting(m)' \subseteq IF m = k THEN Waiting(m) \cup {f} ELSE Waiting(m)
           /\ Queued \cup {f} = Queued' \cup {Head(running[l])}
           /\ f \in Queued'
<1>1. /\ running \in [Loops -> Seq(Functors)]
      /\ running' = [running EXCEPT ![l] = Tail(running[l])]
      /\ queue \in [Loops -> Seq(Functors)]
      /\ queue' = [queue EXCEPT ![k] = Append(queue[k], f)]
  BY DEF Typed, Pop, Push
<1>2. /\ Tail(running[l]) \in Seq(Functors) /\ Head(running[l]) \in Functors
      /\ ToSet(running[l]) = ToSet(Tail(running[l])) \cup {Head(running[l])}
  BY <1>1, TailElements
<1>3. Append(queue[k], f) \in Seq(Functors) /\ ToSet(Append(queue[k], f)) = ToSet(queue[k]) \cup {f}
  BY <1>1, AppendElements
<1>4. running' \in [Loops -> Seq(Functors)] /\ queue' \in [Loops -> Seq(Functors)]
  BY <1>1, <1>2, <1>3
<1>5. /\ \A m \in Loops : ToSet(running[m]) =
             IF m = l THEN ToSet(running'[m]) \cup {Head(running[l])} ELSE ToSet(running'[m])
      /\ \A m \in Loops : ToSet(queue'[m]) =
             IF m = k THEN ToSet(queue[m]) \cup {f} ELSE ToSet(queue[m])
  BY <1>1, <1>2, <1>3
<1>6. \A m \in Loops : /\ Waiting(m) = ToSet(queue[m]) \cup ToSet(running[m])
                       /\ Waiting(m)' = ToSet(queue'[m]) \cup ToSet(running'[m])
  BY DEF Waiting
<1>7. \A m \in Loops :
          /\ Waiting(m)' \subseteq IF m = k THEN Waiting(m) \cup {f} ELSE Waiting(m)
          /\ Waiting(m) \subseteq IF m = l THEN Waiting(m)' \cup {Head(running[l])} ELSE Waiting(m)'
  BY <1>5, <1>6
<1>8. f \in Waiting(k)' /\ Head(running[l]) \in Waiting(l)
  BY <1>5, <1>6
<1>9. Queued \cup {f} = Queued' \cup {Head(running[l])} /\ f \in Queued'
  BY <1>7, <1>8, QueuedWaiting
<1> QED  BY <1>2, <1>4, <1>7, <1>8, <1>9

\* Taking the functors moves them within the loop; with none left of the last
\* batch, none is lost.
LEMMA TakeEffect ==
    ASSUME Typed, NEW l \in Loops, TakeFunctors(l)
    PROVE  /\ running' \in [Loops -> Seq(Functors)] /\ queue' \in [Loops -> Seq(Functors)]
           /\ \A k \in Loops : Waiting(k)' \subseteq Waiting(k)
           /\ Queued' \subseteq Queued
           /\ running[l] = <<>> => Queued' = Queued
<1>1. /\ running \in [Loops -> Seq(Functors)] /\ queue \in [Loops -> Seq(Functors)]
      /\ running' = [running EXCEPT ![l] = queue[l]] /\ queue' = [queue EXCEPT ![l] = <<>>]
  BY DEF Typed, TakeFunctors
<1>2. <<>> \in Seq(Functors)
  BY EmptySeq
<1>3. running' \in [Loops -> Seq(Functors)] /\ queue' \in [Loops -> Seq(Functors)]
  BY <1>1, <1>2
<1>4. /\ \A k \in Loops : Waiting(k)' \subseteq Waiting(k)
      /\ running[l] = <<>> => \A k \in Loops : Waiting(k)' = Waiting(k)
  BY <1>1, NoElements DEF Waiting
<1>5. Queued' \subseteq Queued /\ (running[l] = <<>> => Queued' = Queued)
  BY <1>4, QueuedWaiting
<1> QED  BY <1>3, <1>4, <1>5

\* Enabling a channel watches it whatever index_ was.
LEMMA EnableEffect ==
    ASSUME Typed, NEW c \in Conns, EnableChannel(c)
    PROVE  /\ index' = [index EXCEPT ![c] = "kAdded"]
           /\ channels' \subseteq Conns /\ registered' \subseteq Conns /\ watched' \subseteq Conns
           /\ IndexMatchesKernel => IndexMatchesKernel' /\ registered' = registered \cup {c}
<1>1. /\ index \in [Conns -> Indices]
      /\ channels \subseteq Conns /\ registered \subseteq Conns /\ watched \subseteq Conns
  BY DEF Typed
<1>2. /\ index' = [index EXCEPT ![c] = "kAdded"]
      /\ registered' = registered \cup {c} /\ watched' = watched \cup {c}
      /\ channels' = IF index[c] = "kNew" THEN channels \cup {c} ELSE channels
  BY <1>1 DEF EnableChannel, UpdateChannel, EpollCtl, Put, Indices
<1>3. ASSUME IndexMatchesKernel
      PROVE  IndexMatchesKernel' /\ registered' = registered \cup {c}
  <2>1. registered' = {d \in Conns : index'[d] = "kAdded"}
    BY <1>1, <1>2, <1>3 DEF IndexMatchesKernel
  <2>2. channels' = {d \in Conns : index'[d] # "kNew"}
    BY <1>1, <1>2, <1>3 DEF IndexMatchesKernel
  <2> QED  BY <1>2, <1>3, <2>1, <2>2 DEF IndexMatchesKernel
<1> QED  BY <1>1, <1>2, <1>3

\* Disabling a watched channel takes it out of epoll.
LEMMA DisableEffect ==
    ASSUME Typed, NEW c \in Conns, DisableAll(c)
    PROVE  /\ index' \in [Conns -> Indices]
           /\ channels' \subseteq Conns /\ registered' \subseteq Conns /\ watched' \subseteq Conns
           /\ index[c] = "kAdded" =>
                  /\ index' = [index EXCEPT ![c] = "kDelete"]
                  /\ IndexMatchesKernel => IndexMatchesKernel' /\ registered' = registered \ {c}
<1>1. /\ index \in [Conns -> Indices]
      /\ channels \subseteq Conns /\ registered \subseteq Conns /\ watched \subseteq Conns
  BY DEF Typed
<1>2. /\ index' \in [Conns -> Indices]
      /\ channels' \subseteq Conns /\ registered' \subseteq Conns /\ watched' \subseteq Conns
  BY <1>1 DEF DisableAll, UpdateChannel, EpollCtl, Put, Indices
<1>3. ASSUME index[c] = "kAdded"
      PROVE  /\ index' = [index EXCEPT ![c] = "kDelete"]
             /\ registered' = registered \ {c} /\ watched' = watched \ {c} /\ channels' = channels
  BY <1>1, <1>3 DEF DisableAll, UpdateChannel, EpollCtl, Put, Indices
<1>4. ASSUME index[c] = "kAdded", IndexMatchesKernel
      PROVE  IndexMatchesKernel' /\ registered' = registered \ {c}
  <2>1. registered' = {d \in Conns : index'[d] = "kAdded"}
    BY <1>1, <1>3, <1>4 DEF IndexMatchesKernel
  <2>2. channels' = {d \in Conns : index'[d] # "kNew"}
    BY <1>1, <1>3, <1>4 DEF IndexMatchesKernel
  <2> QED  BY <1>3, <1>4, <2>1, <2>2 DEF IndexMatchesKernel
<1> QED  BY <1>2, <1>3, <1>4

\* Removing a channel takes it out of epoll and m_channels.
LEMMA RemoveEffect ==
    ASSUME Typed, NEW c \in Conns, RemoveChannel(c)
    PROVE  /\ index' = [index EXCEPT ![c] = "kNew"]
           /\ channels' \subseteq Conns /\ registered' \subseteq Conns /\ watched' \subseteq Conns
           /\ IndexMatchesKernel => IndexMatchesKernel' /\ registered' = registered \ {c}
BY DEF Typed, RemoveChannel, EpollCtl, Put, IndexMatchesKernel, Indices

\* They leave the other channels alone.
LEMMA OtherChannels ==
    ASSUME Typed, NEW c \in Conns, EnableChannel(c) \/ DisableAll(c) \/ RemoveChannel(c),
           NEW d \in Conns, d # c
    PROVE  index'[d] = index[d] /\ (d \in registered' <=> d \in registered)
<1>1. index \in [Conns -> Indices] /\ registered \subseteq Conns
  BY DEF Typed
<1>2. CASE EnableChannel(c)
  BY <1>1, <1>2 DEF EnableChannel, UpdateChannel, EpollCtl, Put
<1>3. CASE DisableAll(c)
  BY <1>1, <1>3 DEF DisableAll, UpdateChannel, EpollCtl, Put
<1>4. CASE RemoveChannel(c)
  BY <1>1, <1>4 DEF RemoveChannel, EpollCtl, Put
<1> QED  BY <1>2, <1>3, <1>4

\* One more DOWN callback counts up to two.
LEMMA CountDownEffect ==
    ASSUME downs \in [Conns -> 0 .. 2], NEW c \in Conns, CountDown(c)
    PROVE  /\ downs' \in [Conns -> 0 .. 2]
           /\ downs' = [downs EXCEPT ![c] = downs'[c]] /\ downs'[c] >= 1
           /\ downs[c] = 0 => downs'[c] = 1
BY DEF CountDown

\* sendInLoop() may queue a written functor and enable the channel; nothing if
\* the connection is disconnected.
LEMMA SendEffect ==
    ASSUME NEW l \in Loops, NEW c \in Conns, SendInLoop(l, c)
    PROVE  /\ UNCHANGED pollerVars \/ (state[c] # "kDisconnected" /\ EnableChannel(c))
           /\ \/ UNCHANGED queue
              \/ state[c] # "kDisconnected" /\ Push(l, Functor("written", c, l))
BY DEF SendInLoop

\* What a thread pushes is a functor.
LEMMA FunctorType ==
    ASSUME NEW op \in Owning \cup Raw, NEW c \in Conns, NEW x
    PROVE  /\ Functor(op, c, x) \in Functors
           /\ Functor(op, c, x).op = op /\ Functor(op, c, x).conn = c
           /\ Functor(op, c, x).user = (x \in Users)
BY DEF Functor, Functors

\* A step of send() or shutdown() goes on with the connection or ends the call.
LEMMA CallStepEffect ==
    ASSUME Typed, NEW x \in Threads, CallStep(x)
    PROVE  /\ call[x].at # "none" /\ call[x].conn \in Conns
           /\ \A y \in Threads \ {x} : call'[y] = call[y]
           /\ \/ call'[x].at = "none" /\ call'[x].conn = NoConn
              \/ call'[x].at # "none" /\ call'[x].conn = call[x].conn
<1>1. /\ call \in [Threads -> Calls]
      /\ \A y \in Threads : call[y].at = "none" <=> call[y].conn = NoConn
  BY DEF Typed
<1>2. CASE Send(x) \/ QueueShutdown(x)
  BY <1>1, <1>2 DEF Send, QueueShutdown, CallEnds, Calls
<1>3. CASE SetDisconnecting(x)
  BY <1>1, <1>3 DEF SetDisconnecting, Calls
<1> QED  BY <1>2, <1>3 DEF CallStep

-----------------------------------------------------------------------------
(* Types *)

\* The connection of the next functor of a loop.
LEMMA TargetType ==
    ASSUME Typed, NEW l \in Loops, running[l] # <<>>
    PROVE  Target(l) \in Conns /\ Head(running[l]) \in Functors /\ Head(running[l]) \in Waiting(l)
<1>1. running[l] \in Seq(Functors)
  BY DEF Typed
<1>2. Head(running[l]) \in Functors /\ Head(running[l]) \in ToSet(running[l])
  BY <1>1, TailElements
<1> QED  BY <1>2 DEF Target, Functors, Waiting

\* What is left of a batch of functors is a sequence of functors.
LEMMA TailTyped ==
    ASSUME Typed, NEW l \in Loops, running[l] # <<>>, Pop(l)
    PROVE  running' \in [Loops -> Seq(Functors)]
<1>1. running \in [Loops -> Seq(Functors)] /\ running' = [running EXCEPT ![l] = Tail(running[l])]
  BY DEF Typed, Pop
<1>2. Tail(running[l]) \in Seq(Functors)
  BY <1>1, TailElements
<1> QED  BY <1>1, <1>2

\* sendInLoop() keeps the types of what it changes.
LEMMA SendTyped ==
    ASSUME Typed, NEW l \in Loops, NEW c \in Conns, SendInLoop(l, c)
    PROVE  /\ queue' \in [Loops -> Seq(Functors)] /\ index' \in [Conns -> Indices]
           /\ channels' \subseteq Conns /\ registered' \subseteq Conns /\ watched' \subseteq Conns
<1>1. /\ index' \in [Conns -> Indices]
      /\ channels' \subseteq Conns /\ registered' \subseteq Conns /\ watched' \subseteq Conns
  <2>1. CASE UNCHANGED pollerVars
    BY <2>1 DEF Typed, pollerVars
  <2>2. CASE EnableChannel(c)
    <3>1. /\ index' = [index EXCEPT ![c] = "kAdded"]
          /\ channels' \subseteq Conns /\ registered' \subseteq Conns /\ watched' \subseteq Conns
      BY <2>2, EnableEffect
    <3> QED  BY <3>1 DEF Typed, Indices
  <2> QED  BY <2>1, <2>2, SendEffect
<1>2. CASE UNCHANGED queue
  BY <1>1, <1>2 DEF Typed
<1>3. CASE Push(l, Functor("written", c, l))
  <2>1. queue \in [Loops -> Seq(Functors)] /\ Functor("written", c, l) \in Functors
    BY FunctorType DEF Typed, Owning
  <2>2. Append(queue[l], Functor("written", c, l)) \in Seq(Functors)
    BY <2>1, AppendElements
  <2> QED  BY <1>1, <1>3, <2>1, <2>2 DEF Push
<1> QED  BY <1>2, <1>3, SendEffect

\* So does connectDestroyed(), by a thread that works for no connection.
LEMMA DestroyedTyped ==
    ASSUME Typed, NEW l \in Loops, NEW c \in Conns, ConnectDestroyed(l, c)
    PROVE  /\ state' \in [Conns -> States] /\ index' \in [Conns -> Indices]
           /\ channels' \subseteq Conns /\ registered' \subseteq Conns /\ watched' \subseteq Conns
           /\ downs' \in [Conns -> 0 .. 2] /\ pc' \in [Loops -> LoopPcs]
           /\ on' \in [Loops -> Conns \cup {NoConn}]
           /\ \A k \in Loops : on'[k] = NoConn <=> pc'[k] \in {"idle", "stopped"}
<1>1. CASE state[c] = "kConnected"
  <2>1. /\ index' \in [Conns -> Indices]
        /\ channels' \subseteq Conns /\ registered' \subseteq Conns /\ watched' \subseteq Conns
    BY <1>1, DisableEffect DEF ConnectDestroyed
  <2>2. state' \in [Conns -> States]
    BY <1>1 DEF ConnectDestroyed, Typed, States
  <2>3. downs' \in [Conns -> 0 .. 2]
    <3>1. downs \in [Conns -> 0 .. 2] /\ CountDown(c)
      BY <1>1 DEF ConnectDestroyed, Typed
    <3> QED  BY <3>1, CountDownEffect
  <2>4. /\ pc' \in [Loops -> LoopPcs] /\ on' \in [Loops -> Conns \cup {NoConn}]
        /\ \A k \in Loops : on'[k] = NoConn <=> pc'[k] \in {"idle", "stopped"}
    <3>1. /\ pc \in [Loops -> LoopPcs] /\ on \in [Loops -> Conns \cup {NoConn}]
          /\ \A k \in Loops : on[k] = NoConn <=> pc[k] \in {"idle", "stopped"}
          /\ Become(l, "destroy", c)
      BY <1>1 DEF ConnectDestroyed, Typed
    <3> QED  BY <3>1 DEF Become, LoopPcs
  <2> QED  BY <2>1, <2>2, <2>3, <2>4
<1>2. CASE state[c] # "kConnected"
  <2>1. /\ index' \in [Conns -> Indices]
        /\ channels' \subseteq Conns /\ registered' \subseteq Conns /\ watched' \subseteq Conns
    BY <1>2, RemoveEffect DEF ConnectDestroyed, Typed, Indices
  <2> QED  BY <1>2, <2>1 DEF ConnectDestroyed, Typed
<1> QED  BY <1>1, <1>2

\* Each step of the server keeps the types, and each thread that works for a
\* connection has one.
LEMMA TypedStep == ASSUME Typed, [Next]_vars PROVE Typed'
<1> USE DEF vars, pollerVars, owners, rounds, thread, socket, history
<1>1. CASE UNCHANGED vars
  BY <1>1 DEF Typed
<1>2. ASSUME NEW c \in Conns, PeerStep(c) PROVE Typed'
  <2>1. CASE PeerSends(c)
    BY <2>1 DEF Typed, PeerSends
  <2>2. CASE PeerCloses(c)
    BY <2>2 DEF Typed, PeerCloses
  <2>3. CASE PeerResets(c)
    BY <2>3 DEF Typed, PeerResets
  <2> QED  BY <1>2, <2>1, <2>2, <2>3 DEF PeerStep
<1>3. ASSUME NEW c \in Conns, NewConnection(c) PROVE Typed'
  BY <1>3 DEF Typed, NewConnection, Accept, Dispatching, InLoop, Construct, GetNextLoop, Become,
              Loops, States, LoopPcs
<1>4. ASSUME NEW c \in Conns, DropPointer(c) PROVE Typed'
  BY <1>4 DEF Typed, DropPointer
<1>5. ASSUME NEW c \in Conns, DestroyConnection(c) PROVE Typed'
  <2>1. CASE loopOf[c] = BaseLoop
    <3>1. ConnectDestroyed(BaseLoop, c) /\ UNCHANGED queue
      BY <1>5, <2>1 DEF DestroyConnection
    <3> QED  BY <1>5, <3>1, DestroyedTyped, BaseLoop \in Loops DEF Typed, DestroyConnection, Loops
  <2>2. CASE loopOf[c] # BaseLoop
    <3>1. /\ Push(loopOf[c], Functor("destroy", c, BaseLoop)) /\ UNCHANGED running
          /\ loopOf[c] \in Loops
      BY <1>5, <2>2 DEF DestroyConnection, Typed
    <3>2. queue' \in [Loops -> Seq(Functors)]
      BY <3>1, PushEffect, FunctorType DEF Owning
    <3> QED  BY <1>5, <2>2, <3>2 DEF Typed, DestroyConnection
  <2> QED  BY <2>1, <2>2
<1>6. ASSUME NEW x \in Threads, Send(x) PROVE Typed'
  <2> DEFINE c == call[x].conn
  <2>1. c \in Conns /\ loopOf[c] \in Loops
    BY <1>6 DEF Typed, Send, Calls
  <2>2. /\ queue' \in [Loops -> Seq(Functors)] /\ index' \in [Conns -> Indices]
        /\ channels' \subseteq Conns /\ registered' \subseteq Conns /\ watched' \subseteq Conns
    <3>1. CASE x = loopOf[c]
      BY <1>6, <2>1, <3>1, SendTyped DEF Send
    <3>2. CASE x # loopOf[c]
      <4>1. Push(loopOf[c], Functor("send", c, x)) /\ UNCHANGED <<pollerVars, running>>
        BY <1>6, <3>2 DEF Send
      <4>2. queue' \in [Loops -> Seq(Functors)]
        BY <4>1, <2>1, PushEffect, FunctorType DEF Raw
      <4> QED  BY <4>1, <4>2 DEF Typed
    <3> QED  BY <3>1, <3>2
  <2>3. call' \in [Threads -> Calls] /\ \A y \in Threads : call'[y].at = "none" <=> call'[y].conn = NoConn
    BY <1>6 DEF Typed, Send, CallEnds, Calls
  <2> QED  BY <1>6, <2>2, <2>3 DEF Typed, Send
<1>7. ASSUME NEW x \in Threads, SetDisconnecting(x) PROVE Typed'
  <2> DEFINE c == call[x].conn
  <2>1. c \in Conns
    BY <1>7 DEF Typed, SetDisconnecting, Calls
  <2>2. state' \in [Conns -> States] /\ stray' \subseteq Conns
    BY <1>7, <2>1 DEF Typed, SetDisconnecting, States
  <2>3. call' \in [Threads -> Calls] /\ \A y \in Threads : call'[y].at = "none" <=> call'[y].conn = NoConn
    <3>1. /\ call \in [Threads -> Calls] /\ call' = [call EXCEPT ![x].at = "queue"]
          /\ \A y \in Threads : call[y].at = "none" <=> call[y].conn = NoConn
          /\ call[x].at # "none"
      BY <1>7 DEF Typed, SetDisconnecting
    <3>2. [call[x] EXCEPT !.at = "queue"] = [at |-> "queue", conn |-> c]
      BY <3>1 DEF Calls
    <3>3. \A y \in Threads : call'[y] = IF y = x THEN [at |-> "queue", conn |-> c] ELSE call[y]
      BY <3>1, <3>2
    <3> QED  BY <2>1, <3>1, <3>2, <3>3 DEF Calls
  <2> QED  BY <1>7, <2>2, <2>3 DEF Typed, SetDisconnecting
<1>8. ASSUME NEW x \in Threads, QueueShutdown(x) PROVE Typed'
  <2> DEFINE c == call[x].conn
  <2>1. c \in Conns /\ loopOf[c] \in Loops
    BY <1>8 DEF Typed, QueueShutdown, Calls
  <2>2. queue' \in [Loops -> Seq(Functors)]
    BY <1>8, <2>1, PushEffect, FunctorType DEF QueueShutdown, Raw
  <2>3. call' \in [Threads -> Calls] /\ \A y \in Threads : call'[y].at = "none" <=> call'[y].conn = NoConn
    BY <1>8 DEF Typed, QueueShutdown, CallEnds, Calls
  <2> QED  BY <1>8, <2>2, <2>3 DEF Typed, QueueShutdown
<1>9. ASSUME NEW x \in Threads, NEW c \in Conns, BeginCall(x, c) PROVE Typed'
  BY <1>9 DEF Typed, BeginCall, Calls
<1>10. ASSUME NEW l \in Loops, Poll(l) PROVE Typed'
  BY <1>10 DEF Typed, Poll, Ready
<1>11. ASSUME NEW l \in Loops, TakeFunctors(l) PROVE Typed'
  BY <1>11, TakeEffect DEF Typed, TakeFunctors
<1>12. ASSUME NEW l \in Loops, NEW c \in Conns, SkipEvent(l, c) PROVE Typed'
  BY <1>12 DEF Typed, SkipEvent, NextEvent
<1>13. ASSUME NEW l \in Loops, NEW c \in Conns, HandleRead(l, c) PROVE Typed'
  BY <1>13 DEF Typed, HandleRead, HandleEventWithGuard, NextEvent, Become, LoopPcs
<1>14. ASSUME NEW l \in Loops, NEW c \in Conns, HandleClose(l, c) PROVE Typed'
  BY <1>14, DisableEffect
     DEF Typed, HandleClose, HandleEventWithGuard, NextEvent, Become, CountDown, LoopPcs, States
<1>15. ASSUME NEW l \in Loops, RunSend(l) PROVE Typed'
  <2>1. Target(l) \in Conns /\ running[l] # <<>> /\ Pop(l) /\ SendInLoop(l, Target(l))
    BY <1>15, TargetType DEF RunSend, NextFunctor
  <2>2. /\ queue' \in [Loops -> Seq(Functors)] /\ index' \in [Conns -> Indices]
        /\ channels' \subseteq Conns /\ registered' \subseteq Conns /\ watched' \subseteq Conns
    BY <2>1, SendTyped
  <2>3. running' \in [Loops -> Seq(Functors)]
    BY <2>1, TailTyped
  <2> QED  BY <1>15, <2>1, <2>2, <2>3 DEF Typed, RunSend, Pop
<1>16. ASSUME NEW l \in Loops, RunShutdown(l) PROVE Typed'
  <2>1. running[l] # <<>> /\ Pop(l)
    BY <1>16 DEF RunShutdown, NextFunctor
  <2>2. running' \in [Loops -> Seq(Functors)]
    BY <2>1, TailTyped
  <2> QED  BY <1>16, <2>1, <2>2 DEF Typed, RunShutdown, ShutdownWrite, Pop
<1>17. ASSUME NEW l \in Loops, RunWritten(l) PROVE Typed'
  <2>1. Target(l) \in Conns /\ running[l] # <<>> /\ Pop(l)
    BY <1>17, TargetType DEF RunWritten, NextFunctor
  <2>2. running' \in [Loops -> Seq(Functors)]
    BY <2>1, TailTyped
  <2> QED  BY <1>17, <2>1, <2>2 DEF Typed, RunWritten, Become, Pop, LoopPcs
<1>18. ASSUME NEW l \in Loops, RunDestroy(l) PROVE Typed'
  <2>1. Target(l) \in Conns /\ running[l] # <<>> /\ Pop(l) /\ ConnectDestroyed(l, Target(l))
    BY <1>18, TargetType DEF RunDestroy, NextFunctor
  <2>2. running' \in [Loops -> Seq(Functors)]
    BY <2>1, TailTyped
  <2>3. on[l] = NoConn
    BY <1>18 DEF Typed, RunDestroy, NextFunctor, InLoop
  <2> QED  BY <1>18, <2>1, <2>2, <2>3, DestroyedTyped DEF Typed, RunDestroy, Pop
<1>19. ASSUME NEW l \in Loops, CallbackReturns(l) PROVE Typed'
  BY <1>19 DEF Typed, CallbackReturns, Become, LoopPcs
<1>20. ASSUME NEW l \in Loops, CloseCallback(l) PROVE Typed'
  <2>1. on[l] \in Conns
    BY <1>20 DEF Typed, CloseCallback
  <2>2. CASE l = BaseLoop
    <3>1. RemoveChannel(on[l]) /\ UNCHANGED queue
      BY <1>20, <2>2 DEF CloseCallback
    <3>2. /\ index' \in [Conns -> Indices]
          /\ channels' \subseteq Conns /\ registered' \subseteq Conns /\ watched' \subseteq Conns
      BY <3>1, <2>1, RemoveEffect DEF Typed, Indices
    <3> QED  BY <1>20, <2>2, <3>1, <3>2 DEF Typed, CloseCallback, Become, LoopPcs
  <2>3. CASE l # BaseLoop
    <3>1. /\ Push(BaseLoop, Functor("remove", on[l], l)) /\ BaseLoop \in Loops
          /\ UNCHANGED <<pollerVars, connections, running>>
      BY <1>20, <2>3 DEF CloseCallback, Loops
    <3>2. queue' \in [Loops -> Seq(Functors)]
      BY <3>1, <2>1, PushEffect, FunctorType DEF Owning
    <3> QED  BY <1>20, <3>1, <3>2 DEF Typed, CloseCallback, Become, LoopPcs
  <2> QED  BY <2>2, <2>3
<1>21. ASSUME NEW l \in Loops, DestroyReturns(l) PROVE Typed'
  <2>1. on[l] \in Conns
    BY <1>21 DEF Typed, DestroyReturns
  <2>2. /\ index' \in [Conns -> Indices]
        /\ channels' \subseteq Conns /\ registered' \subseteq Conns /\ watched' \subseteq Conns
    <3>1. RemoveChannel(on[l])
      BY <1>21 DEF DestroyReturns
    <3>2. /\ index' = [index EXCEPT ![on[l]] = "kNew"]
          /\ channels' \subseteq Conns /\ registered' \subseteq Conns /\ watched' \subseteq Conns
      BY <2>1, <3>1, RemoveEffect
    <3> QED  BY <2>1, <3>2 DEF Typed, Indices
  <2> QED  BY <1>21, <2>2 DEF Typed, DestroyReturns, Become, LoopPcs
<1>22. ASSUME NEW l \in Loops, StopLoop(l) PROVE Typed'
  BY <1>22 DEF Typed, StopLoop, AboutToPoll, InLoop, LoopPcs
<1>23. CASE Start \/ DestroyServer \/ DestroyPool
  BY <1>23 DEF Typed, Start, DestroyServer, DestroyPool
<1>24. CASE EnableReading
  <2>1. BaseLoop \in Loops /\ on[BaseLoop] \in Conns
    BY <1>24 DEF Typed, EnableReading, Loops
  <2>2. /\ index' \in [Conns -> Indices]
        /\ channels' \subseteq Conns /\ registered' \subseteq Conns /\ watched' \subseteq Conns
    <3>1. EnableChannel(on[BaseLoop])
      BY <1>24 DEF EnableReading
    <3>2. /\ index' = [index EXCEPT ![on[BaseLoop]] = "kAdded"]
          /\ channels' \subseteq Conns /\ registered' \subseteq Conns /\ watched' \subseteq Conns
      BY <2>1, <3>1, EnableEffect
    <3> QED  BY <2>1, <3>2 DEF Typed, Indices
  <2> QED  BY <1>24, <2>1, <2>2 DEF Typed, EnableReading, Become, LoopPcs, States
<1>25. CASE ConnectionUp
  BY <1>25 DEF Typed, ConnectionUp, Become, LoopPcs, Loops
<1>26. CASE RunRemove
  <2>1. /\ Target(BaseLoop) \in Conns /\ running[BaseLoop] # <<>> /\ Pop(BaseLoop)
        /\ BaseLoop \in Loops /\ loopOf[Target(BaseLoop)] \in Loops
        /\ Push(loopOf[Target(BaseLoop)], Functor("destroy", Target(BaseLoop), BaseLoop))
    BY <1>26, TargetType DEF RunRemove, NextFunctor, Loops, Typed
  <2>2. queue' \in [Loops -> Seq(Functors)] /\ running' \in [Loops -> Seq(Functors)]
    BY <2>1, PopPushEffect, FunctorType DEF Owning
  <2> QED  BY <1>26, <2>1, <2>2 DEF Typed, RunRemove, Pop
<1>27. CASE KeepPointer
  BY <1>27 DEF Typed, KeepPointer, Loops
<1> QED
  BY <1>1, <1>2, <1>3, <1>4, <1>5, <1>6, <1>7, <1>8, <1>9, <1>10, <1>11, <1>12, <1>13, <1>14,
     <1>15, <1>16, <1>17, <1>18, <1>19, <1>20, <1>21, <1>22, <1>23, <1>24, <1>25, <1>26, <1>27
     DEF Next, PeerStep, CallStep, BaseStep, HandleEvent, Return, LoopStep

\* The types, at every moment of every behaviour.
THEOREM TypesHold == Spec => []Typed
<1>1. Init => Typed
  <2>1. ASSUME Init PROVE running \in [Loops -> Seq(Functors)] /\ queue \in [Loops -> Seq(Functors)]
    <3>1. <<>> \in Seq(Functors)
      BY EmptySeq
    <3> QED  BY <2>1, <3>1 DEF Init
  <2>2. BaseLoop \in Loops
    BY DEF Loops
  <2> QED  BY <2>1, <2>2 DEF Init, PollerInit, Typed, Indices, States, LoopPcs, Calls
<1> QED  BY <1>1, TypedStep, PTL DEF Spec

-----------------------------------------------------------------------------
(* Threads, places and connections nothing knows yet *)

\* Who may queue functor f in loop l.
PushedBy(l, f) ==
    \/ \E x \in Threads :
           /\ call[x].at # "none" /\ f.conn = call[x].conn /\ f.user = (x \in Users)
           /\ f.op \in {"send", "shutdown", "written"} /\ l = loopOf[f.conn]
    \/ /\ NextFunctor(l, "send") /\ f.conn = Target(l) /\ f.op = "written"
       /\ index[f.conn] = "kNew" => f.conn \in stray'
    \/ /\ l = BaseLoop /\ f.op = "remove"
       /\ \E k \in Loops \ {BaseLoop} : pc[k] = "down" /\ f.conn = on[k]
    \/ /\ l = loopOf[f.conn] /\ f.op = "destroy"
       /\ \/ NextFunctor(BaseLoop, "remove") /\ f.conn = Target(BaseLoop)
          \/ pc[BaseLoop] = "idle" /\ server = "destroying" /\ f.conn \in connections

\* What a step may do to the functors of a loop.
QueueKept(l) ==
    \/ queue'[l] = queue[l]
    \/ \E f \in Functors : queue'[l] = Append(queue[l], f) /\ PushedBy(l, f)
RunningKept(l) ==
    \/ running'[l] = running[l]
    \/ running[l] # <<>> /\ running'[l] = Tail(running[l])

\* Functors are taken all at once, run one by one, and pushed by these.
LEMMA QueueChanges ==
    ASSUME Typed, [Next]_vars, NEW l \in Loops
    PROVE  \/ TakeFunctors(l) /\ running'[l] = queue[l] /\ queue'[l] = <<>>
           \/ QueueKept(l) /\ RunningKept(l)
<1> DEFINE Goal == \/ TakeFunctors(l) /\ running'[l] = queue[l] /\ queue'[l] = <<>>
                   \/ QueueKept(l) /\ RunningKept(l)
<1> BaseLoop \in Loops
  BY DEF Loops
<1> USE DEF pollerVars, owners, rounds, thread, socket, history
<1>1. CASE UNCHANGED <<queue, running>>
  BY <1>1 DEF QueueKept, RunningKept
<1>2. ASSUME NEW k \in Loops, NEW f \in Functors, Push(k, f), PushedBy(k, f)
      PROVE  QueueKept(l)
  BY <1>2 DEF Push, QueueKept, Typed
<1>3. ASSUME NEW k \in Loops, NEW op, NextFunctor(k, op), Pop(k)
      PROVE  RunningKept(l)
  BY <1>3 DEF Pop, NextFunctor, RunningKept, Typed
<1>4. ASSUME NEW c \in Conns, DestroyConnection(c), loopOf[c] # BaseLoop PROVE Goal
  <2>1. /\ Push(loopOf[c], Functor("destroy", c, BaseLoop)) /\ UNCHANGED running
        /\ loopOf[c] \in Loops /\ Functor("destroy", c, BaseLoop) \in Functors
    BY <1>4, FunctorType DEF DestroyConnection, Typed, Owning
  <2>2. PushedBy(loopOf[c], Functor("destroy", c, BaseLoop))
    BY <1>4, FunctorType DEF Owning, DestroyConnection, PushedBy
  <2> QED  BY <1>2, <2>1, <2>2 DEF RunningKept
<1>5. ASSUME NEW x \in Threads, Send(x) PROVE Goal
  <2> DEFINE c == call[x].conn
  <2>1. c \in Conns /\ loopOf[c] \in Loops /\ call[x].at # "none" /\ UNCHANGED running
    BY <1>5 DEF Typed, Send, Calls
  <2>2. /\ Functor("written", c, x) \in Functors /\ Functor("send", c, x) \in Functors
        /\ PushedBy(loopOf[c], Functor("written", c, x))
        /\ PushedBy(loopOf[c], Functor("send", c, x))
    <3>1. /\ Functor("written", c, x) \in Functors /\ Functor("written", c, x).op = "written"
          /\ Functor("written", c, x).conn = c /\ Functor("written", c, x).user = (x \in Users)
      BY <2>1, FunctorType DEF Owning
    <3>2. /\ Functor("send", c, x) \in Functors /\ Functor("send", c, x).op = "send"
          /\ Functor("send", c, x).conn = c /\ Functor("send", c, x).user = (x \in Users)
      BY <2>1, FunctorType DEF Raw
    <3> QED  BY <2>1, <3>1, <3>2 DEF PushedBy
  <2>3. CASE x = loopOf[c]
    <3>1. UNCHANGED queue \/ Push(x, Functor("written", c, x))
      BY <1>5, <2>1, <2>3, SendEffect DEF Send
    <3> QED  BY <1>1, <1>2, <2>1, <2>2, <2>3, <3>1 DEF RunningKept
  <2>4. CASE x # loopOf[c]
    <3>1. Push(loopOf[c], Functor("send", c, x))
      BY <1>5, <2>4 DEF Send
    <3> QED  BY <1>2, <2>1, <2>2, <3>1 DEF RunningKept
  <2> QED  BY <2>3, <2>4
<1>6. ASSUME NEW x \in Threads, QueueShutdown(x) PROVE Goal
  <2> DEFINE c == call[x].conn
  <2>1. /\ c \in Conns /\ loopOf[c] \in Loops /\ call[x].at # "none" /\ UNCHANGED running
        /\ Push(loopOf[c], Functor("shutdown", c, x))
    BY <1>6 DEF Typed, QueueShutdown, Calls
  <2>2. /\ Functor("shutdown", c, x) \in Functors /\ Functor("shutdown", c, x).op = "shutdown"
        /\ Functor("shutdown", c, x).conn = c /\ Functor("shutdown", c, x).user = (x \in Users)
    BY <2>1, FunctorType DEF Raw
  <2>3. PushedBy(loopOf[c], Functor("shutdown", c, x))
    BY <2>1, <2>2 DEF PushedBy
  <2> QED  BY <1>2, <2>1, <2>2, <2>3 DEF RunningKept
<1>7. ASSUME NEW k \in Loops, TakeFunctors(k) PROVE Goal
  <2>1. running' = [running EXCEPT ![k] = queue[k]] /\ queue' = [queue EXCEPT ![k] = <<>>]
    BY <1>7 DEF TakeFunctors
  <2> QED  BY <1>7, <2>1 DEF Typed, QueueKept, RunningKept
<1>8. ASSUME NEW k \in Loops, RunSend(k) PROVE Goal
  <2> DEFINE c == Target(k)
  <2>1. NextFunctor(k, "send") /\ running[k] # <<>> /\ Pop(k) /\ SendInLoop(k, c) /\ c \in Conns
    BY <1>8, TargetType DEF RunSend, NextFunctor
  <2>2. /\ Functor("written", c, k) \in Functors /\ Functor("written", c, k).op = "written"
        /\ Functor("written", c, k).conn = c
    BY <2>1, FunctorType DEF Owning
  <2>3. UNCHANGED queue \/ (state[c] # "kDisconnected" /\ Push(k, Functor("written", c, k)))
    BY <2>1, SendEffect
  <2>5. state[c] # "kDisconnected" => PushedBy(k, Functor("written", c, k))
    BY <1>8, <2>1, <2>2 DEF RunSend, PushedBy
  <2>4. QueueKept(l)
    BY <1>2, <2>2, <2>3, <2>5 DEF QueueKept
  <2> QED  BY <1>3, <2>1, <2>4
<1>9. ASSUME NEW k \in Loops, RunShutdown(k) \/ RunWritten(k) \/ RunDestroy(k) PROVE Goal
  <2>1. Pop(k) /\ UNCHANGED queue /\ \E op \in {"shutdown", "written", "destroy"} : NextFunctor(k, op)
    BY <1>9 DEF RunShutdown, RunWritten, RunDestroy
  <2> QED  BY <1>3, <2>1 DEF QueueKept
<1>10. ASSUME NEW k \in Loops, CloseCallback(k), k # BaseLoop PROVE Goal
  <2>1. /\ Push(BaseLoop, Functor("remove", on[k], k)) /\ UNCHANGED running
        /\ on[k] \in Conns /\ pc[k] = "down"
    BY <1>10 DEF CloseCallback, Typed
  <2>2. Functor("remove", on[k], k) \in Functors /\ PushedBy(BaseLoop, Functor("remove", on[k], k))
    BY <1>10, <2>1, FunctorType DEF Owning, PushedBy
  <2> QED  BY <1>2, <2>1, <2>2 DEF RunningKept
<1>11. CASE RunRemove
  <2> DEFINE c == Target(BaseLoop)
  <2>1. /\ NextFunctor(BaseLoop, "remove") /\ running[BaseLoop] # <<>> /\ Pop(BaseLoop)
        /\ c \in Conns /\ loopOf[c] \in Loops
        /\ Push(loopOf[c], Functor("destroy", c, BaseLoop))
    BY <1>11, TargetType DEF RunRemove, NextFunctor, Typed
  <2>2. /\ Functor("destroy", c, BaseLoop) \in Functors
        /\ Functor("destroy", c, BaseLoop).op = "destroy" /\ Functor("destroy", c, BaseLoop).conn = c
    <3>1. c \in Conns /\ "destroy" \in Owning \cup Raw
      BY <2>1 DEF Owning
    <3> HIDE DEF c
    <3> QED  BY <3>1, FunctorType
  <2>3. PushedBy(loopOf[c], Functor("destroy", c, BaseLoop))
    BY <2>1, <2>2 DEF PushedBy
  <2> QED  BY <1>2, <1>3, <2>1, <2>2, <2>3
<1>12. ASSUME NEW c \in Conns,
              \/ PeerStep(c) \/ NewConnection(c) \/ DropPointer(c)
              \/ DestroyConnection(c) /\ loopOf[c] = BaseLoop
       PROVE  Goal
  BY <1>1, <1>12 DEF PeerStep, PeerSends, PeerCloses, PeerResets, NewConnection, DropPointer,
                     DestroyConnection
<1>13. ASSUME NEW x \in Threads, SetDisconnecting(x) \/ \E c \in Conns : BeginCall(x, c)
       PROVE  Goal
  BY <1>1, <1>13 DEF SetDisconnecting, BeginCall
<1>14. ASSUME NEW k \in Loops,
              \/ Poll(k) \/ \E c \in Conns : HandleEvent(k, c)
              \/ CallbackReturns(k) \/ DestroyReturns(k) \/ StopLoop(k)
              \/ CloseCallback(k) /\ k = BaseLoop
       PROVE  Goal
  BY <1>1, <1>14 DEF Poll, HandleEvent, SkipEvent, HandleRead, HandleClose, HandleEventWithGuard,
                     NextEvent, CallbackReturns, DestroyReturns, StopLoop, CloseCallback
<1>15. ASSUME Start \/ EnableReading \/ ConnectionUp \/ KeepPointer \/ DestroyServer \/ DestroyPool
       PROVE  Goal
  BY <1>1, <1>15 DEF Start, EnableReading, ConnectionUp, KeepPointer, DestroyServer, DestroyPool
<1>16. CASE UNCHANGED vars
  BY <1>1, <1>16 DEF vars
<1> HIDE DEF pollerVars, owners, rounds, thread, socket, history
<1> QED
  BY <1>1, <1>4, <1>5, <1>6, <1>7, <1>8, <1>9, <1>10, <1>11, <1>12, <1>13, <1>14, <1>15, <1>16
     DEF Next, CallStep, BaseStep, Return, LoopStep

\* Every functor a step adds to a loop comes from one of these.
LEMMA Pushed ==
    ASSUME Typed, [Next]_vars, NEW l \in Loops, NEW f \in Waiting(l)', f \notin Waiting(l)
    PROVE  PushedBy(l, f)
<1>1. queue[l] \in Seq(Functors) /\ running[l] \in Seq(Functors)
  BY DEF Typed
<1>2. f \in ToSet(queue'[l]) \cup ToSet(running'[l]) /\ f \notin ToSet(queue[l]) \cup ToSet(running[l])
  BY DEF Waiting
<1>3. CASE running'[l] = queue[l] /\ queue'[l] = <<>>
  BY <1>2, <1>3, NoElements
<1>4. CASE QueueKept(l) /\ RunningKept(l)
  <2>1. f \notin ToSet(running'[l])
    BY <1>1, <1>2, <1>4, TailElements DEF RunningKept
  <2>2. queue'[l] # queue[l] /\ f \in ToSet(queue'[l])
    BY <1>2, <2>1
  <2>3. PICK g \in Functors : queue'[l] = Append(queue[l], g) /\ PushedBy(l, g)
    BY <1>4, <2>2 DEF QueueKept
  <2>4. f = g
    BY <1>1, <1>2, <2>2, <2>3, AppendElements
  <2> QED  BY <2>3, <2>4
<1> QED  BY <1>3, <1>4, QueueChanges

\* A connection gets its loop when it is accepted, for good.
LEMMA LoopKept ==
    ASSUME [Next]_vars
    PROVE  UNCHANGED loopOf \/ \E c \in Conns : NewConnection(c)
<1> USE DEF vars, pollerVars, owners, rounds, thread, socket, history
<1>1. ASSUME NEW c \in Conns, PeerStep(c) \/ DropPointer(c) \/ DestroyConnection(c)
      PROVE  UNCHANGED loopOf
  BY <1>1 DEF PeerStep, PeerSends, PeerCloses, PeerResets, DropPointer, DestroyConnection
<1>2. ASSUME NEW x \in Threads, CallStep(x) \/ \E c \in Conns : BeginCall(x, c)
      PROVE  UNCHANGED loopOf
  BY <1>2 DEF CallStep, Send, SetDisconnecting, QueueShutdown, BeginCall
<1>3. ASSUME NEW l \in Loops,
             \/ Poll(l) \/ TakeFunctors(l) \/ \E c \in Conns : HandleEvent(l, c)
             \/ Return(l) \/ StopLoop(l)
      PROVE  UNCHANGED loopOf
  BY <1>3 DEF Poll, TakeFunctors, HandleEvent, SkipEvent, HandleRead, HandleClose,
              HandleEventWithGuard, NextEvent, Return, CallbackReturns, DestroyReturns,
              CloseCallback, StopLoop
<1>4. ASSUME NEW l \in Loops, RunSend(l) \/ RunShutdown(l) \/ RunWritten(l) \/ RunDestroy(l)
      PROVE  UNCHANGED loopOf
  BY <1>4 DEF RunSend, RunShutdown, RunWritten, RunDestroy
<1>5. ASSUME Start \/ BaseStep \/ KeepPointer \/ DestroyServer \/ DestroyPool
      PROVE  UNCHANGED loopOf
  BY <1>5 DEF Start, BaseStep, EnableReading, ConnectionUp, RunRemove, KeepPointer,
              DestroyServer, DestroyPool
<1>6. CASE UNCHANGED vars
  BY <1>6
<1> HIDE DEF vars, pollerVars, owners, rounds, thread, socket, history
<1> QED
  BY <1>1, <1>2, <1>3, <1>4, <1>5, <1>6 DEF Next, LoopStep

\* Channels join a round when its loop polls.
LEMMA ActiveKept ==
    ASSUME Typed, [Next]_vars
    PROVE  \A l \in Loops : active'[l] \subseteq active[l] \/ Poll(l)
<1> USE DEF vars, pollerVars, owners, rounds, thread, socket, history
<1>1. ASSUME NEW c \in Conns, PeerStep(c) \/ NewConnection(c) \/ DropPointer(c) \/ DestroyConnection(c)
      PROVE  UNCHANGED active
  BY <1>1 DEF PeerStep, PeerSends, PeerCloses, PeerResets, NewConnection, DropPointer,
              DestroyConnection
<1>2. ASSUME NEW x \in Threads, CallStep(x) \/ \E c \in Conns : BeginCall(x, c)
      PROVE  UNCHANGED active
  BY <1>2 DEF CallStep, Send, SetDisconnecting, QueueShutdown, BeginCall
<1>3. ASSUME NEW l \in Loops, TakeFunctors(l) \/ Return(l) \/ StopLoop(l)
      PROVE  UNCHANGED active
  BY <1>3 DEF TakeFunctors, Return, CallbackReturns, DestroyReturns, CloseCallback, StopLoop
<1>4. ASSUME NEW l \in Loops, NEW c \in Conns, HandleEvent(l, c)
      PROVE  \A k \in Loops : active'[k] \subseteq active[k]
  <2>1. NextEvent(l, c)
    BY <1>4 DEF HandleEvent, SkipEvent, HandleRead, HandleClose, HandleEventWithGuard
  <2>2. active \in [Loops -> SUBSET Conns] /\ active' = [active EXCEPT ![l] = active[l] \ {c}]
    BY <2>1 DEF NextEvent, Typed
  <2> QED  BY <2>2
<1>5. ASSUME NEW l \in Loops, RunSend(l) \/ RunShutdown(l) \/ RunWritten(l) \/ RunDestroy(l)
      PROVE  UNCHANGED active
  BY <1>5 DEF RunSend, RunShutdown, RunWritten, RunDestroy, Pop
<1>6. ASSUME Start \/ BaseStep \/ KeepPointer \/ DestroyServer \/ DestroyPool
      PROVE  UNCHANGED active
  BY <1>6 DEF Start, BaseStep, EnableReading, ConnectionUp, RunRemove, Pop, KeepPointer,
              DestroyServer, DestroyPool
<1>7. ASSUME NEW l \in Loops, Poll(l)
      PROVE  \A k \in Loops : active'[k] \subseteq active[k] \/ Poll(k)
  BY <1>7 DEF Poll, Typed
<1>8. CASE UNCHANGED vars
  BY <1>8
<1> HIDE DEF vars, pollerVars, owners, rounds, thread, socket, history
<1> QED
  BY <1>1, <1>2, <1>3, <1>4, <1>5, <1>6, <1>7, <1>8 DEF Next, LoopStep

\* A loop runs functors of its own connections, removals apart.
LEMMA TargetPlace ==
    ASSUME Typed, PlaceInv, NEW l \in Loops, NEW op \in (Owning \cup Raw) \ {"remove"},
           NextFunctor(l, op)
    PROVE  Target(l) \in Conns /\ loopOf[Target(l)] = l
<1>1. /\ Head(running[l]) \in Waiting(l) /\ Head(running[l]).op # "remove"
      /\ Target(l) \in Conns
  BY TargetType DEF NextFunctor
<1> QED  BY <1>1 DEF PlaceInv, InPlace, Target

\* The functors and the events of a connection stay in its loop.
LEMMA PlaceStep ==
    ASSUME Typed, ThreadInv, FreshInv, PlaceInv, [Next]_vars
    PROVE  PlaceInv'
<1>1. ASSUME NEW c \in Conns, NewConnection(c)
      PROVE  /\ \A l \in Loops : \A f \in Waiting(l) : f.conn # c
             /\ \A l \in Loops : c \notin active[l]
             /\ \A d \in Conns \ {c} : loopOf'[d] = loopOf[d]
             /\ \A l \in Loops : Waiting(l)' = Waiting(l)
  <2>1. state[c] = "none"
    BY <1>1 DEF NewConnection, Accept
  <2>2. Unknown(c)
    BY <2>1 DEF FreshInv, Fresh
  <2>3. UNCHANGED <<queue, running>>
    BY <1>1 DEF NewConnection, rounds
  <2>4. \A d \in Conns \ {c} : loopOf'[d] = loopOf[d]
    BY <1>1 DEF NewConnection, Construct, Typed
  <2> QED  BY <2>2, <2>3, <2>4, WaitingFunctors DEF Unknown, Waiting
<1>2. ASSUME NEW l \in Loops, NEW f \in Waiting(l)
      PROVE  InPlace(f, l) /\ loopOf'[f.conn] = loopOf[f.conn]
  BY <1>1, <1>2, LoopKept, WaitingFunctors DEF PlaceInv, Functors
<1>3. ASSUME NEW l \in Loops, NEW f \in Waiting(l)', f \notin Waiting(l)
      PROVE  InPlace(f, l) /\ loopOf' = loopOf
  <2>1. PushedBy(l, f)
    BY <1>3, Pushed
  <2>2. UNCHANGED loopOf
    BY <1>1, <1>3, LoopKept
  <2>3. CASE NextFunctor(l, "send") /\ f.conn = Target(l) /\ f.op = "written"
    <3>1. Head(running[l]) \in Waiting(l) /\ Head(running[l]).op = "send"
      BY <2>3, TargetType DEF NextFunctor
    <3>2. loopOf[Target(l)] = l
      BY <3>1 DEF PlaceInv, InPlace, Target
    <3> QED  BY <2>2, <2>3, <3>2 DEF InPlace
  <2> QED  BY <2>1, <2>2, <2>3 DEF PushedBy, InPlace, ThreadInv
<1>4. ASSUME NEW l \in Loops, NEW f \in Waiting(l)'
      PROVE  InPlace(f, l)'
  BY <1>2, <1>3, <1>4 DEF InPlace
<1>5. ASSUME NEW l \in Loops, NEW c \in active'[l]
      PROVE  loopOf'[c] = l
  <2>1. CASE Poll(l)
    BY <1>5, <2>1 DEF Poll, Ready, Typed, owners
  <2>2. CASE active'[l] \subseteq active[l]
    BY <1>1, <1>5, <2>2, LoopKept DEF PlaceInv, Typed
  <2> QED  BY <2>1, <2>2, ActiveKept
<1> QED  BY <1>4, <1>5 DEF PlaceInv

\* What a thread works for stays what it is while the thread is inside send()
\* or shutdown().
LEMMA ThreadStep ==
    ASSUME Typed, Typed', ThreadInv, FreshInv, PlaceInv, [Next]_vars
    PROVE  ThreadInv'
<1> BaseLoop \in Loops /\ BaseLoop \in Threads /\ Loops \subseteq Threads
  BY DEF Loops, Threads
<1> USE DEF pollerVars, owners, rounds, thread, socket, history
<1>1. CASE UNCHANGED <<pc, on, call, held, loopOf>>
  BY <1>1 DEF ThreadInv, CanUse
<1>2. ASSUME NEW c \in Conns, NewConnection(c) PROVE ThreadInv'
  <2>1. /\ \A l \in Loops : on[l] # c
        /\ pc[BaseLoop] = "idle" /\ call[BaseLoop].at = "none"
    BY <1>2 DEF NewConnection, Accept, Dispatching, InLoop, ThreadInv, CanUse, FreshInv, Fresh, Loops
  <2>2. /\ pc' = [pc EXCEPT ![BaseLoop] = "enable"] /\ on' = [on EXCEPT ![BaseLoop] = c]
        /\ \A d \in Conns \ {c} : loopOf'[d] = loopOf[d]
        /\ UNCHANGED <<call, held>>
    BY <1>2 DEF NewConnection, Become, Construct, Typed
  <2>3. /\ pc \in [Loops -> LoopPcs] /\ on \in [Loops -> Conns \cup {NoConn}]
        /\ \A l \in Loops : on[l] = NoConn <=> pc[l] \in {"idle", "stopped"}
    BY DEF Typed
  <2>4. \A l \in Loops : l # BaseLoop => pc'[l] = pc[l] /\ on'[l] = on[l]
    BY <2>2, <2>3
  <2>5. pc'[BaseLoop] = "enable"
    BY <2>2, <2>3
  <2>6. \A l \in Loops : pc'[l] \in {"enable", "enabled", "up"} => l = BaseLoop
    BY <2>4 DEF ThreadInv
  <2>7. \A l \in Loops :
            pc'[l] \in {"message", "written", "down", "destroy"} => loopOf'[on'[l]] = l
    BY <2>1, <2>2, <2>3, <2>4, <2>5 DEF ThreadInv
  <2>8. \A x \in Threads : call'[x].at # "none" => CanUse(x, call[x].conn)'
    BY <2>1, <2>2, <2>4 DEF ThreadInv, CanUse, Threads
  <2> QED  BY <2>6, <2>7, <2>8 DEF ThreadInv
<1>3. ASSUME NEW c \in Conns, DropPointer(c) PROVE ThreadInv'
  <2>1. UNCHANGED <<pc, on, call, loopOf>> /\ held' = held \ {c} /\ \A x \in Users : call[x].conn # c
    BY <1>3 DEF DropPointer
  <2> QED  BY <2>1 DEF ThreadInv, CanUse
<1>4. CASE KeepPointer
  <2>1. UNCHANGED <<pc, on, call, loopOf>> /\ held \subseteq held'
    BY <1>4 DEF KeepPointer
  <2> QED  BY <2>1 DEF ThreadInv, CanUse
<1>5. ASSUME NEW x \in Threads, NEW c \in Conns, BeginCall(x, c) PROVE ThreadInv'
  <2>1. /\ UNCHANGED <<pc, on, held, loopOf>> /\ CanUse(x, c)
        /\ \A y \in Threads \ {x} : call'[y] = call[y]
        /\ call'[x].conn = c
    BY <1>5 DEF BeginCall, Typed
  <2> QED  BY <2>1 DEF ThreadInv, CanUse
<1>6. ASSUME NEW x \in Threads, CallStep(x) PROVE ThreadInv'
  <2>1. UNCHANGED <<pc, on, held, loopOf>>
    BY <1>6 DEF CallStep, Send, SetDisconnecting, QueueShutdown
  <2> QED  BY <1>6, <2>1, CallStepEffect DEF ThreadInv, CanUse
<1>7. ASSUME NEW l \in Loops, NEW where \in LoopPcs, NEW c \in Conns \cup {NoConn},
             Become(l, where, c), UNCHANGED <<call, held, loopOf>>, call[l].at = "none",
             where \in {"enable", "enabled", "up"} => l = BaseLoop,
             where \in {"message", "written", "down", "destroy"} => loopOf[c] = l
      PROVE  ThreadInv'
  <2>1. /\ \A k \in Loops \ {l} : pc'[k] = pc[k] /\ on'[k] = on[k]
        /\ pc'[l] = where /\ on'[l] = c
    BY <1>7 DEF Become, Typed
  <2> QED  BY <1>7, <2>1 DEF ThreadInv, CanUse, Threads
<1>8. \A l \in Loops : pc[l] \notin {"up", "message", "written", "down"} => call[l].at = "none"
  BY DEF ThreadInv, CanUse, Loops
<1>9. ASSUME NEW l \in Loops, NEW c \in Conns, HandleRead(l, c) \/ HandleClose(l, c) PROVE ThreadInv'
  <2>1. /\ pc[l] = "idle" /\ c \in active[l] /\ UNCHANGED <<call, held, loopOf>>
        /\ \E where \in {"message", "down"} : Become(l, where, c)
    BY <1>9 DEF HandleRead, HandleClose, HandleEventWithGuard, NextEvent, Dispatching, InLoop
  <2>2. loopOf[c] = l
    BY <2>1 DEF PlaceInv
  <2> QED  BY <2>1, <2>2, <1>7, <1>8 DEF LoopPcs
<1>10. ASSUME NEW l \in Loops, RunWritten(l) PROVE ThreadInv'
  <2>1. NextFunctor(l, "written") /\ Become(l, "written", Target(l)) /\ UNCHANGED <<call, held, loopOf>>
    BY <1>10 DEF RunWritten
  <2>2. Target(l) \in Conns /\ loopOf[Target(l)] = l
    BY <2>1, TargetPlace DEF Owning
  <2> QED  BY <2>1, <2>2, <1>7, <1>8 DEF LoopPcs, NextFunctor, InLoop
<1>11. ASSUME NEW l \in Loops, NEW c \in Conns, ConnectDestroyed(l, c), pc[l] = "idle",
              loopOf[c] = l, UNCHANGED <<call, held, loopOf>>
       PROVE  ThreadInv'
  <2>1. CASE state[c] = "kConnected"
    BY <1>11, <2>1, <1>7, <1>8 DEF ConnectDestroyed, LoopPcs
  <2>2. CASE state[c] # "kConnected"
    BY <1>11, <2>2, <1>1 DEF ConnectDestroyed
  <2> QED  BY <2>1, <2>2
<1>12. ASSUME NEW l \in Loops, RunDestroy(l) PROVE ThreadInv'
  <2>1. NextFunctor(l, "destroy") /\ ConnectDestroyed(l, Target(l)) /\ UNCHANGED <<call, held, loopOf>>
    BY <1>12 DEF RunDestroy
  <2>2. Target(l) \in Conns /\ loopOf[Target(l)] = l
    BY <2>1, TargetPlace DEF Owning
  <2> QED  BY <2>1, <2>2, <1>11 DEF NextFunctor, InLoop
<1>13. ASSUME NEW c \in Conns, DestroyConnection(c) PROVE ThreadInv'
  <2>1. CASE loopOf[c] = BaseLoop
    BY <1>13, <2>1, <1>11 DEF DestroyConnection
  <2>2. CASE loopOf[c] # BaseLoop
    BY <1>13, <2>2, <1>1 DEF DestroyConnection
  <2> QED  BY <2>1, <2>2
<1>14. ASSUME NEW l \in Loops, Return(l) PROVE ThreadInv'
  <2>1. Become(l, "idle", NoConn) /\ UNCHANGED <<call, held, loopOf>> /\ call[l].at = "none"
    BY <1>14, <1>8 DEF Return, CallbackReturns, CloseCallback, DestroyReturns
  <2> QED  BY <2>1, <1>7 DEF LoopPcs
<1>15. ASSUME NEW l \in Loops, StopLoop(l) PROVE ThreadInv'
  <2>1. Become(l, "stopped", NoConn) /\ UNCHANGED <<call, held, loopOf>> /\ call[l].at = "none"
    BY <1>15, <1>8 DEF StopLoop, AboutToPoll, InLoop, Become, Typed
  <2> QED  BY <2>1, <1>7 DEF LoopPcs
<1>16. ASSUME EnableReading \/ ConnectionUp PROVE ThreadInv'
  <2>1. /\ UNCHANGED <<call, held, loopOf>> /\ call[BaseLoop].at = "none"
        /\ \E where \in {"enabled", "up"} : Become(BaseLoop, where, on[BaseLoop])
    BY <1>16, <1>8 DEF EnableReading, ConnectionUp
  <2> QED  BY <2>1, <1>7 DEF LoopPcs, Typed
<1>17. ASSUME NEW c \in Conns, PeerStep(c)
       PROVE  UNCHANGED <<pc, on, call, held, loopOf>>
  BY <1>17 DEF PeerStep, PeerSends, PeerCloses, PeerResets
<1>18. ASSUME NEW l \in Loops,
              \/ Poll(l) \/ TakeFunctors(l) \/ \E c \in Conns : SkipEvent(l, c)
              \/ RunSend(l) \/ RunShutdown(l)
       PROVE  UNCHANGED <<pc, on, call, held, loopOf>>
  BY <1>18 DEF Poll, TakeFunctors, SkipEvent, RunSend, RunShutdown
<1>19. ASSUME Start \/ RunRemove \/ DestroyServer \/ DestroyPool
       PROVE  UNCHANGED <<pc, on, call, held, loopOf>>
  BY <1>19 DEF Start, RunRemove, DestroyServer, DestroyPool
<1>20. CASE UNCHANGED vars
  BY <1>1, <1>20 DEF vars
<1> HIDE DEF pollerVars, owners, rounds, thread, socket, history
<1> QED
  BY <1>1, <1>2, <1>3, <1>4, <1>5, <1>6, <1>9, <1>10, <1>12, <1>13, <1>14, <1>15, <1>16, <1>17,
     <1>18, <1>19, <1>20 DEF Next, BaseStep, HandleEvent, LoopStep

\* No thread gets hold of a connection before the base loop enables it.
LEMMA FreshStep ==
    ASSUME Typed, Typed', ThreadInv, FreshInv, PlaceInv, [Next]_vars
    PROVE  FreshInv'
<1> SUFFICES ASSUME NEW c \in Conns PROVE Fresh(c)'
  BY DEF FreshInv
<1> BaseLoop \in Loops /\ Loops \subseteq Threads
  BY DEF Loops, Threads
<1> DEFINE Early == state[c] \in {"none", "kConnecting"}
           Enabling == pc[BaseLoop] = "enable" /\ on[BaseLoop] = c
           Quiet == /\ index'[c] = index[c] /\ downs'[c] = downs[c]
                    /\ c \notin held' \cup stray' \cup registered'
                    /\ \A x \in Threads : call'[x].conn # c
                    /\ state[c] = "none" => c \notin connections'
                    /\ \A l \in Loops : on'[l] = c => on[l] = c
                    /\ state[c] = "kConnecting" => Enabling'
<1> USE DEF pollerVars, owners, rounds, thread, socket, history
<1>1. /\ Early => Unknown(c)
      /\ state[c] = "none" => c \notin connections /\ \A l \in Loops : on[l] # c
      /\ state[c] = "kConnecting" => Enabling /\ \A l \in Loops : on[l] = c => l = BaseLoop
      /\ Enabling => state[c] = "kConnecting"
  BY DEF FreshInv, Fresh
<1>2. ASSUME Early, NEW l \in Loops, NEW op, NextFunctor(l, op)
      PROVE  Target(l) # c
  BY <1>1, <1>2, TargetType, WaitingFunctors DEF NextFunctor, Target, Unknown
<1>3. ASSUME Early, NEW f \in Queued'
      PROVE  f.conn # c
  <2>1. PICK l \in Loops : f \in Waiting(l)'
    BY <1>3, QueuedWaiting
  <2>2. CASE f \in Waiting(l)
    BY <1>1, <1>3, <2>2, WaitingFunctors DEF Unknown
  <2>3. CASE f \notin Waiting(l)
    <3>1. PushedBy(l, f)
      BY <2>1, <2>3, Pushed
    <3> QED  BY <1>1, <1>2, <1>3, <3>1 DEF PushedBy, Unknown
  <2> QED  BY <2>2, <2>3
<1>4. ASSUME Early, NEW l \in Loops
      PROVE  c \notin active'[l]
  <2>1. c \notin active[l] /\ c \notin registered
    BY <1>1, <1>4 DEF Unknown
  <2>2. Poll(l) => active'[l] = Ready(l)
    BY DEF Poll, Typed
  <2> QED  BY <2>1, <2>2, ActiveKept DEF Ready
<1>5. ASSUME state'[c] = state[c] \/ (~Early /\ ~Early'),
             Enabling' => Enabling,
             Early => Quiet
      PROVE  Fresh(c)'
  <2>1. CASE Early
    BY <1>1, <1>3, <1>4, <1>5, <2>1 DEF Fresh, Unknown
  <2>2. CASE ~Early
    BY <1>1, <1>5, <2>2 DEF Fresh
  <2> QED  BY <2>1, <2>2
<1>6. Early => \A x \in Threads : call[x].conn # c
  BY <1>1 DEF Unknown
<1>7. CASE UNCHANGED <<state, connections, pc, on, index, registered, downs, held, stray, call>>
  BY <1>1, <1>5, <1>7 DEF Unknown
<1>8. ASSUME NEW d \in Conns, NewConnection(d) PROVE Fresh(c)'
  <2>1. /\ state[d] = "none" /\ pc[BaseLoop] = "idle"
        /\ state' = [state EXCEPT ![d] = "kConnecting"]
        /\ pc' = [pc EXCEPT ![BaseLoop] = "enable"] /\ on' = [on EXCEPT ![BaseLoop] = d]
        /\ connections' = connections \cup {d}
        /\ UNCHANGED <<pollerVars, held, call, downs, stray>>
    BY <1>8 DEF NewConnection, Accept, Dispatching, InLoop, Construct, Become
  <2>2. CASE d = c
    <3>1. Early /\ \A l \in Loops : on[l] # c
      BY <1>1, <2>1, <2>2
    <3>2. /\ state'[c] = "kConnecting" /\ pc'[BaseLoop] = "enable" /\ on'[BaseLoop] = c
          /\ \A l \in Loops : on'[l] = c => l = BaseLoop
      BY <2>1, <2>2, <3>1 DEF Typed
    <3>3. Unknown(c)'
      BY <1>1, <1>3, <1>4, <2>1, <3>1 DEF Unknown
    <3> QED  BY <3>2, <3>3 DEF Fresh
  <2>3. CASE d # c
    <3>1. /\ state'[c] = state[c] /\ on'[BaseLoop] = d
          /\ \A l \in Loops : on'[l] = c => on[l] = c
      BY <2>1, <2>3 DEF Typed
    <3> QED  BY <1>1, <1>5, <2>1, <2>3, <3>1 DEF Unknown
  <2> QED  BY <2>2, <2>3
<1>9. CASE EnableReading
  <2> DEFINE d == on[BaseLoop]
  <2>1. /\ d \in Conns /\ pc[BaseLoop] = "enable"
        /\ state' = [state EXCEPT ![d] = "kConnected"] /\ EnableChannel(d)
        /\ pc' = [pc EXCEPT ![BaseLoop] = "enabled"] /\ on' = [on EXCEPT ![BaseLoop] = d]
        /\ UNCHANGED <<connections, held, call, downs, stray>>
    BY <1>9 DEF EnableReading, Become, Typed
  <2>2. /\ pc'[BaseLoop] = "enabled" /\ on' = on
        /\ d # c => state'[c] = state[c]
        /\ d = c => state'[c] = "kConnected"
    BY <2>1 DEF Typed
  <2>3. CASE d = c
    BY <2>2, <2>3 DEF Fresh
  <2>4. CASE d # c
    <3>1. index'[c] = index[c] /\ (c \notin registered => c \notin registered')
      BY <2>1, <2>4, OtherChannels
    <3> QED  BY <1>1, <1>5, <2>1, <2>2, <2>4, <3>1 DEF Unknown
  <2> QED  BY <2>3, <2>4
<1>10. ASSUME NEW d \in Conns, DropPointer(d) PROVE Fresh(c)'
  BY <1>1, <1>5, <1>10 DEF DropPointer, Unknown
<1>11. ASSUME KeepPointer PROVE Fresh(c)'
  <2>1. Early => on[BaseLoop] # c
    BY <1>1, <1>11 DEF KeepPointer
  <2> QED  BY <1>1, <1>5, <1>11, <2>1 DEF KeepPointer, Unknown
<1>12. ASSUME NEW x \in Threads, NEW d \in Conns, BeginCall(x, d) PROVE Fresh(c)'
  <2>1. Early => \A y \in Threads : call'[y].conn # c
    BY <1>6, <1>12 DEF BeginCall, Typed
  <2> QED  BY <1>1, <1>5, <1>12, <2>1 DEF BeginCall, Unknown
<1>13. ASSUME NEW x \in Threads, CallStep(x) PROVE Fresh(c)'
  <2>1. call[x].conn \in Conns
    BY <1>13 DEF CallStep, Send, SetDisconnecting, QueueShutdown, Typed, Calls
  <2>2. Early => \A y \in Threads : call'[y].conn # c
    BY <1>6, <1>13, CallStepEffect
  <2>3. /\ UNCHANGED <<pc, on, connections, held, downs>>
        /\ c # call[x].conn => state'[c] = state[c] /\ (c \notin stray => c \notin stray')
        /\ state'[call[x].conn] \in {state[call[x].conn], "kDisconnecting"}
    <3>1. CASE Send(x) \/ QueueShutdown(x)
      BY <3>1 DEF Send, QueueShutdown
    <3>2. CASE SetDisconnecting(x)
      BY <3>2, <2>1 DEF SetDisconnecting, Typed
    <3> QED  BY <1>13, <3>1, <3>2 DEF CallStep
  <2>4. c # call[x].conn => index'[c] = index[c] /\ (c \notin registered => c \notin registered')
    <3>1. CASE Send(x)
      <4>1. UNCHANGED pollerVars \/ EnableChannel(call[x].conn)
        BY <3>1, <2>1, SendEffect DEF Send, Typed
      <4> QED  BY <2>1, <4>1, OtherChannels
    <3>2. CASE SetDisconnecting(x) \/ QueueShutdown(x)
      BY <3>2 DEF SetDisconnecting, QueueShutdown
    <3> QED  BY <1>13, <3>1, <3>2 DEF CallStep
  <2> QED  BY <1>1, <1>5, <1>6, <2>2, <2>3, <2>4 DEF Unknown
<1>14. ASSUME NEW l \in Loops, NEW d \in Conns, HandleRead(l, d) \/ HandleClose(l, d) PROVE Fresh(c)'
  <2>1. /\ d \in active[l] /\ pc[l] = "idle"
        /\ UNCHANGED <<connections, held, call, stray>>
        /\ d # c => state'[c] = state[c] /\ downs'[c] = downs[c]
        /\ state'[d] \in {state[d], "kDisconnected"}
    <3>1. /\ d \in active[l] /\ pc[l] = "idle" /\ UNCHANGED <<connections, held, call, stray>>
      BY <1>14 DEF HandleRead, HandleClose, HandleEventWithGuard, NextEvent, Dispatching, InLoop
    <3>2. CASE HandleRead(l, d)
      BY <3>1, <3>2 DEF HandleRead
    <3>3. CASE HandleClose(l, d)
      <4>1. state' = [state EXCEPT ![d] = "kDisconnected"] /\ CountDown(d)
        BY <3>3 DEF HandleClose
      <4>2. downs' = [downs EXCEPT ![d] = downs'[d]]
        BY <4>1, CountDownEffect DEF Typed
      <4> QED  BY <3>1, <4>1, <4>2 DEF Typed
    <3> QED  BY <1>14, <3>1, <3>2, <3>3
  <2>2. \E where \in {"message", "down"} : Become(l, where, d)
    BY <1>14 DEF HandleRead, HandleClose
  <2>3. /\ \A k \in Loops : k # l => pc'[k] = pc[k] /\ on'[k] = on[k]
        /\ pc'[l] \in {"message", "down"} /\ on'[l] = d
    BY <2>2 DEF Become, Typed
  <2>4. d # c => index'[c] = index[c] /\ (c \notin registered => c \notin registered')
    <3>1. UNCHANGED pollerVars \/ DisableAll(d)
      BY <1>14 DEF HandleRead, HandleClose
    <3> QED  BY <3>1, OtherChannels
  <2>5. Early => d # c
    BY <1>1, <2>1 DEF Unknown
  <2> QED  BY <1>1, <1>5, <2>1, <2>3, <2>4, <2>5 DEF Unknown
<1>15. ASSUME NEW l \in Loops, RunSend(l) PROVE Fresh(c)'
  <2>1. /\ NextFunctor(l, "send") /\ Target(l) \in Conns /\ SendInLoop(l, Target(l))
        /\ UNCHANGED <<state, connections, pc, on, held, call, downs>>
        /\ c # Target(l) => (c \notin stray => c \notin stray')
    BY <1>15, TargetType DEF RunSend, NextFunctor
  <2>2. UNCHANGED pollerVars \/ EnableChannel(Target(l))
    BY <2>1, SendEffect
  <2>3. c # Target(l) => index'[c] = index[c] /\ (c \notin registered => c \notin registered')
    BY <2>1, <2>2, OtherChannels
  <2> QED  BY <1>1, <1>2, <1>5, <2>1, <2>3 DEF Unknown
<1>16. ASSUME NEW l \in Loops, RunWritten(l) PROVE Fresh(c)'
  <2>1. /\ NextFunctor(l, "written") /\ Become(l, "written", Target(l)) /\ pc[l] = "idle"
        /\ UNCHANGED <<pollerVars, state, connections, held, call, downs, stray>>
    BY <1>16 DEF RunWritten, NextFunctor, InLoop
  <2>2. /\ \A k \in Loops : k # l => pc'[k] = pc[k] /\ on'[k] = on[k]
        /\ pc'[l] = "written" /\ on'[l] = Target(l)
    BY <2>1 DEF Become, Typed
  <2> QED  BY <1>1, <1>2, <1>5, <2>1, <2>2 DEF Unknown
<1>17. ASSUME NEW l \in Loops, NEW d \in Conns, Early => d # c, ConnectDestroyed(l, d), pc[l] = "idle",
              connections' \subseteq connections, UNCHANGED <<held, call, stray>>
       PROVE  Fresh(c)'
  <2>1. d # c => /\ state'[c] = state[c] /\ downs'[c] = downs[c] /\ index'[c] = index[c]
                 /\ c \notin registered => c \notin registered'
    <3>1. d # c => state'[c] = state[c] /\ downs'[c] = downs[c]
      <4>1. state \in [Conns -> States] /\ downs \in [Conns -> 0 .. 2]
        BY DEF Typed
      <4>2. CASE state[d] = "kConnected"
        <5>1. state' = [state EXCEPT ![d] = "kDisconnected"] /\ CountDown(d)
          BY <1>17, <4>2 DEF ConnectDestroyed
        <5>2. downs' = [downs EXCEPT ![d] = downs'[d]]
          BY <4>1, <5>1, CountDownEffect
        <5> QED  BY <4>1, <5>1, <5>2
      <4>3. CASE state[d] # "kConnected"
        BY <1>17, <4>3 DEF ConnectDestroyed
      <4> QED  BY <4>2, <4>3
    <3> QED  BY <1>17, <3>1, OtherChannels DEF ConnectDestroyed
  <2>2. state'[d] \in {state[d], "kDisconnected"}
    BY <1>17 DEF ConnectDestroyed, Typed
  <2>3. /\ \A k \in Loops : k # l => pc'[k] = pc[k] /\ on'[k] = on[k]
        /\ pc'[l] # "enable" /\ on'[l] \in {on[l], d}
    <3>1. Become(l, "destroy", d) \/ UNCHANGED <<pc, on>>
      BY <1>17 DEF ConnectDestroyed
    <3>2. pc \in [Loops -> LoopPcs] /\ on \in [Loops -> Conns \cup {NoConn}]
      BY DEF Typed
    <3> QED  BY <1>17, <3>1, <3>2 DEF Become
  <2> QED  BY <1>1, <1>5, <1>17, <2>1, <2>2, <2>3 DEF Unknown
<1>18. ASSUME NEW l \in Loops, RunDestroy(l) PROVE Fresh(c)'
  <2>1. /\ NextFunctor(l, "destroy") /\ ConnectDestroyed(l, Target(l)) /\ Target(l) \in Conns
        /\ pc[l] = "idle" /\ UNCHANGED <<connections, held, call, stray>>
    BY <1>18, TargetType DEF RunDestroy, NextFunctor, InLoop
  <2> QED  BY <1>2, <1>17, <2>1
<1>19. ASSUME NEW d \in Conns, DestroyConnection(d) PROVE Fresh(c)'
  <2>1. /\ d \in connections /\ pc[BaseLoop] = "idle" /\ connections' = connections \ {d}
        /\ UNCHANGED <<held, call, stray>>
    BY <1>19 DEF DestroyConnection
  <2>2. Early => d # c
    BY <1>1, <2>1
  <2>3. CASE loopOf[d] = BaseLoop
    <3>1. ConnectDestroyed(BaseLoop, d) /\ UNCHANGED queue
      BY <1>19, <2>3 DEF DestroyConnection
    <3> QED  BY <1>17, <2>1, <2>2, <3>1
  <2>4. CASE loopOf[d] # BaseLoop
    <3>1. UNCHANGED <<pollerVars, state, downs, pc, on>>
      BY <1>19, <2>4 DEF DestroyConnection
    <3> QED  BY <1>1, <1>5, <2>1, <2>2, <3>1 DEF Unknown
  <2> QED  BY <2>3, <2>4
<1>20. ASSUME NEW l \in Loops, Return(l) PROVE Fresh(c)'
  <2>1. /\ Become(l, "idle", NoConn) /\ pc[l] \in {"up", "message", "written", "down", "destroy"}
        /\ connections' \subseteq connections /\ UNCHANGED <<state, held, call, downs, stray>>
        /\ on[l] # NoConn /\ on[l] \in Conns
    <3>1. /\ Become(l, "idle", NoConn) /\ pc[l] \in {"up", "message", "written", "down", "destroy"}
          /\ connections' \in {connections, connections \ {on[l]}}
          /\ UNCHANGED <<state, held, call, downs, stray>>
      <4>1. CASE CallbackReturns(l)
        BY <4>1 DEF CallbackReturns
      <4>2. CASE CloseCallback(l)
        BY <4>2 DEF CloseCallback
      <4>3. CASE DestroyReturns(l)
        BY <4>3 DEF DestroyReturns
      <4> QED  BY <1>20, <4>1, <4>2, <4>3 DEF Return
    <3>2. on[l] \in Conns \cup {NoConn} /\ (on[l] = NoConn => pc[l] \in {"idle", "stopped"})
      BY DEF Typed
    <3> QED  BY <3>1, <3>2
  <2>2. /\ \A k \in Loops : k # l => pc'[k] = pc[k] /\ on'[k] = on[k]
        /\ pc'[l] = "idle" /\ on'[l] = NoConn
    BY <2>1 DEF Become, Typed
  <2>3. on[l] # c => index'[c] = index[c] /\ (c \notin registered => c \notin registered')
    <3>1. UNCHANGED pollerVars \/ RemoveChannel(on[l])
      BY <1>20 DEF Return, CallbackReturns, CloseCallback, DestroyReturns
    <3> QED  BY <2>1, <3>1, OtherChannels
  <2>4. Early => on[l] # c
    BY <1>1, <2>1
  <2> QED  BY <1>1, <1>5, <2>1, <2>2, <2>3, <2>4 DEF Unknown
<1>21. ASSUME NEW l \in Loops, StopLoop(l) PROVE Fresh(c)'
  <2>1. /\ pc[l] = "idle" /\ pc' = [pc EXCEPT ![l] = "stopped"]
        /\ UNCHANGED <<pollerVars, state, connections, on, held, call, downs, stray>>
    BY <1>21 DEF StopLoop, AboutToPoll, InLoop
  <2>2. /\ \A k \in Loops : k # l => pc'[k] = pc[k]
        /\ pc'[l] = "stopped"
    BY <2>1 DEF Typed
  <2> QED  BY <1>1, <1>5, <2>1, <2>2 DEF Unknown
<1>22. ASSUME ConnectionUp PROVE Fresh(c)'
  <2>1. /\ pc[BaseLoop] = "enabled" /\ Become(BaseLoop, "up", on[BaseLoop])
        /\ UNCHANGED <<pollerVars, state, connections, held, call, downs, stray>>
    BY <1>22 DEF ConnectionUp
  <2>2. pc'[BaseLoop] = "up" /\ on' = on
    BY <2>1 DEF Become, Typed
  <2> QED  BY <1>1, <1>5, <2>1, <2>2 DEF Unknown
<1>23. ASSUME RunRemove PROVE Fresh(c)'
  BY <1>1, <1>5, <1>23 DEF RunRemove, Unknown
<1>24. ASSUME NEW d \in Conns, PeerStep(d) PROVE Fresh(c)'
  BY <1>7, <1>24 DEF PeerStep, PeerSends, PeerCloses, PeerResets
<1>25. ASSUME NEW l \in Loops,
              \/ Poll(l) \/ TakeFunctors(l) \/ \E d \in Conns : SkipEvent(l, d) \/ RunShutdown(l)
       PROVE  Fresh(c)'
  BY <1>7, <1>25 DEF Poll, TakeFunctors, SkipEvent, RunShutdown
<1>26. ASSUME Start \/ DestroyServer \/ DestroyPool PROVE Fresh(c)'
  BY <1>7, <1>26 DEF Start, DestroyServer, DestroyPool
<1>27. CASE UNCHANGED vars
  BY <1>7, <1>27 DEF vars
<1> HIDE DEF pollerVars, owners, rounds, thread, socket, history
<1> QED
  BY <1>8, <1>9, <1>10, <1>11, <1>12, <1>13, <1>14, <1>15, <1>16, <1>18, <1>19, <1>20, <1>21,
     <1>22, <1>23, <1>24, <1>25, <1>26, <1>27 DEF Next, BaseStep, HandleEvent, LoopStep

\* The three hold together.
THEOREM ThreadsHold == Spec => [](ThreadInv /\ FreshInv /\ PlaceInv)
<1>1. Init => ThreadInv /\ FreshInv /\ PlaceInv
  <2>1. ASSUME Init PROVE \A l \in Loops : Waiting(l) = {}
    BY <2>1, NoElements DEF Init, Waiting
  <2>2. ASSUME Init PROVE Queued = {}
    BY <2>1, <2>2, QueuedWaiting
  <2> QED
    BY <2>1, <2>2 DEF Init, PollerInit, ThreadInv, FreshInv, Fresh, Unknown, PlaceInv, Loops, Threads
<1>2. /\ Typed /\ Typed' /\ (ThreadInv /\ FreshInv /\ PlaceInv) /\ [Next]_vars
      => (ThreadInv /\ FreshInv /\ PlaceInv)'
  BY ThreadStep, FreshStep, PlaceStep
<1> QED  BY <1>1, <1>2, TypesHold, PTL DEF Spec

-----------------------------------------------------------------------------
(* What a step does to a connection *)

Keeps(c) == state'[c] = state[c] /\ index'[c] = index[c] /\ downs'[c] = downs[c]

\* newConnection(), and its connectEstablished().
Accepts(c) ==
    /\ NewConnection(c) /\ state[c] = "none" /\ state'[c] = "kConnecting"
    /\ index'[c] = index[c] /\ downs'[c] = downs[c]

Enables(c) ==
    /\ pc[BaseLoop] = "enable" /\ on[BaseLoop] = c /\ pc'[BaseLoop] = "enabled"
    /\ state'[c] = "kConnected" /\ index'[c] = "kAdded" /\ downs'[c] = downs[c]

\* sendInLoop() that enables the channel.
SendsOn(c) ==
    /\ \/ \E x \in Loops : call[x].at # "none" /\ call[x].conn = c /\ x = loopOf[c]
       \/ \E l \in Loops : /\ NextFunctor(l, "send") /\ Target(l) = c
                           /\ index[c] = "kNew" => c \in stray'
    /\ state[c] # "kDisconnected" /\ state'[c] = state[c]
    /\ index'[c] = "kAdded" /\ downs'[c] = downs[c]

\* shutdown().
Leaves(c) ==
    /\ \E x \in Threads : call[x].at # "none" /\ call[x].conn = c
    /\ state[c] = "kDisconnected" => c \in stray'
    /\ state'[c] = "kDisconnecting" /\ index'[c] = index[c] /\ downs'[c] = downs[c]

\* Where loop l may run connectDestroyed() for c.
MayDestroy(l, c) ==
    /\ pc[l] = "idle" /\ loopOf[c] = l
    /\ \/ NextFunctor(l, "destroy") /\ Target(l) = c
       \/ l = BaseLoop /\ server = "destroying" /\ c \in connections

\* DOWN, in handleClose() or connectDestroyed().
Ends(l, c) ==
    /\ \/ c \in active[l] /\ pc[l] = "idle" /\ pc'[l] = "down" /\ c \notin active'[l]
       \/ MayDestroy(l, c) /\ state[c] = "kConnected" /\ pc'[l] = "destroy"
    /\ on'[l] = c /\ state'[c] = "kDisconnected"
    /\ index[c] = "kAdded" => index'[c] = "kDelete"
    /\ downs'[c] >= 1 /\ (downs[c] = 0 => downs'[c] = 1)

\* channel_->remove().
Removes(l, c) ==
    /\ \/ pc[l] \in {"down", "destroy"} /\ on[l] = c /\ call[l].at = "none" /\ pc'[l] = "idle"
       \/ MayDestroy(l, c) /\ state[c] # "kConnected"
    /\ index'[c] = "kNew" /\ state'[c] = state[c] /\ downs'[c] = downs[c]

\* connectDestroyed() does one of the last two.
LEMMA DestroyedEffect ==
    ASSUME Typed, NEW l \in Loops, NEW c \in Conns, MayDestroy(l, c), ConnectDestroyed(l, c)
    PROVE  /\ Ends(l, c) \/ Removes(l, c)
           /\ \A d \in Conns \ {c} : Keeps(d)
<1>1. /\ state \in [Conns -> States] /\ downs \in [Conns -> 0 .. 2] /\ index \in [Conns -> Indices]
      /\ pc \in [Loops -> LoopPcs] /\ on \in [Loops -> Conns \cup {NoConn}]
  BY DEF Typed
<1>2. CASE state[c] = "kConnected"
  <2>1. /\ state' = [state EXCEPT ![c] = "kDisconnected"] /\ DisableAll(c) /\ CountDown(c)
        /\ Become(l, "destroy", c)
    BY <1>2 DEF ConnectDestroyed
  <2>2. index[c] = "kAdded" => index'[c] = "kDelete"
    BY <1>1, <2>1, DisableEffect
  <2>3. /\ downs' = [downs EXCEPT ![c] = downs'[c]] /\ downs'[c] >= 1
        /\ downs[c] = 0 => downs'[c] = 1
    BY <1>1, <2>1, CountDownEffect
  <2>4. Ends(l, c)
    BY <1>1, <1>2, <2>1, <2>2, <2>3 DEF Ends, Become
  <2>5. \A d \in Conns \ {c} : Keeps(d)
    BY <1>1, <2>1, <2>3, OtherChannels DEF Keeps
  <2> QED  BY <2>4, <2>5
<1>3. CASE state[c] # "kConnected"
  <2>1. RemoveChannel(c) /\ UNCHANGED <<state, downs, pc, on>>
    BY <1>3 DEF ConnectDestroyed
  <2>2. index'[c] = "kNew"
    BY <1>1, <2>1, RemoveEffect
  <2> QED  BY <1>1, <1>3, <2>1, <2>2, OtherChannels DEF Removes, Keeps
<1> QED  BY <1>2, <1>3

\* So does sendInLoop(), where the thread may send.
LEMMA SendOnEffect ==
    ASSUME Typed, NEW l \in Loops, NEW c \in Conns, SendInLoop(l, c), UNCHANGED <<state, downs>>,
           \/ call[l].at # "none" /\ call[l].conn = c /\ l = loopOf[c]
           \/ NextFunctor(l, "send") /\ Target(l) = c /\
              (index[c] = "kNew" /\ state[c] # "kDisconnected" => c \in stray')
    PROVE  /\ Keeps(c) \/ SendsOn(c)
           /\ \A d \in Conns \ {c} : Keeps(d)
<1>1. CASE UNCHANGED pollerVars
  BY <1>1 DEF Keeps, pollerVars
<1>2. CASE state[c] # "kDisconnected" /\ EnableChannel(c)
  <2>1. index'[c] = "kAdded"
    BY <1>2, EnableEffect DEF Typed
  <2>2. SendsOn(c)
    BY <1>2, <2>1 DEF SendsOn
  <2> QED  BY <1>2, <2>2, OtherChannels DEF Keeps
<1> QED  BY <1>1, <1>2, SendEffect

\* Every step leaves a connection alone or does one of these to it.
LEMMA Changes ==
    ASSUME Typed, ThreadInv, PlaceInv, [Next]_vars, NEW c \in Conns
    PROVE  \/ Keeps(c) \/ Accepts(c) \/ Enables(c) \/ SendsOn(c) \/ Leaves(c)
           \/ \E l \in Loops : Ends(l, c) \/ Removes(l, c)
<1> DEFINE Goal == \/ Keeps(c) \/ Accepts(c) \/ Enables(c) \/ SendsOn(c) \/ Leaves(c)
                   \/ \E l \in Loops : Ends(l, c) \/ Removes(l, c)
<1> BaseLoop \in Loops
  BY DEF Loops
<1> USE DEF pollerVars, owners, rounds, thread, socket, history
<1>1. CASE UNCHANGED <<state, index, downs>>
  BY <1>1 DEF Keeps
<1>2. ASSUME NEW d \in Conns, NewConnection(d) PROVE Goal
  <2>1. /\ state[d] = "none" /\ state' = [state EXCEPT ![d] = "kConnecting"]
        /\ UNCHANGED <<index, downs>>
    BY <1>2 DEF NewConnection, Accept, Construct
  <2> QED  BY <1>2, <2>1 DEF Keeps, Accepts, Typed
<1>3. ASSUME NEW d \in Conns, DestroyConnection(d) PROVE Goal
  <2>1. CASE loopOf[d] = BaseLoop
    <3>1. MayDestroy(BaseLoop, d) /\ ConnectDestroyed(BaseLoop, d)
      BY <1>3, <2>1 DEF DestroyConnection, MayDestroy
    <3> QED  BY <3>1, DestroyedEffect
  <2>2. CASE loopOf[d] # BaseLoop
    BY <1>1, <1>3, <2>2 DEF DestroyConnection
  <2> QED  BY <2>1, <2>2
<1>4. ASSUME NEW x \in Threads, Send(x) PROVE Goal
  <2>1. call[x].at # "none" /\ call[x].conn \in Conns /\ UNCHANGED <<state, downs>>
    BY <1>4 DEF Send, Typed, Calls
  <2>2. CASE x = loopOf[call[x].conn]
    <3>1. x \in Loops /\ SendInLoop(x, call[x].conn)
      BY <1>4, <2>1, <2>2 DEF Send, Typed
    <3> QED  BY <2>1, <2>2, <3>1, SendOnEffect
  <2>3. CASE x # loopOf[call[x].conn]
    BY <1>1, <1>4, <2>3 DEF Send
  <2> QED  BY <2>2, <2>3
<1>5. ASSUME NEW x \in Threads, SetDisconnecting(x) PROVE Goal
  <2>1. /\ call[x].at # "none" /\ call[x].conn \in Conns /\ UNCHANGED <<index, downs>>
        /\ state' = [state EXCEPT ![call[x].conn] = "kDisconnecting"]
        /\ state[call[x].conn] = "kDisconnected" => call[x].conn \in stray'
    BY <1>5 DEF SetDisconnecting, Typed, Calls
  <2>2. CASE c = call[x].conn
    BY <2>1, <2>2 DEF Leaves, Typed
  <2>3. CASE c # call[x].conn
    BY <2>1, <2>3 DEF Keeps, Typed
  <2> QED  BY <2>2, <2>3
<1>6. ASSUME NEW l \in Loops, NEW d \in Conns, HandleClose(l, d) PROVE Goal
  <2>1. /\ d \in active[l] /\ pc[l] = "idle"
        /\ state' = [state EXCEPT ![d] = "kDisconnected"]
        /\ DisableAll(d) /\ CountDown(d) /\ Become(l, "down", d)
    BY <1>6 DEF HandleClose, HandleEventWithGuard, NextEvent, Dispatching, InLoop
  <2>2. index[d] = "kAdded" => index'[d] = "kDelete"
    BY <2>1, DisableEffect DEF Typed
  <2>3. downs' = [downs EXCEPT ![d] = downs'[d]] /\ downs'[d] >= 1 /\ (downs[d] = 0 => downs'[d] = 1)
    BY <2>1, CountDownEffect DEF Typed
  <2>4. pc'[l] = "down" /\ on'[l] = d
    BY <2>1 DEF Become, Typed
  <2>7. d \notin active'[l]
    BY <1>6 DEF HandleClose, HandleEventWithGuard, NextEvent, Typed
  <2>5. CASE c = d
    BY <2>1, <2>2, <2>3, <2>4, <2>5, <2>7 DEF Ends, Typed
  <2>6. CASE c # d
    BY <2>1, <2>3, <2>6, OtherChannels DEF Keeps, Typed
  <2> QED  BY <2>5, <2>6
<1>7. ASSUME NEW l \in Loops, RunSend(l) PROVE Goal
  <2>1. /\ NextFunctor(l, "send") /\ Target(l) \in Conns /\ SendInLoop(l, Target(l))
        /\ UNCHANGED <<state, downs>>
        /\ index[Target(l)] = "kNew" /\ state[Target(l)] # "kDisconnected" => Target(l) \in stray'
    BY <1>7, TargetType DEF RunSend, NextFunctor
  <2> QED  BY <2>1, SendOnEffect
<1>8. ASSUME NEW l \in Loops, RunDestroy(l) PROVE Goal
  <2>1. NextFunctor(l, "destroy") /\ ConnectDestroyed(l, Target(l))
    BY <1>8 DEF RunDestroy
  <2>2. Target(l) \in Conns /\ MayDestroy(l, Target(l))
    BY <2>1, TargetPlace DEF MayDestroy, NextFunctor, InLoop, Owning
  <2> QED  BY <2>1, <2>2, DestroyedEffect
<1>9. ASSUME NEW l \in Loops, Return(l) PROVE Goal
  <2>1. UNCHANGED <<state, downs>> /\ Become(l, "idle", NoConn)
    BY <1>9 DEF Return, CallbackReturns, CloseCallback, DestroyReturns
  <2>2. \/ UNCHANGED index
        \/ RemoveChannel(on[l]) /\ pc[l] \in {"down", "destroy"} /\ call[l].at = "none"
    BY <1>9 DEF Return, CallbackReturns, CloseCallback, DestroyReturns, ThreadInv, CanUse, Threads, Loops
  <2>3. ASSUME RemoveChannel(on[l]), pc[l] \in {"down", "destroy"}, call[l].at = "none"
        PROVE  Goal
    <3>1. on[l] \in Conns /\ pc'[l] = "idle"
      BY <2>1, <2>3 DEF Become, Typed
    <3>2. index'[on[l]] = "kNew"
      BY <2>3, <3>1, RemoveEffect DEF Typed
    <3> QED  BY <2>1, <2>3, <3>1, <3>2, OtherChannels DEF Removes, Keeps
  <2> QED  BY <1>1, <2>1, <2>2, <2>3
<1>10. ASSUME EnableReading PROVE Goal
  <2> DEFINE d == on[BaseLoop]
  <2>1. /\ pc[BaseLoop] = "enable" /\ d \in Conns /\ Become(BaseLoop, "enabled", d)
        /\ state' = [state EXCEPT ![d] = "kConnected"] /\ EnableChannel(d) /\ UNCHANGED downs
    BY <1>10 DEF EnableReading, Typed
  <2>2. index'[d] = "kAdded" /\ pc'[BaseLoop] = "enabled"
    BY <2>1, EnableEffect DEF Become, Typed
  <2> QED  BY <2>1, <2>2, OtherChannels DEF Enables, Keeps, Typed
<1>11. ASSUME NEW d \in Conns, PeerStep(d) \/ DropPointer(d)
       PROVE  Goal
  BY <1>1, <1>11 DEF PeerStep, PeerSends, PeerCloses, PeerResets, DropPointer
<1>12. ASSUME NEW x \in Threads, QueueShutdown(x) \/ \E d \in Conns : BeginCall(x, d)
       PROVE  Goal
  BY <1>1, <1>12 DEF QueueShutdown, BeginCall
<1>13. ASSUME NEW l \in Loops,
              \/ Poll(l) \/ TakeFunctors(l) \/ RunShutdown(l) \/ RunWritten(l) \/ StopLoop(l)
              \/ \E d \in Conns : SkipEvent(l, d) \/ HandleRead(l, d)
       PROVE  Goal
  BY <1>1, <1>13 DEF Poll, TakeFunctors, RunShutdown, RunWritten, StopLoop, SkipEvent, HandleRead
<1>14. ASSUME Start \/ ConnectionUp \/ RunRemove \/ KeepPointer \/ DestroyServer \/ DestroyPool
       PROVE  Goal
  BY <1>1, <1>14 DEF Start, ConnectionUp, RunRemove, KeepPointer, DestroyServer, DestroyPool
<1>15. CASE UNCHANGED vars
  BY <1>1, <1>15 DEF vars
<1> HIDE DEF pollerVars, owners, rounds, thread, socket, history
<1> QED
  BY <1>1, <1>2, <1>3, <1>4, <1>5, <1>6, <1>7, <1>8, <1>9, <1>10, <1>11, <1>12, <1>13, <1>14, <1>15
     DEF Next, CallStep, BaseStep, HandleEvent, LoopStep

\* A thread comes to a connection that has reported DOWN by reporting it.
LEMMA EndBegins ==
    ASSUME Typed, ThreadInv, PlaceInv, [Next]_vars, NEW l \in Loops, pc'[l] \in {"down", "destroy"}
    PROVE  \/ pc'[l] = pc[l] /\ on'[l] = on[l]
           \/ on'[l] \in Conns /\ Ends(l, on'[l])
<1> DEFINE Goal == \/ pc'[l] = pc[l] /\ on'[l] = on[l]
                   \/ on'[l] \in Conns /\ Ends(l, on'[l])
<1> BaseLoop \in Loops
  BY DEF Loops
<1> USE DEF pollerVars, owners, rounds, thread, socket, history
<1>1. CASE UNCHANGED <<pc, on>>
  BY <1>1
<1>2. ASSUME NEW k \in Loops, NEW where \in LoopPcs \ {"down", "destroy"}, NEW c, Become(k, where, c)
      PROVE  Goal
  BY <1>2 DEF Become, Typed
<1>3. ASSUME NEW k \in Loops, NEW c \in Conns, MayDestroy(k, c), ConnectDestroyed(k, c)
      PROVE  Goal
  <2>1. CASE state[c] = "kConnected"
    <3>1. Become(k, "destroy", c)
      BY <1>3, <2>1 DEF ConnectDestroyed
    <3>2. CASE k = l
      <4>1. on'[l] = c /\ pc'[l] = "destroy"
        BY <3>1, <3>2 DEF Become, Typed
      <4>2. Ends(l, c)
        BY <1>3, <3>2, <4>1, DestroyedEffect, <2>1 DEF Removes, MayDestroy
      <4> QED  BY <4>1, <4>2
    <3>3. CASE k # l
      BY <3>1, <3>3 DEF Become, Typed
    <3> QED  BY <3>2, <3>3
  <2>2. CASE state[c] # "kConnected"
    BY <1>1, <1>3, <2>2 DEF ConnectDestroyed
  <2> QED  BY <2>1, <2>2
<1>4. ASSUME NEW c \in Conns, NewConnection(c) PROVE Goal
  BY <1>2, <1>4 DEF NewConnection, LoopPcs
<1>5. ASSUME NEW c \in Conns, DestroyConnection(c) PROVE Goal
  <2>1. CASE loopOf[c] = BaseLoop
    BY <1>3, <1>5, <2>1 DEF DestroyConnection, MayDestroy
  <2>2. CASE loopOf[c] # BaseLoop
    BY <1>1, <1>5, <2>2 DEF DestroyConnection
  <2> QED  BY <2>1, <2>2
<1>6. ASSUME NEW k \in Loops, NEW c \in Conns, HandleRead(k, c) PROVE Goal
  BY <1>2, <1>6 DEF HandleRead, LoopPcs
<1>7. ASSUME NEW k \in Loops, NEW c \in Conns, HandleClose(k, c) PROVE Goal
  <2>1. /\ Become(k, "down", c) /\ pc[k] = "idle" /\ c \in active[k]
        /\ CountDown(c) /\ DisableAll(c) /\ state'[c] = "kDisconnected"
    BY <1>7 DEF HandleClose, HandleEventWithGuard, NextEvent, Dispatching, InLoop, Typed
  <2>2. CASE k = l
    <3>1. on'[l] = c /\ pc'[l] = "down"
      BY <2>1, <2>2 DEF Become, Typed
    <3>2. index[c] = "kAdded" => index'[c] = "kDelete"
      BY <2>1, DisableEffect DEF Typed
    <3>3. downs'[c] >= 1 /\ (downs[c] = 0 => downs'[c] = 1)
      BY <2>1, CountDownEffect DEF Typed
    <3>4. c \notin active'[l]
      BY <1>7, <2>2 DEF HandleClose, HandleEventWithGuard, NextEvent, Typed
    <3> QED  BY <2>1, <2>2, <3>1, <3>2, <3>3, <3>4 DEF Ends
  <2>3. CASE k # l
    BY <2>1, <2>3 DEF Become, Typed
  <2> QED  BY <2>2, <2>3
<1>8. ASSUME NEW k \in Loops, RunWritten(k) PROVE Goal
  BY <1>2, <1>8 DEF RunWritten, LoopPcs
<1>9. ASSUME NEW k \in Loops, RunDestroy(k) PROVE Goal
  <2>1. NextFunctor(k, "destroy") /\ ConnectDestroyed(k, Target(k))
    BY <1>9 DEF RunDestroy
  <2>2. Target(k) \in Conns /\ MayDestroy(k, Target(k))
    BY <2>1, TargetPlace DEF MayDestroy, NextFunctor, InLoop, Owning
  <2> QED  BY <1>3, <2>1, <2>2
<1>10. ASSUME NEW k \in Loops, Return(k) PROVE Goal
  <2>1. Become(k, "idle", NoConn)
    BY <1>10 DEF Return, CallbackReturns, CloseCallback, DestroyReturns
  <2> QED  BY <1>2, <2>1 DEF LoopPcs
<1>11. ASSUME NEW k \in Loops, StopLoop(k) PROVE Goal
  BY <1>11 DEF StopLoop, Typed
<1>12. ASSUME EnableReading \/ ConnectionUp PROVE Goal
  BY <1>2, <1>12 DEF EnableReading, ConnectionUp, LoopPcs
<1>13. ASSUME NEW c \in Conns, PeerStep(c) \/ DropPointer(c) PROVE Goal
  BY <1>1, <1>13 DEF PeerStep, PeerSends, PeerCloses, PeerResets, DropPointer
<1>14. ASSUME NEW x \in Threads, CallStep(x) \/ \E c \in Conns : BeginCall(x, c) PROVE Goal
  BY <1>1, <1>14 DEF CallStep, Send, SetDisconnecting, QueueShutdown, BeginCall
<1>15. ASSUME NEW k \in Loops,
              \/ Poll(k) \/ TakeFunctors(k) \/ RunSend(k) \/ RunShutdown(k)
              \/ \E c \in Conns : SkipEvent(k, c)
       PROVE  Goal
  BY <1>1, <1>15 DEF Poll, TakeFunctors, RunSend, RunShutdown, SkipEvent
<1>16. ASSUME Start \/ RunRemove \/ KeepPointer \/ DestroyServer \/ DestroyPool PROVE Goal
  BY <1>1, <1>16 DEF Start, RunRemove, KeepPointer, DestroyServer, DestroyPool
<1>17. CASE UNCHANGED vars
  BY <1>1, <1>17 DEF vars
<1> HIDE DEF pollerVars, owners, rounds, thread, socket, history
<1> QED
  BY <1>4, <1>5, <1>6, <1>7, <1>8, <1>9, <1>10, <1>11, <1>12, <1>13, <1>14, <1>15, <1>16, <1>17
     DEF Next, BaseStep, HandleEvent, LoopStep

\* A step that disables a channel finds it in epoll.
LEMMA IndexStep ==
    ASSUME Typed, PollInv, [Next]_vars
    PROVE  IndexMatchesKernel'
<1> DEFINE Goal == IndexMatchesKernel'
<1> BaseLoop \in Loops
  BY DEF Loops
<1> USE DEF owners, rounds, thread, socket, history
<1>1. CASE UNCHANGED pollerVars
  BY <1>1 DEF PollInv, IndexMatchesKernel, pollerVars
<1>2. ASSUME NEW c \in Conns, EnableChannel(c) \/ RemoveChannel(c) PROVE Goal
  BY <1>2, EnableEffect, RemoveEffect DEF PollInv
<1>3. ASSUME NEW c \in Conns, DisableAll(c), state[c] = "kConnected" \/ \E l \in Loops : c \in active[l]
      PROVE  Goal
  <2>1. index[c] = "kAdded"
    BY <1>3 DEF PollInv, StateInv, RoundInv, IndexMatchesKernel
  <2> QED  BY <1>3, <2>1, DisableEffect DEF PollInv
<1>4. ASSUME NEW c \in Conns, NEW l \in Loops, ConnectDestroyed(l, c) PROVE Goal
  BY <1>2, <1>3, <1>4 DEF ConnectDestroyed
<1>5. ASSUME NEW c \in Conns, NEW l \in Loops, SendInLoop(l, c) PROVE Goal
  BY <1>1, <1>2, <1>5, SendEffect
<1>6. ASSUME NEW c \in Conns, DestroyConnection(c) PROVE Goal
  <2>1. ConnectDestroyed(BaseLoop, c) \/ UNCHANGED pollerVars
    BY <1>6 DEF DestroyConnection
  <2> QED  BY <1>1, <1>4, <2>1
<1>7. ASSUME NEW x \in Threads, Send(x) PROVE Goal
  <2>1. call[x].conn \in Conns /\ loopOf[call[x].conn] \in Loops
    BY <1>7 DEF Send, Typed, Calls
  <2>2. UNCHANGED pollerVars \/ (x = loopOf[call[x].conn] /\ SendInLoop(x, call[x].conn))
    BY <1>7 DEF Send
  <2> QED  BY <1>1, <1>5, <2>1, <2>2
<1>8. ASSUME NEW l \in Loops, NEW c \in Conns, HandleClose(l, c) PROVE Goal
  BY <1>3, <1>8 DEF HandleClose, HandleEventWithGuard, NextEvent
<1>9. ASSUME NEW l \in Loops, RunSend(l) \/ RunDestroy(l) PROVE Goal
  <2>1. Target(l) \in Conns
    BY <1>9, TargetType DEF RunSend, RunDestroy, NextFunctor
  <2> QED  BY <1>4, <1>5, <1>9, <2>1 DEF RunSend, RunDestroy
<1>10. ASSUME NEW l \in Loops, Return(l) PROVE Goal
  <2>1. on[l] \in Conns
    BY <1>10 DEF Return, CallbackReturns, CloseCallback, DestroyReturns, Typed
  <2>2. UNCHANGED pollerVars \/ RemoveChannel(on[l])
    BY <1>10 DEF Return, CallbackReturns, CloseCallback, DestroyReturns
  <2> QED  BY <1>1, <1>2, <2>1, <2>2
<1>11. ASSUME EnableReading PROVE Goal
  <2>1. on[BaseLoop] \in Conns /\ EnableChannel(on[BaseLoop])
    BY <1>11 DEF EnableReading, Typed
  <2> QED  BY <1>2, <2>1
<1>12. ASSUME NEW c \in Conns, PeerStep(c) \/ NewConnection(c) \/ DropPointer(c) PROVE Goal
  BY <1>1, <1>12 DEF PeerStep, PeerSends, PeerCloses, PeerResets, NewConnection, DropPointer
<1>13. ASSUME NEW x \in Threads,
              SetDisconnecting(x) \/ QueueShutdown(x) \/ \E c \in Conns : BeginCall(x, c)
       PROVE  Goal
  BY <1>1, <1>13 DEF SetDisconnecting, QueueShutdown, BeginCall
<1>14. ASSUME NEW l \in Loops,
              \/ Poll(l) \/ TakeFunctors(l) \/ RunShutdown(l) \/ RunWritten(l) \/ StopLoop(l)
              \/ \E c \in Conns : SkipEvent(l, c) \/ HandleRead(l, c)
       PROVE  Goal
  BY <1>1, <1>14 DEF Poll, TakeFunctors, RunShutdown, RunWritten, StopLoop, SkipEvent, HandleRead
<1>15. ASSUME Start \/ ConnectionUp \/ RunRemove \/ KeepPointer \/ DestroyServer \/ DestroyPool
       PROVE  Goal
  BY <1>1, <1>15 DEF Start, ConnectionUp, RunRemove, KeepPointer, DestroyServer, DestroyPool
<1>16. CASE UNCHANGED vars
  BY <1>1, <1>16 DEF vars
<1> HIDE DEF owners, rounds, thread, socket, history
<1> QED
  BY <1>6, <1>7, <1>8, <1>9, <1>10, <1>11, <1>12, <1>13, <1>14, <1>15, <1>16
     DEF Next, CallStep, BaseStep, HandleEvent, LoopStep

\* A thread is inside a call that it began.
LEMMA CallBegins ==
    ASSUME Typed, [Next]_vars, NEW x \in Threads, call'[x].at # "none"
    PROVE  \/ call[x].at # "none" /\ call[x].conn = call'[x].conn
           \/ call'[x].conn \in Conns /\ BeginCall(x, call'[x].conn)
<1> USE DEF pollerVars, owners, rounds, thread, socket, history
<1>1. ASSUME NEW y \in Threads, CallStep(y)
      PROVE  call[x].at # "none" /\ call[x].conn = call'[x].conn
  BY <1>1, CallStepEffect
<1>2. ASSUME NEW y \in Threads, NEW c \in Conns, BeginCall(y, c)
      PROVE  \/ call'[x] = call[x]
             \/ call'[x].conn = c /\ BeginCall(x, c)
  <2>1. \E m \in {"send", "shutdown"} : call' = [call EXCEPT ![y] = [at |-> m, conn |-> c]]
    BY <1>2 DEF BeginCall
  <2>2. call \in [Threads -> Calls]
    BY DEF Typed
  <2>3. (x # y => call'[x] = call[x]) /\ call'[y].conn = c
    BY <2>1, <2>2
  <2> QED  BY <1>2, <2>3
<1>3. ASSUME NEW c \in Conns, PeerStep(c) \/ NewConnection(c) \/ DropPointer(c) \/ DestroyConnection(c)
      PROVE  UNCHANGED call
  BY <1>3 DEF PeerStep, PeerSends, PeerCloses, PeerResets, NewConnection, DropPointer,
              DestroyConnection
<1>4. ASSUME NEW l \in Loops,
             \/ Poll(l) \/ TakeFunctors(l) \/ \E c \in Conns : HandleEvent(l, c)
             \/ Return(l) \/ StopLoop(l)
      PROVE  UNCHANGED call
  BY <1>4 DEF Poll, TakeFunctors, HandleEvent, SkipEvent, HandleRead, HandleClose, Return,
              CallbackReturns, DestroyReturns, CloseCallback, StopLoop
<1>5. ASSUME NEW l \in Loops, RunSend(l) \/ RunShutdown(l) \/ RunWritten(l) \/ RunDestroy(l)
      PROVE  UNCHANGED call
  BY <1>5 DEF RunSend, RunShutdown, RunWritten, RunDestroy
<1>6. ASSUME Start \/ BaseStep \/ KeepPointer \/ DestroyServer \/ DestroyPool
      PROVE  UNCHANGED call
  BY <1>6 DEF Start, BaseStep, EnableReading, ConnectionUp, RunRemove, KeepPointer,
              DestroyServer, DestroyPool
<1>7. CASE UNCHANGED vars
  BY <1>7 DEF vars
<1> HIDE DEF pollerVars, owners, rounds, thread, socket, history
<1> QED
  BY <1>1, <1>2, <1>3, <1>4, <1>5, <1>6, <1>7 DEF Next, LoopStep

\* How far a loop is with its round.
LEMMA RoundChanges ==
    ASSUME Typed, [Next]_vars, NEW l \in Loops
    PROVE  /\ \/ polled'[l] = polled[l] /\ running'[l] = running[l]
              \/ polled'[l] /\ running'[l] = running[l] /\ Poll(l)
              \/ ~polled'[l] /\ active[l] = {} /\ TakeFunctors(l)
              \/ polled'[l] = polled[l] /\ running[l] # <<>> /\ InLoop(l)
           /\ \/ server' \in {"destroying", "gone"} => server \in {"destroying", "gone"}
              \/ AboutToPoll(BaseLoop) /\ UNCHANGED <<polled, running>>
<1> DEFINE Goal ==
      /\ \/ polled'[l] = polled[l] /\ running'[l] = running[l]
         \/ polled'[l] /\ running'[l] = running[l] /\ Poll(l)
         \/ ~polled'[l] /\ active[l] = {} /\ TakeFunctors(l)
         \/ polled'[l] = polled[l] /\ running[l] # <<>> /\ InLoop(l)
      /\ \/ server' \in {"destroying", "gone"} => server \in {"destroying", "gone"}
         \/ AboutToPoll(BaseLoop) /\ UNCHANGED <<polled, running>>
<1> BaseLoop \in Loops
  BY DEF Loops
<1> USE DEF pollerVars, owners, rounds, thread, socket, history
<1>1. CASE UNCHANGED <<polled, running, server>>
  BY <1>1
<1>2. ASSUME NEW k \in Loops, NEW op, NextFunctor(k, op), Pop(k), UNCHANGED server PROVE Goal
  <2>1. polled' = polled /\ running' = [running EXCEPT ![k] = Tail(running[k])]
    BY <1>2 DEF Pop
  <2>2. l # k => running'[l] = running[l]
    BY <2>1 DEF Typed
  <2> QED  BY <1>2, <2>1, <2>2 DEF NextFunctor
<1>3. ASSUME NEW k \in Loops, Poll(k) PROVE Goal
  <2>1. polled' = [polled EXCEPT ![k] = TRUE] /\ UNCHANGED <<running, server>>
    BY <1>3 DEF Poll
  <2> QED  BY <1>3, <2>1 DEF Typed
<1>4. ASSUME NEW k \in Loops, TakeFunctors(k) PROVE Goal
  <2>1. /\ polled' = [polled EXCEPT ![k] = FALSE] /\ running' = [running EXCEPT ![k] = queue[k]]
        /\ active[k] = {} /\ UNCHANGED server
    BY <1>4 DEF TakeFunctors
  <2> QED  BY <1>4, <2>1 DEF Typed
<1>5. ASSUME NEW k \in Loops, NEW c \in Conns, HandleEvent(k, c) PROVE Goal
  BY <1>1, <1>5 DEF HandleEvent, SkipEvent, HandleRead, HandleClose, HandleEventWithGuard, NextEvent
<1>6. ASSUME NEW k \in Loops, RunSend(k) \/ RunShutdown(k) \/ RunWritten(k) \/ RunDestroy(k) PROVE Goal
  BY <1>2, <1>6 DEF RunSend, RunShutdown, RunWritten, RunDestroy
<1>7. ASSUME RunRemove PROVE Goal
  BY <1>2, <1>7 DEF RunRemove
<1>8. ASSUME NEW k \in Loops, Return(k) \/ StopLoop(k) PROVE Goal
  BY <1>1, <1>8 DEF Return, CallbackReturns, CloseCallback, DestroyReturns, StopLoop
<1>9. ASSUME NEW c \in Conns, PeerStep(c) \/ NewConnection(c) \/ DropPointer(c) \/ DestroyConnection(c)
      PROVE  Goal
  BY <1>1, <1>9 DEF PeerStep, PeerSends, PeerCloses, PeerResets, NewConnection, DropPointer,
                    DestroyConnection
<1>10. ASSUME NEW x \in Threads, CallStep(x) \/ \E c \in Conns : BeginCall(x, c) PROVE Goal
  BY <1>1, <1>10 DEF CallStep, Send, SetDisconnecting, QueueShutdown, BeginCall
<1>11. ASSUME EnableReading \/ ConnectionUp \/ KeepPointer PROVE Goal
  BY <1>1, <1>11 DEF EnableReading, ConnectionUp, KeepPointer
<1>12. ASSUME Start PROVE Goal
  BY <1>12 DEF Start
<1>13. ASSUME DestroyServer \/ DestroyPool PROVE Goal
  BY <1>13 DEF DestroyServer, DestroyPool
<1>14. CASE UNCHANGED vars
  BY <1>1, <1>14 DEF vars
<1> HIDE DEF pollerVars, owners, rounds, thread, socket, history
<1> QED
  BY <1>3, <1>4, <1>5, <1>6, <1>7, <1>8, <1>9, <1>10, <1>11, <1>12, <1>13, <1>14
     DEF Next, BaseStep, LoopStep

\* A channel leaves epoll when no loop is about to dispatch it.
LEMMA RoundStep ==
    ASSUME Typed, ThreadInv, FreshInv, PlaceInv, PollInv, IndexMatchesKernel', [Next]_vars
    PROVE  RoundInv'
<1> USE DEF PollInv
<1>1. ASSUME NEW l \in Loops PROVE polled'[l] => running'[l] = <<>>
  <2>1. polled[l] => running[l] = <<>>
    BY DEF RoundInv
  <2>2. Poll(l) => running[l] = <<>>
    BY DEF Poll, AboutToPoll
  <2> QED  BY <2>1, <2>2, RoundChanges
<1>2. ASSUME NEW l \in Loops PROVE ~polled'[l] => active'[l] = {}
  <2>1. ~polled[l] => active[l] = {}
    BY DEF RoundInv
  <2>2. active'[l] \subseteq active[l] \/ polled'[l]
    BY ActiveKept DEF Poll, Typed
  <2> QED  BY <2>1, <2>2, RoundChanges
<1>3. ASSUME NEW l \in Loops, NEW c \in active'[l] PROVE c \in registered'
  <2>1. CASE Poll(l)
    BY <1>3, <2>1 DEF Poll, Ready, Typed, pollerVars
  <2>2. CASE active'[l] \subseteq active[l]
    <3>1. /\ c \in active[l] /\ c \in Conns /\ index[c] = "kAdded" /\ loopOf[c] = l
          /\ polled[l] /\ running[l] = <<>>
      BY <1>3, <2>2 DEF RoundInv, IndexMatchesKernel, PlaceInv, Typed
    <3>2. ~Unknown(c)
      BY <3>1 DEF Unknown
    <3>3. ASSUME NEW k \in Loops PROVE ~MayDestroy(k, c)
      BY <3>1 DEF MayDestroy, NextFunctor, RoundInv
    <3>4. ASSUME NEW k \in Loops PROVE ~Ends(k, c) /\ ~Removes(k, c)
      BY <1>3, <3>1, <3>3 DEF Ends, Removes, PlaceInv, RoundInv, ThreadInv
    <3>5. index'[c] = "kAdded"
      BY <3>1, <3>2, <3>4, Changes DEF Keeps, Accepts, Enables, SendsOn, Leaves
    <3> QED  BY <3>1, <3>5 DEF IndexMatchesKernel
  <2> QED  BY <2>1, <2>2, ActiveKept
<1>4. ASSUME NEW l \in Loops, pc'[l] = "down" PROVE on'[l] \notin active'[l]
  <2>1. CASE pc'[l] = pc[l] /\ on'[l] = on[l]
    <3>1. on[l] \notin active[l] /\ ~Poll(l)
      BY <1>4, <2>1 DEF RoundInv, Poll, AboutToPoll, InLoop
    <3> QED  BY <2>1, <3>1, ActiveKept
  <2>2. CASE Ends(l, on'[l])
    BY <1>4, <2>2 DEF Ends
  <2> QED  BY <1>4, <2>1, <2>2, EndBegins
<1>5. ASSUME NEW l \in Loops, pc'[l] = "destroy" PROVE ~polled'[l]
  <2>1. ~Poll(l)
    BY <1>5 DEF Poll, AboutToPoll, InLoop, thread
  <2>2. ~polled[l]
    BY <1>5, EndBegins DEF RoundInv, Ends, MayDestroy, NextFunctor
  <2> QED  BY <2>1, <2>2, RoundChanges
<1>6. ASSUME server' \in {"destroying", "gone"} PROVE ~polled'[BaseLoop] /\ running'[BaseLoop] = <<>>
  <2>1. BaseLoop \in Loops
    BY DEF Loops
  <2>2. CASE AboutToPoll(BaseLoop) /\ UNCHANGED <<polled, running>>
    BY <2>2 DEF AboutToPoll
  <2>3. CASE server \in {"destroying", "gone"}
    <3>1. ~polled[BaseLoop] /\ running[BaseLoop] = <<>> /\ ~InLoop(BaseLoop)
      BY <2>3 DEF RoundInv, InLoop
    <3>2. ~Poll(BaseLoop) /\ ~TakeFunctors(BaseLoop)
      BY <3>1 DEF Poll, TakeFunctors, AboutToPoll, Dispatching
    <3> QED  BY <2>1, <3>1, <3>2, RoundChanges
  <2> QED  BY <1>6, <2>1, <2>2, <2>3, RoundChanges
<1> QED  BY <1>1, <1>2, <1>3, <1>4, <1>5, <1>6 DEF RoundInv

\* A connection that is up is in epoll, and DOWN is reported of one that is not.
LEMMA StateStep ==
    ASSUME Typed, ThreadInv, FreshInv, PlaceInv, PollInv, [Next]_vars
    PROVE  StateInv'
<1> USE DEF PollInv
<1>1. ASSUME NEW c \in Conns, state'[c] = "kConnected" PROVE index'[c] = "kAdded" /\ downs'[c] = 0
  <2>1. state[c] = "kConnected" => index[c] = "kAdded" /\ downs[c] = 0
    BY DEF StateInv
  <2>2. Enables(c) => downs[c] = 0
    BY DEF Enables, FreshInv, Fresh, Unknown
  <2>3. ASSUME NEW l \in Loops PROVE ~Ends(l, c) /\ ~Removes(l, c)
    BY <1>1, <2>1 DEF Ends, Removes, StateInv
  <2> QED  BY <1>1, <2>1, <2>2, <2>3, Changes DEF Keeps, Accepts, Enables, SendsOn, Leaves
<1>2. ASSUME NEW l \in Loops, pc'[l] \in {"down", "destroy"}
      PROVE  state'[on'[l]] \in {"kDisconnecting", "kDisconnected"} /\ downs'[on'[l]] >= 1
  <2>1. CASE pc'[l] = pc[l] /\ on'[l] = on[l]
    <3> DEFINE c == on[l]
    <3>1. /\ c \in Conns /\ downs[c] \in 0 .. 2
          /\ state[c] \in {"kDisconnecting", "kDisconnected"} /\ downs[c] >= 1
      <4>1. pc[l] \in {"down", "destroy"}
        BY <1>2, <2>1
      <4>2. c \in Conns
        BY <4>1 DEF Typed
      <4> QED  BY <4>1, <4>2 DEF StateInv, Typed
    <3>2. ~Enables(c)
      BY <3>1 DEF Enables, FreshInv, Fresh
    <3> QED  BY <2>1, <3>1, <3>2, Changes DEF Keeps, Accepts, SendsOn, Leaves, Ends, Removes
  <2>2. CASE on'[l] \in Conns /\ Ends(l, on'[l])
    BY <2>2 DEF Ends
  <2> QED  BY <1>2, <2>1, <2>2, EndBegins
<1> QED  BY <1>1, <1>2 DEF StateInv

\* The thread of a connection's loop does not end the connection inside send()
\* or shutdown().
LEMMA CallInvStep ==
    ASSUME Typed, ThreadInv, FreshInv, PlaceInv, PollInv, [Next]_vars
    PROVE  CallInv'
<1> SUFFICES ASSUME NEW l \in Loops, call'[l].at # "none", loopOf'[call'[l].conn] = l
             PROVE  index'[call'[l].conn] = "kAdded" /\ downs'[call'[l].conn] = 0
  BY DEF CallInv
<1> USE DEF PollInv
<1> l \in Threads
  BY DEF Threads
<1> DEFINE c == call'[l].conn
<1>1. \/ call[l].at # "none" /\ call[l].conn = c
      \/ c \in Conns /\ BeginCall(l, c)
  BY CallBegins
<1>2. CASE c \in Conns /\ BeginCall(l, c)
  BY <1>2 DEF BeginCall, StateInv, pollerVars
<1>3. CASE call[l].at # "none" /\ call[l].conn = c
  <2>1. c \in Conns /\ pc[l] \in {"up", "message", "written", "down"} /\ on[l] = c
    BY <1>3 DEF Typed, Calls, ThreadInv, CanUse, Loops
  <2>2. ~Unknown(c)
    BY <1>3 DEF Unknown
  <2>3. loopOf[c] = l
    <3>1. ~NewConnection(c)
      BY <2>1, <2>2 DEF FreshInv, Fresh, NewConnection, Accept
    <3>2. \A d \in Conns : NewConnection(d) /\ d # c => loopOf'[c] = loopOf[c]
      BY <2>1 DEF NewConnection, Construct, Typed
    <3> QED  BY <3>1, <3>2, LoopKept
  <2>4. index[c] = "kAdded" /\ downs[c] = 0
    BY <1>3, <2>3 DEF CallInv
  <2>5. ASSUME NEW k \in Loops PROVE ~Ends(k, c) /\ ~Removes(k, c)
    BY <1>3, <2>1, <2>3 DEF Ends, Removes, MayDestroy, PlaceInv, ThreadInv
  <2>6. ~Accepts(c) /\ ~Enables(c)
    BY <2>1, <2>2 DEF Accepts, Enables, FreshInv, Fresh
  <2> QED  BY <2>1, <2>4, <2>5, <2>6, Changes DEF Keeps, SendsOn, Leaves
<1> QED  BY <1>1, <1>2, <1>3

\* The poller, the rounds and the states agree.
THEOREM PollHolds == Spec => []PollInv
<1>1. Init => PollInv
  <2>1. ASSUME Init PROVE IndexMatchesKernel
    BY <2>1 DEF Init, PollerInit, IndexMatchesKernel
  <2>2. ASSUME Init PROVE RoundInv /\ StateInv /\ CallInv
    BY <2>2 DEF Init, RoundInv, StateInv, CallInv, Loops, Threads
  <2> QED  BY <2>1, <2>2 DEF PollInv
<1>2. Typed /\ (ThreadInv /\ FreshInv /\ PlaceInv) /\ PollInv /\ [Next]_vars => PollInv'
  BY IndexStep, RoundStep, StateStep, CallInvStep DEF PollInv
<1> QED  BY <1>1, <1>2, TypesHold, ThreadsHold, PTL DEF Spec

\* Every variable has the values the code gives it, and a loop dispatches its
\* own channels only.
THEOREM TypeCorrect == Spec => []TypeOK
<1>1. Typed /\ PlaceInv => TypeOK
  <2>1. ASSUME Typed, PlaceInv PROVE \A l \in Loops : active[l] \subseteq {c \in Conns : loopOf[c] = l}
    BY <2>1 DEF Typed, PlaceInv
  <2>2. ASSUME Typed PROVE Queued \subseteq [op : Owning \cup Raw, conn : Conns, user : BOOLEAN]
    BY <2>2, WaitingFunctors DEF Functors
  <2> QED  BY <2>1, <2>2 DEF Typed, TypeOK, States, LoopPcs, Calls
<1> QED  BY <1>1, TypesHold, ThreadsHold, PTL

\* m_channels and the kernel's interest list have the channels that index_ says
\* they have, at every moment.
THEOREM IndexCorrect == Spec => []IndexMatchesKernel
BY PollHolds, PTL DEF PollInv

-----------------------------------------------------------------------------
(* What happens to connections_, functors and threads *)

\* Only newConnection() adds to connections_; a step that removes c is one of
\* three.
Forgets(c) ==
    \/ CloseCallback(BaseLoop) /\ on[BaseLoop] = c
    \/ RunRemove /\ Target(BaseLoop) = c
    \/ DestroyConnection(c)

\* connections_, what went astray, and whether the server lives, in a step.
LEMMA OwnerChanges ==
    ASSUME [Next]_vars
    PROVE  /\ \A c \in connections' \ connections : c \in Conns /\ NewConnection(c)
           /\ \A c \in connections \ connections' : c \in Conns => Forgets(c)
           /\ stray \subseteq stray'
           /\ Serving' => Serving
<1> DEFINE Goal ==
      /\ \A c \in connections' \ connections : c \in Conns /\ NewConnection(c)
      /\ \A c \in connections \ connections' : c \in Conns => Forgets(c)
      /\ stray \subseteq stray'
      /\ Serving' => Serving
<1> USE DEF pollerVars, owners, rounds, thread, socket, history
<1>1. CASE UNCHANGED <<connections, stray, server>>
  BY <1>1 DEF Serving
<1>2. ASSUME NEW d \in Conns, NewConnection(d) PROVE Goal
  <2>1. connections' = connections \cup {d} /\ UNCHANGED <<stray, server>>
    BY <1>2 DEF NewConnection
  <2> QED  BY <1>2, <2>1 DEF Serving
<1>3. ASSUME NEW d \in Conns, DestroyConnection(d) PROVE Goal
  <2>1. connections' = connections \ {d} /\ UNCHANGED <<stray, server>>
    BY <1>3 DEF DestroyConnection
  <2> QED  BY <1>3, <2>1 DEF Serving, Forgets
<1>4. ASSUME RunRemove PROVE Goal
  <2>1. connections' = connections \ {Target(BaseLoop)} /\ UNCHANGED <<stray, server>>
    BY <1>4 DEF RunRemove
  <2> QED  BY <1>4, <2>1 DEF Serving, Forgets
<1>5. ASSUME NEW l \in Loops, CloseCallback(l) PROVE Goal
  <2>1. UNCHANGED <<stray, server>>
    BY <1>5 DEF CloseCallback
  <2>2. connections' = connections \/ (l = BaseLoop /\ connections' = connections \ {on[BaseLoop]})
    BY <1>5 DEF CloseCallback
  <2> QED  BY <1>5, <2>1, <2>2 DEF Serving, Forgets
<1>6. ASSUME NEW x \in Threads, SetDisconnecting(x) PROVE Goal
  <2>1. stray \subseteq stray' /\ UNCHANGED <<connections, server>>
    BY <1>6 DEF SetDisconnecting
  <2> QED  BY <2>1 DEF Serving
<1>7. ASSUME NEW l \in Loops, RunSend(l) PROVE Goal
  <2>1. stray \subseteq stray' /\ UNCHANGED <<connections, server>>
    BY <1>7 DEF RunSend
  <2> QED  BY <2>1 DEF Serving
<1>8. ASSUME Start \/ DestroyServer \/ DestroyPool PROVE Goal
  <2>1. UNCHANGED <<connections, stray>> /\ (Serving' => Serving)
    BY <1>8 DEF Start, DestroyServer, DestroyPool, Serving
  <2> QED  BY <2>1
<1>9. ASSUME NEW d \in Conns, PeerStep(d) \/ DropPointer(d) PROVE Goal
  BY <1>1, <1>9 DEF PeerStep, PeerSends, PeerCloses, PeerResets, DropPointer
<1>10. ASSUME NEW x \in Threads,
              Send(x) \/ QueueShutdown(x) \/ \E d \in Conns : BeginCall(x, d)
       PROVE  Goal
  BY <1>1, <1>10 DEF Send, QueueShutdown, BeginCall
<1>11. ASSUME NEW l \in Loops,
              \/ Poll(l) \/ TakeFunctors(l) \/ RunShutdown(l) \/ RunWritten(l) \/ RunDestroy(l)
              \/ CallbackReturns(l) \/ DestroyReturns(l) \/ StopLoop(l)
       PROVE  Goal
  BY <1>1, <1>11 DEF Poll, TakeFunctors, RunShutdown, RunWritten, RunDestroy, CallbackReturns,
                     DestroyReturns, StopLoop
<1>12. ASSUME NEW l \in Loops, NEW d \in Conns, HandleEvent(l, d) PROVE Goal
  BY <1>1, <1>12 DEF HandleEvent, SkipEvent, HandleRead, HandleClose
<1>13. ASSUME EnableReading \/ ConnectionUp \/ KeepPointer PROVE Goal
  BY <1>1, <1>13 DEF EnableReading, ConnectionUp, KeepPointer
<1>14. CASE UNCHANGED vars
  BY <1>1, <1>14 DEF vars
<1> HIDE DEF pollerVars, owners, rounds, thread, socket, history
<1> QED
  BY <1>2, <1>3, <1>4, <1>5, <1>6, <1>7, <1>8, <1>9, <1>10, <1>11, <1>12, <1>13, <1>14
     DEF Next, CallStep, BaseStep, Return, LoopStep

\* A thread goes from one connection to another by way of its loop.
LEMMA ThreadChanges ==
    ASSUME Typed, [Next]_vars, NEW l \in Loops
    PROVE  \/ pc'[l] = pc[l] /\ on'[l] = on[l]
           \/ pc[l] = "idle"
           \/ /\ l = BaseLoop /\ pc[l] \in {"enable", "enabled"} /\ on'[l] = on[l]
              /\ pc'[l] \in {"enabled", "up"}
           \/ Return(l) /\ pc'[l] = "idle"
<1> DEFINE Goal ==
      \/ pc'[l] = pc[l] /\ on'[l] = on[l]
      \/ pc[l] = "idle"
      \/ /\ l = BaseLoop /\ pc[l] \in {"enable", "enabled"} /\ on'[l] = on[l]
         /\ pc'[l] \in {"enabled", "up"}
      \/ Return(l) /\ pc'[l] = "idle"
<1> BaseLoop \in Loops
  BY DEF Loops
<1> USE DEF pollerVars, owners, rounds, thread, socket, history
<1>1. CASE UNCHANGED <<pc, on>>
  BY <1>1
<1>2. ASSUME NEW k \in Loops, pc[k] = "idle", NEW where, NEW c, Become(k, where, c) PROVE Goal
  BY <1>2 DEF Become, Typed
<1>3. ASSUME NEW c \in Conns, NewConnection(c) PROVE Goal
  BY <1>2, <1>3 DEF NewConnection, Accept, Dispatching, InLoop
<1>4. ASSUME NEW k \in Loops, NEW c, pc[k] = "idle", ConnectDestroyed(k, c) PROVE Goal
  BY <1>1, <1>2, <1>4 DEF ConnectDestroyed
<1>5. ASSUME NEW c \in Conns, DestroyConnection(c) PROVE Goal
  BY <1>1, <1>4, <1>5 DEF DestroyConnection
<1>6. ASSUME NEW k \in Loops, NEW c \in Conns, HandleEvent(k, c) PROVE Goal
  BY <1>1, <1>2, <1>6 DEF HandleEvent, SkipEvent, HandleRead, HandleClose, HandleEventWithGuard,
                          NextEvent, Dispatching, InLoop
<1>7. ASSUME NEW k \in Loops, RunWritten(k) \/ RunDestroy(k) PROVE Goal
  BY <1>2, <1>4, <1>7 DEF RunWritten, RunDestroy, NextFunctor, InLoop
<1>8. ASSUME NEW k \in Loops, Return(k) PROVE Goal
  <2>1. Become(k, "idle", NoConn)
    BY <1>8 DEF Return, CallbackReturns, CloseCallback, DestroyReturns
  <2> QED  BY <1>8, <2>1 DEF Become, Typed
<1>9. ASSUME NEW k \in Loops, StopLoop(k) PROVE Goal
  <2>1. pc[k] = "idle" /\ pc' = [pc EXCEPT ![k] = "stopped"] /\ UNCHANGED on
    BY <1>9 DEF StopLoop, AboutToPoll, InLoop
  <2> QED  BY <2>1 DEF Typed
<1>10. ASSUME EnableReading \/ ConnectionUp PROVE Goal
  <2>1. /\ pc[BaseLoop] \in {"enable", "enabled"}
        /\ \E where \in {"enabled", "up"} : Become(BaseLoop, where, on[BaseLoop])
    BY <1>10 DEF EnableReading, ConnectionUp
  <2> QED  BY <2>1 DEF Become, Typed
<1>11. ASSUME NEW c \in Conns, PeerStep(c) \/ DropPointer(c) PROVE Goal
  BY <1>1, <1>11 DEF PeerStep, PeerSends, PeerCloses, PeerResets, DropPointer
<1>12. ASSUME NEW x \in Threads, CallStep(x) \/ \E c \in Conns : BeginCall(x, c) PROVE Goal
  BY <1>1, <1>12 DEF CallStep, Send, SetDisconnecting, QueueShutdown, BeginCall
<1>13. ASSUME NEW k \in Loops, Poll(k) \/ TakeFunctors(k) \/ RunSend(k) \/ RunShutdown(k) PROVE Goal
  BY <1>1, <1>13 DEF Poll, TakeFunctors, RunSend, RunShutdown
<1>14. ASSUME Start \/ RunRemove \/ KeepPointer \/ DestroyServer \/ DestroyPool PROVE Goal
  BY <1>1, <1>14 DEF Start, RunRemove, KeepPointer, DestroyServer, DestroyPool
<1>15. CASE UNCHANGED vars
  BY <1>1, <1>15 DEF vars
<1> HIDE DEF pollerVars, owners, rounds, thread, socket, history
<1> QED
  BY <1>3, <1>5, <1>6, <1>7, <1>8, <1>9, <1>10, <1>11, <1>12, <1>13, <1>14, <1>15
     DEF Next, BaseStep, LoopStep

\* A functor goes when it is run.
LEMMA FunctorRuns ==
    ASSUME Typed, RoundInv, [Next]_vars, NEW f \in Queued, f \notin Queued'
    PROVE  \E l \in Loops :
               /\ running[l] # <<>> /\ f = Head(running[l])
               /\ \/ RunSend(l) \/ RunShutdown(l) \/ RunWritten(l) \/ RunDestroy(l)
                  \/ l = BaseLoop /\ RunRemove
<1> DEFINE Goal == \E l \in Loops :
                       /\ running[l] # <<>> /\ f = Head(running[l])
                       /\ \/ RunSend(l) \/ RunShutdown(l) \/ RunWritten(l) \/ RunDestroy(l)
                          \/ l = BaseLoop /\ RunRemove
<1> BaseLoop \in Loops
  BY DEF Loops
<1> USE DEF pollerVars, owners, rounds, thread, socket, history
<1>1. PICK l \in Loops : f \in Waiting(l)
  BY QueuedWaiting
<1>2. f \notin Waiting(l)'
  BY <1>1, QueuedWaiting
<1>3. queue[l] \in Seq(Functors) /\ running[l] \in Seq(Functors)
  BY DEF Typed
<1>4. ~TakeFunctors(l)
  <2>1. SUFFICES ASSUME TakeFunctors(l) PROVE FALSE
    OBVIOUS
  <2>2. running[l] = <<>>
    BY <2>1 DEF TakeFunctors, Dispatching, RoundInv
  <2> QED  BY <2>1, <2>2, TakeEffect
<1>5. QueueKept(l) /\ RunningKept(l)
  BY <1>4, QueueChanges
<1>6. ToSet(queue[l]) \subseteq ToSet(queue'[l])
  <2>1. CASE queue'[l] = queue[l]
    BY <2>1
  <2>2. CASE queue'[l] # queue[l]
    <3>1. PICK g \in Functors : queue'[l] = Append(queue[l], g)
      BY <1>5, <2>2 DEF QueueKept
    <3> QED  BY <1>3, <3>1, AppendElements
  <2> QED  BY <2>1, <2>2
<1>7. f \in ToSet(running[l]) /\ f \notin ToSet(running'[l])
  BY <1>1, <1>2, <1>6 DEF Waiting
<1>8. running[l] # <<>> /\ running'[l] = Tail(running[l]) /\ f = Head(running[l]) /\ running'[l] # running[l]
  BY <1>3, <1>5, <1>7, TailElements DEF RunningKept
<1>9. ASSUME NEW k \in Loops, NEW op, NextFunctor(k, op), Pop(k) PROVE k = l
  BY <1>8, <1>9 DEF Pop, Typed
<1>10. ASSUME NEW k \in Loops, RunSend(k) \/ RunShutdown(k) \/ RunWritten(k) \/ RunDestroy(k)
       PROVE  Goal
  <2>1. Pop(k) /\ \E op \in {"send", "shutdown", "written", "destroy"} : NextFunctor(k, op)
    BY <1>10 DEF RunSend, RunShutdown, RunWritten, RunDestroy
  <2> QED  BY <1>8, <1>9, <1>10, <2>1
<1>11. ASSUME RunRemove PROVE Goal
  <2>1. Pop(BaseLoop) /\ NextFunctor(BaseLoop, "remove")
    BY <1>11 DEF RunRemove
  <2> QED  BY <1>8, <1>9, <1>11, <2>1
<1>12. ASSUME NEW k \in Loops, TakeFunctors(k) PROVE k = l
  BY <1>8, <1>12 DEF TakeFunctors, Typed
<1>13. ASSUME UNCHANGED running PROVE FALSE
  BY <1>8, <1>13
<1>14. ASSUME NEW c \in Conns, PeerStep(c) \/ NewConnection(c) \/ DropPointer(c) \/ DestroyConnection(c)
       PROVE  UNCHANGED running
  BY <1>14 DEF PeerStep, PeerSends, PeerCloses, PeerResets, NewConnection, DropPointer,
               DestroyConnection
<1>15. ASSUME NEW x \in Threads, CallStep(x) \/ \E c \in Conns : BeginCall(x, c)
       PROVE  UNCHANGED running
  BY <1>15 DEF CallStep, Send, SetDisconnecting, QueueShutdown, BeginCall
<1>16. ASSUME NEW k \in Loops,
              Poll(k) \/ (\E c \in Conns : HandleEvent(k, c)) \/ Return(k) \/ StopLoop(k)
       PROVE  UNCHANGED running
  BY <1>16 DEF Poll, HandleEvent, SkipEvent, HandleRead, HandleClose, HandleEventWithGuard,
               NextEvent, Return, CallbackReturns, DestroyReturns, CloseCallback, StopLoop
<1>17. ASSUME Start \/ EnableReading \/ ConnectionUp \/ KeepPointer \/ DestroyServer \/ DestroyPool
       PROVE  UNCHANGED running
  BY <1>17 DEF Start, EnableReading, ConnectionUp, KeepPointer, DestroyServer, DestroyPool
<1>18. ASSUME UNCHANGED vars PROVE UNCHANGED running
  BY <1>18 DEF vars
<1> HIDE DEF pollerVars, owners, rounds, thread, socket, history
<1> QED
  BY <1>4, <1>10, <1>11, <1>12, <1>13, <1>14, <1>15, <1>16, <1>17, <1>18 DEF Next, BaseStep, LoopStep

-----------------------------------------------------------------------------
(* No channel outlives its connection *)

\* The base loop brings up what it has put in connections_.
LEMMA EnteredStep ==
    ASSUME Typed, EnteredInv, [Next]_vars
    PROVE  EnteredInv'
<1> SUFFICES ASSUME pc'[BaseLoop] \in {"enable", "enabled", "up"}
             PROVE  on'[BaseLoop] \in connections'
  BY DEF EnteredInv
<1> BaseLoop \in Loops
  BY DEF Loops
<1>1. ASSUME pc[BaseLoop] \in {"enable", "enabled", "up"}, on'[BaseLoop] = on[BaseLoop]
      PROVE  on'[BaseLoop] \in connections'
  <2>1. on[BaseLoop] \in connections /\ on[BaseLoop] \in Conns
    BY <1>1 DEF EnteredInv, Typed
  <2>2. ~Forgets(on[BaseLoop])
    BY <1>1 DEF Forgets, CloseCallback, RunRemove, NextFunctor, InLoop, DestroyConnection
  <2> QED  BY <1>1, <2>1, <2>2, OwnerChanges
<1>2. CASE pc[BaseLoop] = "idle"
  <2> USE DEF pollerVars, owners, rounds, thread, socket, history
  <2> DEFINE Goal == on'[BaseLoop] \in connections'
  <2>1. ASSUME pc'[BaseLoop] \notin {"enable", "enabled", "up"} PROVE Goal
    BY <2>1
  <2>2. ASSUME NEW l \in Loops, NEW where \in LoopPcs \ {"enable", "enabled", "up"}, NEW c,
               Become(l, where, c)
        PROVE  Goal
    BY <1>2, <2>2 DEF Become, Typed
  <2>3. CASE UNCHANGED pc
    BY <1>2, <2>3
  <2>4. ASSUME NEW c \in Conns, NewConnection(c) PROVE Goal
    BY <2>4 DEF NewConnection, Become, Typed
  <2>5. ASSUME NEW l \in Loops, NEW c, ConnectDestroyed(l, c) PROVE Goal
    BY <2>2, <2>3, <2>5 DEF ConnectDestroyed, LoopPcs
  <2>6. ASSUME NEW c \in Conns, DestroyConnection(c) PROVE Goal
    BY <2>3, <2>5, <2>6 DEF DestroyConnection
  <2>7. ASSUME NEW l \in Loops, NEW c \in Conns, HandleEvent(l, c) PROVE Goal
    BY <2>2, <2>3, <2>7 DEF HandleEvent, SkipEvent, HandleRead, HandleClose, LoopPcs
  <2>8. ASSUME NEW l \in Loops, RunWritten(l) \/ RunDestroy(l) PROVE Goal
    BY <2>2, <2>5, <2>8 DEF RunWritten, RunDestroy, LoopPcs
  <2>9. ASSUME NEW l \in Loops, Return(l) PROVE Goal
    BY <2>2, <2>9 DEF Return, CallbackReturns, CloseCallback, DestroyReturns, LoopPcs
  <2>10. ASSUME NEW l \in Loops, StopLoop(l) PROVE Goal
    BY <1>2, <2>10 DEF StopLoop, Typed
  <2>11. ASSUME EnableReading \/ ConnectionUp PROVE Goal
    BY <1>2, <2>11 DEF EnableReading, ConnectionUp
  <2>12. ASSUME NEW c \in Conns, PeerStep(c) \/ DropPointer(c) PROVE Goal
    BY <2>3, <2>12 DEF PeerStep, PeerSends, PeerCloses, PeerResets, DropPointer
  <2>13. ASSUME NEW x \in Threads, CallStep(x) \/ \E c \in Conns : BeginCall(x, c) PROVE Goal
    BY <2>3, <2>13 DEF CallStep, Send, SetDisconnecting, QueueShutdown, BeginCall
  <2>14. ASSUME NEW l \in Loops, Poll(l) \/ TakeFunctors(l) \/ RunSend(l) \/ RunShutdown(l) PROVE Goal
    BY <2>3, <2>14 DEF Poll, TakeFunctors, RunSend, RunShutdown
  <2>15. ASSUME Start \/ RunRemove \/ KeepPointer \/ DestroyServer \/ DestroyPool PROVE Goal
    BY <2>3, <2>15 DEF Start, RunRemove, KeepPointer, DestroyServer, DestroyPool
  <2>16. CASE UNCHANGED vars
    BY <2>3, <2>16 DEF vars
  <2> HIDE DEF pollerVars, owners, rounds, thread, socket, history
  <2> QED
    BY <2>4, <2>6, <2>7, <2>8, <2>9, <2>10, <2>11, <2>12, <2>13, <2>14, <2>15, <2>16
       DEF Next, BaseStep, LoopStep
<1>3. CASE Return(BaseLoop) /\ pc'[BaseLoop] = "idle"
  BY <1>3
<1> QED  BY <1>1, <1>2, <1>3, ThreadChanges

\* What removes a channel hands over to what removes it next, or removes it.
LEMMA OwnedStep ==
    ASSUME Typed, Typed', ThreadInv, FreshInv, PlaceInv, PollInv, EnteredInv, EnteredInv',
           OwnedInv, [Next]_vars
    PROVE  OwnedInv'
<1> SUFFICES ASSUME NEW c \in Conns, c \notin stray', index'[c] # "kNew"
             PROVE  ToBeRemoved(c)'
  BY DEF OwnedInv
<1> BaseLoop \in Loops
  BY DEF Loops
<1>1. c \notin stray
  BY OwnerChanges
<1>2. ASSUME NEW l \in Loops, ConnectDestroyed(l, c) PROVE ToBeRemoved(c)'
  <2>1. state[c] = "kConnected"
    <3>1. index \in [Conns -> Indices]
      BY DEF Typed
    <3>2. ASSUME RemoveChannel(c) PROVE FALSE
      BY <3>1, <3>2, RemoveEffect
    <3> QED  BY <1>2, <3>2 DEF ConnectDestroyed
  <2>2. pc'[l] = "destroy" /\ on'[l] = c
    BY <1>2, <2>1 DEF ConnectDestroyed, Become, Typed
  <2> QED  BY <2>2 DEF ToBeRemoved
<1>3. ASSUME NEW l \in Loops, Push(l, Functor("destroy", c, BaseLoop)) PROVE ToBeRemoved(c)'
  <2> DEFINE f == Functor("destroy", c, BaseLoop)
  <2>1. f \in Functors /\ f.op = "destroy" /\ f.conn = c
    BY FunctorType DEF Owning
  <2>2. queue[l] \in Seq(Functors) /\ queue'[l] = Append(queue[l], f)
    BY <1>3 DEF Push, Typed
  <2>3. f \in ToSet(queue'[l])
    BY <2>1, <2>2, AppendElements
  <2>4. f \in Queued'
    BY <2>3, QueuedWaiting DEF Waiting
  <2> QED  BY <2>1, <2>4 DEF ToBeRemoved
<1>4. CASE index[c] # "kNew" /\ c \in connections
  <2>1. CASE c \in connections'
    BY <2>1 DEF ToBeRemoved
  <2>2. CASE CloseCallback(BaseLoop) /\ on[BaseLoop] = c
    BY <2>2, RemoveEffect DEF CloseCallback, Typed
  <2>3. CASE RunRemove /\ Target(BaseLoop) = c
    BY <1>3, <2>3 DEF RunRemove, Typed
  <2>4. CASE DestroyConnection(c)
    BY <1>2, <1>3, <2>4 DEF DestroyConnection, Typed
  <2> QED  BY <1>4, <2>1, <2>2, <2>3, <2>4, OwnerChanges DEF Forgets
<1>5. ASSUME NEW f \in Queued, f.op = "destroy", f.conn = c PROVE ToBeRemoved(c)'
  <2>1. CASE f \in Queued'
    BY <1>5, <2>1 DEF ToBeRemoved
  <2>2. CASE f \notin Queued'
    <3>1. PICK l \in Loops :
              /\ running[l] # <<>> /\ f = Head(running[l])
              /\ \/ RunSend(l) \/ RunShutdown(l) \/ RunWritten(l) \/ RunDestroy(l)
                 \/ l = BaseLoop /\ RunRemove
      BY <1>5, <2>2, FunctorRuns DEF PollInv
    <3>2. RunDestroy(l) /\ Target(l) = c
      BY <1>5, <3>1 DEF RunSend, RunShutdown, RunWritten, RunRemove, NextFunctor, Target
    <3> QED  BY <1>2, <3>2 DEF RunDestroy
  <2> QED  BY <2>1, <2>2
<1>6. ASSUME NEW l \in Loops, pc[l] = "destroy", on[l] = c PROVE ToBeRemoved(c)'
  <2>1. CASE pc'[l] = pc[l] /\ on'[l] = on[l]
    BY <1>6, <2>1 DEF ToBeRemoved
  <2>2. CASE Return(l)
    <3>1. DestroyReturns(l)
      BY <1>6, <2>2 DEF Return, CallbackReturns, CloseCallback
    <3>2. RemoveChannel(c)
      BY <1>6, <3>1 DEF DestroyReturns
    <3>3. index' = [index EXCEPT ![c] = "kNew"] /\ index \in [Conns -> Indices]
      BY <3>2, RemoveEffect DEF Typed
    <3> QED  BY <3>3
  <2> QED  BY <1>6, <2>1, <2>2, ThreadChanges
<1>7. CASE index[c] # "kNew"
  BY <1>1, <1>4, <1>5, <1>6, <1>7 DEF OwnedInv, ToBeRemoved
<1>8. CASE index[c] = "kNew"
  <2>1. ASSUME NEW l \in Loops PROVE c \notin active[l]
    BY <1>8 DEF PollInv, RoundInv, IndexMatchesKernel
  <2>2. state[c] # "kConnected"
    BY <1>8 DEF PollInv, StateInv
  <2>3. ASSUME NEW x \in Loops, call[x].at # "none", call[x].conn = c PROVE x # loopOf[c]
    BY <1>8, <2>3 DEF PollInv, CallInv
  <2>4. Enables(c)
    BY <1>8, <2>1, <2>2, <2>3, Changes DEF Keeps, Accepts, SendsOn, Leaves, Ends, Removes
  <2>5. c \in connections
    BY <2>4 DEF Enables, EnteredInv
  <2>6. ~Forgets(c)
    BY <2>4 DEF Enables, Forgets, CloseCallback, RunRemove, NextFunctor, InLoop, DestroyConnection
  <2> QED  BY <2>5, <2>6, OwnerChanges DEF ToBeRemoved
<1> QED  BY <1>7, <1>8

\* Whatever has a channel in epoll also sees to its removal.
THEOREM OwnedHolds == Spec => [](EnteredInv /\ OwnedInv)
<1>1. Init => EnteredInv /\ OwnedInv
  BY DEF Init, PollerInit, EnteredInv, OwnedInv, Loops
<1>2. /\ Typed /\ Typed' /\ (ThreadInv /\ FreshInv /\ PlaceInv) /\ PollInv
      /\ EnteredInv /\ OwnedInv /\ [Next]_vars
      => EnteredInv' /\ OwnedInv'
  BY EnteredStep, OwnedStep
<1> QED  BY <1>1, <1>2, TypesHold, ThreadsHold, PollHolds, PTL DEF Spec

\* When the last shared_ptr of a connection goes, no epoll instance and no list
\* of active channels has its channel.
THEOREM NoDangling == Spec => []NoDanglingChannel
<1>1. Typed /\ PollInv /\ OwnedInv => NoDanglingChannel
  <2> SUFFICES ASSUME Typed, PollInv, OwnedInv, NEW c \in Conns, ~Referenced(c), c \notin stray
               PROVE  /\ c \notin registered \cup channels
                      /\ \A l \in Loops : c \notin active[l]
    BY DEF NoDanglingChannel
  <2>1. ~ToBeRemoved(c)
    BY DEF ToBeRemoved, Referenced, Owning
  <2>2. index[c] = "kNew"
    BY <2>1 DEF OwnedInv
  <2> QED  BY <2>2 DEF PollInv, IndexMatchesKernel, RoundInv
<1> QED  BY <1>1, TypesHold, PollHolds, OwnedHolds, PTL

-----------------------------------------------------------------------------
(* DOWN comes once, and before the end *)

\* A connection that has reported DOWN is left alone.
LEMMA DownStep ==
    ASSUME Typed, ThreadInv, FreshInv, PlaceInv, PollInv, DownInv, [Next]_vars
    PROVE  DownInv'
<1> SUFFICES ASSUME NEW c \in Conns, c \notin stray'
             PROVE  \/ downs'[c] = 0
                    \/ downs'[c] = 1 /\ state'[c] = "kDisconnected" /\ index'[c] # "kAdded"
  BY DEF DownInv
<1>1. /\ c \notin stray
      /\ downs[c] = 0 \/ (downs[c] = 1 /\ state[c] = "kDisconnected" /\ index[c] # "kAdded")
  BY OwnerChanges DEF DownInv
<1>2. ASSUME NEW l \in Loops, Ends(l, c) PROVE index[c] = "kAdded"
  BY <1>2 DEF Ends, PollInv, StateInv, RoundInv, IndexMatchesKernel
<1>3. Enables(c) => state[c] = "kConnecting" /\ downs[c] = 0
  BY DEF Enables, FreshInv, Fresh, Unknown
<1> QED
  BY <1>1, <1>2, <1>3, Changes DEF Keeps, Accepts, Enables, SendsOn, Leaves, Ends, Removes

\* After DOWN a connection that is not astray stays as handleClose() or
\* connectDestroyed() left it.
THEOREM DownHolds == Spec => []DownInv
<1>1. Init => DownInv
  BY DEF Init, DownInv
<1>2. /\ Typed /\ (ThreadInv /\ FreshInv /\ PlaceInv) /\ PollInv /\ DownInv /\ [Next]_vars
      => DownInv'
  BY DownStep
<1> QED  BY <1>1, <1>2, TypesHold, ThreadsHold, PollHolds, PTL DEF Spec

\* A connection reports DOWN at most once.
THEOREM DownOnce == Spec => []DownAtMostOnce
<1>1. DownInv => DownAtMostOnce
  <2> SUFFICES ASSUME DownInv, NEW c \in Conns \ stray PROVE downs[c] <= 1
    BY DEF DownAtMostOnce
  <2>1. downs[c] = 0 \/ downs[c] = 1
    BY DEF DownInv
  <2> QED  BY <2>1
<1> QED  BY <1>1, DownHolds, PTL

\* A connection leaves connections_ after its DOWN, unless the server goes.
LEMMA SawStep ==
    ASSUME Typed, Typed', ThreadInv, FreshInv, PlaceInv, PollInv, SawInv, [Next]_vars
    PROVE  SawInv'
<1> BaseLoop \in Loops
  BY DEF Loops
<1>1. ASSUME NEW c \in Conns, downs[c] >= 1 PROVE downs'[c] >= 1
  <2>1. ~Accepts(c) \/ downs'[c] = downs[c]
    BY DEF Accepts
  <2> QED  BY <1>1, <2>1, Changes DEF Keeps, Accepts, Enables, SendsOn, Leaves, Ends, Removes
<1>2. ASSUME NEW f \in Queued', f.op = "remove" PROVE downs'[f.conn] >= 1
  <2>1. f \in Functors /\ f.conn \in Conns
    <3>1. Queued' \subseteq Functors
      BY QueuedTyped
    <3> QED  BY <1>2, <3>1 DEF Functors
  <2>2. CASE f \in Queued
    BY <1>1, <1>2, <2>1, <2>2 DEF SawInv
  <2>3. CASE f \notin Queued
    <3>1. PICK l \in Loops : f \in Waiting(l)'
      BY <1>2, QueuedWaiting
    <3>2. f \notin Waiting(l)
      BY <2>3, QueuedWaiting
    <3>3. PushedBy(l, f)
      BY <3>1, <3>2, Pushed
    <3>4. PICK k \in Loops : pc[k] = "down" /\ f.conn = on[k]
      BY <1>2, <3>3 DEF PushedBy
    <3>5. downs[f.conn] >= 1
      BY <3>4 DEF PollInv, StateInv
    <3> QED  BY <1>1, <2>1, <3>5
  <2> QED  BY <2>2, <2>3
<1>3. ASSUME Serving', NEW c \in Conns, state'[c] # "none", c \notin connections' PROVE downs'[c] >= 1
  <2>1. Serving
    BY <1>3, OwnerChanges
  <2>2. CASE c \in connections
    <3>1. CASE CloseCallback(BaseLoop) /\ on[BaseLoop] = c
      BY <1>1, <3>1 DEF CloseCallback, PollInv, StateInv
    <3>2. CASE RunRemove /\ Target(BaseLoop) = c
      <4>1. Head(running[BaseLoop]) \in Queued /\ Head(running[BaseLoop]).op = "remove"
        BY <3>2, TargetType, WaitingFunctors DEF RunRemove, NextFunctor
      <4> QED  BY <1>1, <3>2, <4>1 DEF SawInv, Target
    <3>3. CASE DestroyConnection(c)
      BY <2>1, <3>3 DEF Serving, DestroyConnection
    <3> QED  BY <1>3, <2>2, <3>1, <3>2, <3>3, OwnerChanges DEF Forgets
  <2>3. CASE c \notin connections /\ state[c] # "none"
    BY <1>1, <2>1, <2>3 DEF SawInv
  <2>4. CASE state[c] = "none"
    <3>1. ~Enables(c) /\ ~Leaves(c)
      BY <2>4 DEF Enables, Leaves, FreshInv, Fresh, Unknown
    <3>2. ~Accepts(c)
      BY <1>3 DEF Accepts, NewConnection
    <3> QED  BY <1>3, <2>4, <3>1, <3>2, Changes DEF Keeps, SendsOn, Ends, Removes
  <2> QED  BY <2>2, <2>3, <2>4
<1> QED  BY <1>2, <1>3 DEF SawInv

\* connections_ has every connection that is yet to report DOWN.
THEOREM SawHolds == Spec => []SawInv
<1>1. Init => SawInv
  <2>1. ASSUME Init PROVE Queued = {}
    BY <2>1, NoElements, QueuedWaiting DEF Init, Waiting
  <2> QED  BY <2>1 DEF Init, SawInv
<1>2. /\ Typed /\ Typed' /\ (ThreadInv /\ FreshInv /\ PlaceInv) /\ PollInv /\ SawInv /\ [Next]_vars
      => SawInv'
  BY SawStep
<1> QED  BY <1>1, <1>2, TypesHold, ThreadsHold, PollHolds, PTL DEF Spec

\* While the server lives, a connection is destroyed only after its DOWN.
THEOREM DestroyedDown == Spec => []DestroyedSawDown
<1>1. SawInv => DestroyedSawDown
  BY DEF SawInv, Serving, DestroyedSawDown, Referenced
<1> QED  BY <1>1, SawHolds, PTL

-----------------------------------------------------------------------------
(* Functors that do not own their connection *)

\* Appending a functor that borrows nothing leaves the others followed, and
\* a destruction follows them all.
LEMMA FollowedAppend ==
    ASSUME NEW s \in Seq(Functors), NEW f \in Functors, NEW c
    PROVE  /\ HasDestroy(s, c) => HasDestroy(Append(s, f), c)
           /\ Followed(s, c) /\ ~Borrows(f, c) => Followed(Append(s, f), c)
           /\ IsDestroy(f, c) => Followed(Append(s, f), c) /\ HasDestroy(Append(s, f), c)
<1> DEFINE t == Append(s, f)
<1>1. /\ Len(s) \in Nat /\ DOMAIN s = 1 .. Len(s) /\ DOMAIN t = 1 .. (Len(s) + 1)
      /\ \A i \in 1 .. Len(s) : t[i] = s[i]
      /\ t[Len(s) + 1] = f
  BY AppendProperties, LenProperties
<1>2. \A i \in DOMAIN t : i \in DOMAIN s \/ i = Len(s) + 1
  BY <1>1
<1>3. \A i \in DOMAIN s : i \in DOMAIN t /\ t[i] = s[i] /\ Len(s) + 1 > i
  BY <1>1
<1>4. Len(s) + 1 \in DOMAIN t
  BY <1>1
<1> HIDE DEF t
<1>5. HasDestroy(s, c) => HasDestroy(t, c)
  BY <1>3 DEF HasDestroy
<1>6. Followed(s, c) /\ ~Borrows(f, c) => Followed(t, c)
  <2> SUFFICES ASSUME Followed(s, c), ~Borrows(f, c), NEW i \in DOMAIN t, Borrows(t[i], c)
               PROVE  \E j \in DOMAIN t : j > i /\ IsDestroy(t[j], c)
    BY DEF Followed
  <2>1. i \in DOMAIN s
    BY <1>1, <1>2
  <2>2. PICK j \in DOMAIN s : j > i /\ IsDestroy(s[j], c)
    BY <1>3, <2>1 DEF Followed
  <2> QED  BY <1>3, <2>2
<1>7. ASSUME IsDestroy(f, c) PROVE Followed(t, c) /\ HasDestroy(t, c)
  <2>1. HasDestroy(t, c)
    BY <1>1, <1>4, <1>7 DEF HasDestroy
  <2>2. ASSUME NEW i \in DOMAIN t, Borrows(t[i], c)
        PROVE  \E j \in DOMAIN t : j > i /\ IsDestroy(t[j], c)
    <3>1. i # Len(s) + 1
      BY <1>1, <1>7, <2>2 DEF Borrows, IsDestroy, Raw
    <3> QED  BY <1>1, <1>2, <1>3, <1>4, <1>7, <2>2, <3>1
  <2> QED  BY <2>1, <2>2 DEF Followed
<1> QED  BY <1>5, <1>6, <1>7 DEF t

\* What follows a functor is not the head.
LEMMA FollowedTail ==
    ASSUME NEW s \in Seq(Functors), s # <<>>, NEW c, Followed(s, c)
    PROVE  Followed(Tail(s), c)
<1> DEFINE t == Tail(s)
<1>1. /\ Len(s) \in Nat \ {0} /\ DOMAIN s = 1 .. Len(s) /\ DOMAIN t = 1 .. (Len(s) - 1)
      /\ \A i \in 1 .. (Len(s) - 1) : t[i] = s[i + 1]
  BY HeadTailProperties, LenProperties, EmptySeq
<1> HIDE DEF t
<1> SUFFICES ASSUME NEW i \in DOMAIN t, Borrows(t[i], c)
             PROVE  \E j \in DOMAIN t : j > i /\ IsDestroy(t[j], c)
  BY DEF Followed, t
<1>2. i + 1 \in DOMAIN s /\ t[i] = s[i + 1] /\ i \in Nat
  BY <1>1
<1>3. PICK j \in DOMAIN s : j > i + 1 /\ IsDestroy(s[j], c)
  BY <1>2 DEF Followed
<1>4. j - 1 \in DOMAIN t /\ t[j - 1] = s[j] /\ j - 1 > i
  BY <1>1, <1>2, <1>3
<1> QED  BY <1>3, <1>4

\* The destruction is queued last, and nothing that borrows after it.
LEMMA BehindStep ==
    ASSUME Typed, ThreadInv, FreshInv, PlaceInv, PollInv, EnteredInv, SawInv, BehindInv, [Next]_vars
    PROVE  BehindInv'
<1> SUFFICES ASSUME Serving', NEW c \in Conns \ connections', loopOf'[c] # BaseLoop
             PROVE  Behind(c)'
  BY DEF BehindInv
<1> DEFINE l == loopOf[c]
<1> BaseLoop \in Loops
  BY DEF Loops
<1>1. Serving
  BY OwnerChanges
<1>2. loopOf'[c] = l /\ l \in Loops
  <2>1. ASSUME NEW d \in Conns, NewConnection(d) PROVE loopOf'[c] = loopOf[c]
    BY <2>1 DEF NewConnection, Construct, Typed
  <2> QED  BY <2>1, LoopKept DEF Typed
<1>3. queue[l] \in Seq(Functors) /\ running[l] \in Seq(Functors)
  BY <1>2 DEF Typed
<1> SUFFICES /\ Followed(queue'[l], c)
             /\ Followed(running'[l], c) \/ HasDestroy(queue'[l], c)
  BY <1>2 DEF Behind
<1>4. CASE c \in connections
  <2>1. ~CloseCallback(BaseLoop) \/ on[BaseLoop] # c
    BY <1>2 DEF CloseCallback, ThreadInv
  <2>2. RunRemove /\ Target(BaseLoop) = c
    BY <1>1, <1>4, <2>1, OwnerChanges DEF Forgets, DestroyConnection, Serving
  <2>3. queue'[l] = Append(queue[l], Functor("destroy", c, BaseLoop))
    BY <1>2, <2>2 DEF RunRemove, Push, Typed
  <2>4. /\ Functor("destroy", c, BaseLoop) \in Functors
        /\ IsDestroy(Functor("destroy", c, BaseLoop), c)
    BY FunctorType DEF IsDestroy, Owning
  <2> QED  BY <1>3, <2>3, <2>4, FollowedAppend
<1>5. CASE c \notin connections
  <2>1. Followed(queue[l], c) /\ (Followed(running[l], c) \/ HasDestroy(queue[l], c))
    BY <1>1, <1>2, <1>5 DEF BehindInv, Behind
  <2>2. ASSUME NEW x \in Threads \ Users PROVE call[x].conn # c
    <3> SUFFICES ASSUME call[x].conn = c PROVE FALSE
      OBVIOUS
    <3>1. x \in Loops /\ call[x].at # "none" /\ CanUse(x, c)
      BY <2>2 DEF Threads, Typed, ThreadInv
    <3>2. on[x] = c /\ pc[x] \in {"up", "message", "written", "down"}
      BY <2>2, <3>1 DEF CanUse
    <3>3. state[c] # "none"
      BY DEF FreshInv, Fresh, Unknown
    <3>4. downs[c] >= 1 /\ downs[c] # 0
      BY <1>1, <1>5, <3>3 DEF SawInv
    <3>5. x # loopOf[c]
      BY <3>1, <3>4 DEF PollInv, CallInv
    <3>6. pc[x] = "up" /\ x = BaseLoop
      BY <3>1, <3>2, <3>5 DEF ThreadInv
    <3> QED  BY <1>5, <3>2, <3>6 DEF EnteredInv
  <2>3. ASSUME NEW f, PushedBy(l, f) PROVE ~Borrows(f, c)
    BY <2>2, <2>3 DEF PushedBy, Borrows, Raw
  <2>4. CASE TakeFunctors(l) /\ running'[l] = queue[l] /\ queue'[l] = <<>>
    <3>1. Followed(<<>>, c)
      BY DEF Followed
    <3> QED  BY <2>1, <2>4, <3>1
  <2>5. CASE QueueKept(l) /\ RunningKept(l)
    <3>1. Followed(queue'[l], c) /\ (HasDestroy(queue[l], c) => HasDestroy(queue'[l], c))
      <4>1. CASE queue'[l] = queue[l]
        BY <2>1, <4>1
      <4>2. ASSUME NEW f \in Functors, queue'[l] = Append(queue[l], f), PushedBy(l, f)
            PROVE  Followed(queue'[l], c) /\ (HasDestroy(queue[l], c) => HasDestroy(queue'[l], c))
        BY <1>3, <2>1, <2>3, <4>2, FollowedAppend
      <4> QED  BY <2>5, <4>1, <4>2 DEF QueueKept
    <3>2. Followed(running[l], c) => Followed(running'[l], c)
      BY <1>3, <2>5, FollowedTail DEF RunningKept
    <3> QED  BY <2>1, <3>1, <3>2
  <2> QED  BY <1>2, <2>4, <2>5, QueueChanges
<1> QED  BY <1>4, <1>5

\* Behind every functor that borrows a connection no longer in connections_
\* its destruction is queued.
THEOREM BehindHolds == Spec => []BehindInv
<1>1. Init => BehindInv
  <2>1. ASSUME NEW c PROVE Followed(<<>>, c)
    BY DEF Followed
  <2> QED  BY <2>1 DEF Init, BehindInv, Behind
<1>2. /\ Typed /\ (ThreadInv /\ FreshInv /\ PlaceInv) /\ PollInv /\ (EnteredInv /\ OwnedInv) /\ SawInv
      /\ BehindInv /\ [Next]_vars
      => BehindInv'
  BY BehindStep
<1> QED  BY <1>1, <1>2, TypesHold, ThreadsHold, PollHolds, OwnedHolds, SawHolds, PTL DEF Spec

\* A functor that a loop's own callback queued by send() or shutdown() finds its
\* connection alive in an io loop, while the server lives.
THEOREM FunctorsAlive == Spec => []LoopFunctorsAlive
<1>1. Typed /\ PlaceInv /\ BehindInv => LoopFunctorsAlive
  <2> SUFFICES ASSUME Typed, PlaceInv, BehindInv,
                      NEW f \in Queued, server = "up", f.op \in Raw, ~f.user,
                      loopOf[f.conn] # BaseLoop
               PROVE  Referenced(f.conn)
    BY DEF LoopFunctorsAlive
  <2> DEFINE c == f.conn
             l == loopOf[c]
  <2>1. CASE c \in connections
    BY <2>1 DEF Referenced
  <2>2. CASE c \notin connections
    <3>1. PICK k \in Loops : f \in Waiting(k)
      BY QueuedWaiting
    <3>2. k = l /\ c \in Conns
      BY <3>1, WaitingFunctors DEF PlaceInv, InPlace, Functors, Raw
    <3>3. Followed(queue[l], c) /\ (Followed(running[l], c) \/ HasDestroy(queue[l], c))
      BY <2>2, <3>2 DEF BehindInv, Behind, Serving
    <3>4. queue[l] \in Seq(Functors) /\ running[l] \in Seq(Functors)
      BY <3>1, <3>2 DEF Typed
    <3>5. \A s \in Seq(Functors) : ToSet(s) = {s[i] : i \in DOMAIN s}
      BY LenProperties DEF ToSet
    <3>6. Borrows(f, c)
      BY DEF Borrows
    <3>7. \A s \in Seq(Functors) : Followed(s, c) /\ f \in ToSet(s) => HasDestroy(s, c)
      BY <3>5, <3>6 DEF Followed, HasDestroy
    <3>8. HasDestroy(queue[l], c) \/ HasDestroy(running[l], c)
      BY <3>1, <3>2, <3>3, <3>4, <3>7 DEF Waiting
    <3>9. PICK g \in ToSet(queue[l]) \cup ToSet(running[l]) : IsDestroy(g, c)
      BY <3>4, <3>5, <3>8 DEF HasDestroy
    <3>10. g \in Queued
      BY <3>1, <3>2, <3>9, QueuedWaiting DEF Waiting
    <3> QED  BY <3>9, <3>10 DEF Referenced, IsDestroy, Owning
  <2> QED  BY <2>1, <2>2
<1> QED  BY <1>1, TypesHold, ThreadsHold, BehindHolds, PTL
=============================================================================
