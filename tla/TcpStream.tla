------------------------------ MODULE TcpStream ------------------------------
(***************************************************************************)
(* The bytes that go through a TcpConnection: from the socket through      *)
(* inputBuffer_ to the message callback, and from send() to the socket,    *)
(* with shutdown() behind them.                                            *)
(*                                                                         *)
(* TcpServer.tla has the threads, the life of a connection, resets and the *)
(* callbacks that sendInLoop() queues, and no bytes; here is one           *)
(* connection that is up, its io loop, another thread that keeps a         *)
(* TcpConnectionPtr, and an application that echoes.  connectDestroyed()   *)
(* is TcpServer's: here the connection goes on after the other side has    *)
(* closed it.                                                              *)
(* The bytes the other side sends are 1, 2, 3, ...; those that come from   *)
(* the other thread are numbered on from MaxBytes + 1.                     *)
(***************************************************************************)
EXTENDS Buffer, FiniteSetsExt, SequencesExt

CONSTANTS
    MaxBytes,       \* bound on what the other side sends
    MaxUserBytes,   \* bound on what the other thread sends
    SendSpace       \* capacity of the socket's send buffer

ASSUME TcpStreamAssumption ==
    {MaxBytes, MaxUserBytes, SendSpace} \subseteq Nat

VARIABLES
    state,          \* state_: kConnected, kDisconnecting, kDisconnected
    inputBuffer,    \* inputBuffer_
    outputBuffer,   \* outputBuffer_
    watched,        \* channel_ is in epoll
    pc,             \* the io loop's thread: idle, in the callback message,
                    \* there behind send() (replied), or in shutdown():
                    \* behind its test of state_ or its setState() (queue)
    call,           \* the other thread: none, or behind the test of state_ in
                    \* send or shutdown, or behind setState() (queue)
    functors,       \* the io loop's functors
    sent,           \* how much the other side has sent
    received,       \* socket: not read yet
    free,           \* socket: room in the send buffer
    wire,           \* socket: all that write() took
    fin,            \* socket: shutdownWrite() was called
    delivered,      \* history: what the application has retrieved
    echoed,         \* history: what it has passed to send()
    promised,       \* history: what the other thread's send() has queued while
                    \* state_ was kConnected
    userSent,       \* history: how much the other thread has passed to send()
    spilled,        \* history: what went through extrabuf
    down,           \* history: handleClose() has run
    unsent          \* history: what a write() did not take for lack of room

socket == <<received, free, wire, fin>>
history == <<delivered, echoed, promised, userSent, spilled, down, unsent>>
vars == <<state, inputBuffer, outputBuffer, watched, pc, call, functors, sent, socket, history>>

PeerBytes == 0 .. MaxBytes
UserBytes == Nat \ PeerBytes

Init ==
    /\ state = "kConnected" /\ pc = "idle" /\ call = "none" /\ watched = TRUE
    /\ inputBuffer = NewBuffer /\ outputBuffer = NewBuffer
    /\ functors = <<>>
    /\ sent = 0
    /\ received = <<>> /\ free = SendSpace /\ wire = <<>> /\ fin = FALSE
    /\ delivered = <<>> /\ echoed = <<>> /\ promised = <<>> /\ userSent = 0
    /\ spilled = {} /\ down = FALSE /\ unsent = {}

-----------------------------------------------------------------------------
(* The other side *)

PeerSends ==
    /\ ~down /\ sent < MaxBytes
    /\ sent' = sent + 1
    /\ received' = Append(received, sent')
    /\ UNCHANGED <<state, inputBuffer, outputBuffer, watched, pc, call, functors, free, wire,
                   fin, history>>

\* What was written leaves the send buffer.
PeerReads ==
    /\ free < SendSpace
    /\ free' = SendSpace
    /\ UNCHANGED <<state, inputBuffer, outputBuffer, watched, pc, call, functors, sent,
                   received, wire, fin, history>>

-----------------------------------------------------------------------------
(* Sending *)

Queue(f) == functors' = Append(functors, f)

\* The functor of op, with the bytes it has a copy of.
Functor(op, s) == [op |-> op, bytes |-> s]

\* sendInLoop() gives up unless state_ is kConnected.
FaultSendInLoop(s) ==
    IF state # "kConnected" \/ fin
    THEN UNCHANGED <<outputBuffer, watched, free, wire, unsent>>
    ELSE LET nwrote == Min({Len(s), free})
         IN  /\ wire' = wire \o SubSeq(s, 1, nwrote)
             /\ free' = free - nwrote
             /\ outputBuffer' = AppendBytes(outputBuffer, SubSeq(s, nwrote + 1, Len(s)))
             /\ watched' = (watched \/ nwrote < Len(s))
             /\ unsent' = unsent \cup ToSet(SubSeq(s, nwrote + 1, Len(s)))

\* sendInLoop(): write() takes what there is room for (nothing after FIN, which
\* is EPIPE).  outputBuffer_ gets the rest, behind its writer, and channel_ is
\* enabled for reading, even one that handleClose() has disabled.
SendInLoop(s) ==
    LET nwrote == IF ReadableBytes(outputBuffer) = 0 THEN Min({Len(s), free}) ELSE 0
        remaining == SubSeq(s, nwrote + 1, Len(s))
    IN  IF state = "kDisconnected" \/ fin
        THEN UNCHANGED <<outputBuffer, watched, free, wire, unsent>>
        ELSE /\ wire' = wire \o SubSeq(s, 1, nwrote)
             /\ free' = free - nwrote
             /\ outputBuffer' = AppendBytes(outputBuffer, remaining)
             /\ watched' = (watched \/ remaining # <<>>)
             /\ unsent' = unsent \cup ToSet(remaining)

\* The message callback calls send(&inputBuffer_): in place, and then
\* retrieveAll(); nothing happens unless state_ is kConnected.
SendBuffer ==
    /\ pc = "message" /\ state = "kConnected"
    /\ pc' = "replied"
    /\ SendInLoop(Content(inputBuffer))
    /\ inputBuffer' = RetrieveAll(inputBuffer)
    /\ delivered' = delivered \o Content(inputBuffer)
    /\ echoed' = echoed \o Content(inputBuffer)
    /\ UNCHANGED <<state, call, functors, sent, received, fin, promised, userSent, spilled,
                   down>>

\* The other thread calls send() or shutdown(): if (state_ == kConnected) ...
UserCalls ==
    /\ call = "none" /\ state = "kConnected"
    /\ call' \in {"send", "shutdown"}
    /\ call' = "send" => userSent < MaxUserBytes
    /\ UNCHANGED <<state, inputBuffer, outputBuffer, watched, pc, functors, sent, socket,
                   history>>

\* ... runInLoop(), with a copy of what its Buffer had: one byte, or two.
UserQueues ==
    /\ call = "send" /\ call' = "none"
    /\ \E n \in 1 .. Min({2, MaxUserBytes - userSent}) :
           LET s == [i \in 1 .. n |-> MaxBytes + userSent + i]
           IN  /\ Queue(Functor("send", s))
               /\ userSent' = userSent + n
               /\ promised' = IF state = "kConnected" THEN promised \o s ELSE promised
    /\ UNCHANGED <<state, inputBuffer, outputBuffer, watched, pc, sent, socket, delivered,
                   echoed, spilled, down, unsent>>

\* ... setState(kDisconnecting), whatever state_ is by now ...
UserSetsDisconnecting ==
    /\ call = "shutdown" /\ call' = "queue"
    /\ state' = "kDisconnecting"
    /\ UNCHANGED <<inputBuffer, outputBuffer, watched, pc, functors, sent, socket, history>>

\* ... and queueInLoop(shutdownInLoop).
UserQueuesShutdown ==
    /\ call = "queue" /\ call' = "none"
    /\ Queue(Functor("shutdown", <<>>))
    /\ UNCHANGED <<state, inputBuffer, outputBuffer, watched, pc, sent, socket, history>>

\* The message callback calls shutdown(): the same steps, and it returns.
LoopShutdown ==
    /\ pc \in {"message", "replied"} /\ state = "kConnected"
    /\ pc' = "shutdown"
    /\ UNCHANGED <<state, inputBuffer, outputBuffer, watched, call, functors, sent, socket,
                   history>>

LoopSetsDisconnecting ==
    /\ pc = "shutdown" /\ pc' = "queue"
    /\ state' = "kDisconnecting"
    /\ UNCHANGED <<inputBuffer, outputBuffer, watched, call, functors, sent, socket, history>>

\* shutdownInLoop() is run in place by the loop's own thread.
FaultLoopQueuesShutdown ==
    /\ pc = "queue" /\ pc' = "idle"
    /\ fin' = TRUE
    /\ UNCHANGED <<state, inputBuffer, outputBuffer, watched, call, functors, sent, received,
                   free, wire, history>>

LoopQueuesShutdown ==
    /\ pc = "queue" /\ pc' = "idle"
    /\ Queue(Functor("shutdown", <<>>))
    /\ UNCHANGED <<state, inputBuffer, outputBuffer, watched, call, sent, socket, history>>

-----------------------------------------------------------------------------
(* The io loop *)

\* handleRead(), up to the message callback.
HandleRead ==
    /\ pc = "idle" /\ watched /\ received # <<>>
    /\ LET n == Min({Len(received), ReadSpace(inputBuffer)})
           s == SubSeq(received, 1, n)
       IN  /\ inputBuffer' = ReadFd(inputBuffer, s)
           /\ received' = SubSeq(received, n + 1, Len(received))
           /\ spilled' = spilled \cup Spilled(inputBuffer, s)
    /\ pc' = "message"
    /\ UNCHANGED <<state, outputBuffer, watched, call, functors, sent, free, wire, fin,
                   delivered, echoed, promised, userSent, down, unsent>>

\* The other side has closed, and handleRead() reads nothing: handleClose().
HandleClose ==
    /\ pc = "idle" /\ watched /\ received = <<>>
    /\ state' = "kDisconnected" /\ watched' = FALSE /\ down' = TRUE
    /\ UNCHANGED <<inputBuffer, outputBuffer, pc, call, functors, sent, socket, delivered,
                   echoed, promised, userSent, spilled, unsent>>

\* The message callback takes len bytes with retrieveAsString(), and returns.
RetrieveAsString(len) ==
    /\ pc = "message"
    /\ pc' = "idle"
    /\ inputBuffer' = Retrieve(inputBuffer, len)
    /\ delivered' = delivered \o Peek(inputBuffer, len)
    /\ UNCHANGED <<state, outputBuffer, watched, call, functors, sent, socket, echoed,
                   promised, userSent, spilled, down, unsent>>

CallbackReturns ==
    /\ pc \in {"message", "replied"}
    /\ pc' = "idle"
    /\ UNCHANGED <<state, inputBuffer, outputBuffer, watched, call, functors, sent, socket,
                   history>>

\* The next functor: sendInLoop() or shutdownInLoop(), where isWriting() is
\* never true.
RunFunctor ==
    /\ pc = "idle" /\ functors # <<>>
    /\ functors' = Tail(functors)
    /\ IF Head(functors).op = "send"
       THEN SendInLoop(Head(functors).bytes)
       ELSE UNCHANGED <<outputBuffer, watched, free, wire, unsent>>
    /\ fin' = (fin \/ Head(functors).op = "shutdown")
    /\ UNCHANGED <<state, inputBuffer, pc, call, sent, received, delivered, echoed, promised,
                   userSent, spilled, down>>

-----------------------------------------------------------------------------
Next ==
    \/ PeerSends \/ PeerReads
    \/ SendBuffer
    \/ UserCalls \/ UserQueues \/ UserSetsDisconnecting \/ UserQueuesShutdown
    \/ LoopShutdown \/ LoopSetsDisconnecting \/ LoopQueuesShutdown
    \/ HandleRead \/ HandleClose \/ CallbackReturns \/ RunFunctor
    \/ \E len \in 1 .. ReadableBytes(inputBuffer) : RetrieveAsString(len)

Spec == Init /\ [][Next]_vars

\* The loop runs its functors, and the message callback returns, from a
\* shutdown() inside it too.
Fairness ==
    WF_vars(RunFunctor \/ CallbackReturns \/ LoopSetsDisconnecting \/ LoopQueuesShutdown)

FairSpec == Spec /\ Fairness

-----------------------------------------------------------------------------
(* Properties *)

\* Type invariant: both buffers are as the diagram of Buffer.h has them.
TypeOK ==
    /\ state \in {"kConnected", "kDisconnecting", "kDisconnected"}
    /\ IsBuffer(inputBuffer) /\ IsBuffer(outputBuffer)
    /\ pc \in {"idle", "message", "replied", "shutdown", "queue"}
    /\ call \in {"none", "send", "shutdown", "queue"} /\ {watched, fin, down} \subseteq BOOLEAN
    /\ sent \in 0 .. MaxBytes /\ userSent \in 0 .. MaxUserBytes /\ free \in 0 .. SendSpace
    /\ \A f \in ToSet(functors) : f.op \in {"send", "shutdown"}

\* Bytes rise on the way in, and those of each thread on the way out: s has the
\* bytes of B once and in the order they were sent.
InOrder(s, B) ==
    \A i, j \in DOMAIN s : i < j /\ {s[i], s[j]} \subseteq B => s[i] < s[j]

\* What the other side sent is retrieved once and in order, or is still in
\* inputBuffer_ or the socket, whatever the callback retrieves each time and
\* however the buffer grows and moves its content: all but the bytes that went
\* through extrabuf, which append() loses (see StreamIntact).
InputIntact ==
    LET bytes == delivered \o Content(inputBuffer) \o received
    IN  InOrder(bytes, Nat) /\ ToSet(bytes) = (1 .. sent) \ spilled

\* The functors of send() that run before shutdownInLoop().
Pending ==
    {i \in DOMAIN functors :
         /\ functors[i].op = "send" /\ ~fin
         /\ \A k \in 1 .. i : functors[k].op # "shutdown"}

PendingBytes == UNION {ToSet(functors[i].bytes) : i \in Pending}

\* What each thread passed to send() goes out once and in the order of its
\* calls, nothing else does, and what is still queued goes behind it.
\* Until the other side has closed, nothing of it is missing that was passed
\* before a shutdown() changed state_: it is on the wire or will be before FIN.
\* All but what a write() had no room for, which append() loses too.  After the
\* close, a shutdown() that overwrites kDisconnected lets a later send() out
\* behind an earlier one that was dropped.
OutputIntact ==
    /\ InOrder(wire, PeerBytes) /\ ToSet(wire) \cap PeerBytes = ToSet(echoed) \ unsent
    /\ InOrder(wire, UserBytes)
    /\ \A i, j \in Pending :
           /\ InOrder(wire \o functors[i].bytes, UserBytes)
           /\ i < j => InOrder(functors[i].bytes \o functors[j].bytes, UserBytes)
    /\ (ToSet(wire) \cup PendingBytes) \cap UserBytes \subseteq
           (MaxBytes + 1 .. MaxBytes + userSent) \ unsent
    /\ ~down => ToSet(promised) \ unsent \subseteq ToSet(wire) \cup PendingBytes

\* What a send() of the other thread queued before any shutdown() changed
\* state_ gets to the socket, unless the other side closes, with the same
\* exception.
PromiseKept ==
    \A byte \in MaxBytes + 1 .. MaxBytes + MaxUserBytes :
        byte \in ToSet(promised) ~>
            byte \in ToSet(wire) \cup unsent \/ down

-----------------------------------------------------------------------------
(* What comments say and the code does not do; refuted by a run. *)

\* TcpConnection.h:119-120: inputBuffer_ and outputBuffer_ keep what is read
\* and what is to be sent.
StreamIntact ==
    /\ delivered \o Content(inputBuffer) \o received = [i \in 1 .. sent |-> i]
    /\ LET bytes == wire \o Content(outputBuffer)
       IN  InOrder(bytes, PeerBytes) /\ ToSet(bytes) \cap PeerBytes = ToSet(echoed)
=============================================================================
