---------------------------- MODULE FunctorQueue ----------------------------
(***************************************************************************)
(* What EventLoop promises to the threads that hand it work through        *)
(* queueInLoop() (EventLoop.h:47): the functors form one queue, each       *)
(* functor that is queued is taken off exactly once, in the order of the   *)
(* queueInLoop() calls, and the loop thread runs one functor at a time.    *)
(* EventLoop.tla implements this with two vectors, a flag and an eventfd.  *)
(***************************************************************************)
EXTENDS Sequences

CONSTANTS Tasks,    \* the functors that can be queued
          NoTask    \* "no functor is running"

VARIABLES queue,    \* functors queued and not yet started, oldest first
          running   \* the functor the loop thread is executing, or NoTask

vars == <<queue, running>>

Init == queue = <<>> /\ running = NoTask

\* Any thread, the loop's own thread included, adds a functor at the end.
Submit(t) == queue' = Append(queue, t) /\ UNCHANGED running

\* The loop thread takes the oldest functor off the queue and runs it.
Start == /\ queue # <<>>
         /\ running = NoTask
         /\ running' = Head(queue)
         /\ queue' = Tail(queue)

Finish == running # NoTask /\ running' = NoTask /\ UNCHANGED queue

Next == (\E t \in Tasks : Submit(t)) \/ Start \/ Finish

Spec == Init /\ [][Next]_vars
=============================================================================
