----------------------------- MODULE MCEventLoop -----------------------------
(* Small instances of EventLoop for TLC. *)
EXTENDS EventLoop, TLC

\* Threads and functors are interchangeable; used where no property is
\* temporal.
Symmetry == Permutations(Threads) \cup Permutations(Tasks)
=============================================================================
