---------------------------- MODULE MCTimerQueue ----------------------------
(* Small instances of TimerQueue for TLC. *)
EXTENDS TimerQueue

Once(delay) == [delay |-> delay, repeat |-> FALSE, interval |-> 0]
Every(interval) == [delay |-> interval, repeat |-> TRUE, interval |-> interval]

\* runAfter() two ticks ahead, and runEvery() each tick: either may be the
\* earlier one.
TwoKinds == {Once(2), Every(1)}
=============================================================================
