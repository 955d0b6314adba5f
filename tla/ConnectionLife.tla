---------------------------- MODULE ConnectionLife ----------------------------
(***************************************************************************)
(* What a connection goes through, whatever the threads do: it is accepted *)
(* once, ends once and stays ended, and is destroyed for good behind its   *)
(* end; without an end only when its server is destroyed.                  *)
(*                                                                         *)
(* A connection may go astray instead, after which nothing is said of it:  *)
(* TcpServer.tla has the two ways in which the code lets that happen.      *)
(***************************************************************************)
CONSTANT Conns

VARIABLES
    phase,      \* none, live, ended, destroyed or astray
    serving     \* the server lives

vars == <<phase, serving>>

Init ==
    /\ phase = [c \in Conns |-> "none"]
    /\ serving = TRUE

Change(c, from, to) ==
    /\ phase[c] \in from
    /\ phase' = [phase EXCEPT ![c] = to]
    /\ UNCHANGED serving

Accept(c) == serving /\ Change(c, {"none"}, "live")

\* The connection callback says DOWN.
End(c) == Change(c, {"live"}, "ended")

\* The last shared_ptr goes.
Destroy(c) == Change(c, IF serving THEN {"ended"} ELSE {"live", "ended"}, "destroyed")

GoAstray(c) == Change(c, {"live", "ended", "destroyed"}, "astray")

StopServing ==
    /\ serving /\ serving' = FALSE
    /\ UNCHANGED phase

Next ==
    \/ \E c \in Conns : Accept(c) \/ End(c) \/ Destroy(c) \/ GoAstray(c)
    \/ StopServing

Spec == Init /\ [][Next]_vars
=============================================================================
