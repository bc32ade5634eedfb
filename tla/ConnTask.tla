------------------------------ MODULE ConnTask ------------------------------
(***************************************************************************)
(* What Server and HttpHandler agree on: the two tasks of a connection     *)
(* from the start of its HTTP handler.  The handler's task owns the        *)
(* permit, which goes back when the handler returns; a CONNECT adds the    *)
(* tunnel's task, which owns none.  Between the two only the upgrade is    *)
(* ordered: after it either may be faster.                                 *)
(***************************************************************************)

VARIABLES handler,   \* "running" or "over"
          tunnel     \* "none", "waiting" for the upgrade, "dialing", "open" or "ended"

vars == <<handler, tunnel>>

Init == handler = "running" /\ tunnel = "none"

\* CONNECT: the tunnel's task is spawned and waits for the upgrade.
Connect == /\ handler = "running" /\ tunnel = "none"
           /\ tunnel' = "waiting"
           /\ UNCHANGED handler

\* The tunnel's task is given the client's socket.
Upgrade == /\ handler = "running" /\ tunnel = "waiting"
           /\ tunnel' = "dialing"
           /\ UNCHANGED handler

Dial == /\ tunnel = "dialing"
        /\ tunnel' = "open"
        /\ UNCHANGED handler

\* When both tasks are over nothing is left of the tunnel.
EndTunnel == /\ tunnel \in {"dialing", "open"}
             /\ tunnel' = IF handler = "running" THEN "ended" ELSE "none"
             /\ UNCHANGED handler

\* Whatever the tunnel does; one that still waits will wait in vain.
Return == /\ handler = "running"
          /\ handler' = "over"
          /\ tunnel' = IF tunnel \in {"waiting", "ended"} THEN "none" ELSE tunnel

Next == Connect \/ Upgrade \/ Dial \/ EndTunnel \/ Return

SafeSpec == Init /\ [][Next]_vars

\* The handler does not outlast a CONNECT, and the tunnel's task does not wait for ever.
Spec == SafeSpec /\ WF_vars(tunnel # "none" /\ (Upgrade \/ Return))
=============================================================================
