---------------------------- MODULE Association -----------------------------
(***************************************************************************)
(* What a UDP association promises its clients, without the sockets, tasks *)
(* and map of src/protocol/socks5/udp_associate.rs: an answer that comes   *)
(* to a client is from a target this client has asked, and as long as the  *)
(* association lasts it is passed on or lost.  What becomes of answers     *)
(* after its end is left open.  UdpRelay implements it.                    *)
(***************************************************************************)
EXTENDS Naturals

CONSTANTS Clients, Targets

VARIABLES open,     \* does the association last?
          asked,    \* who has sent to whom
          coming    \* how many answers of each target are under way to each client

vars == <<open, asked, coming>>

Init == /\ open = TRUE
        /\ asked = {}
        /\ coming = [c \in Clients |-> [t \in Targets |-> 0]]

Close == /\ open
         /\ open' = FALSE
         /\ UNCHANGED <<asked, coming>>

\* Any number of times, even through several sockets.
Ask(c, t) == /\ asked' = asked \union {<<c, t>>}
             /\ UNCHANGED <<open, coming>>

Answer(c, t) == /\ <<c, t>> \in asked
                /\ coming' = [coming EXCEPT ![c][t] = @ + 1]
                /\ UNCHANGED <<open, asked>>

Deliver(c, t) == /\ coming[c][t] > 0
                 /\ coming' = [coming EXCEPT ![c][t] = @ - 1]
                 /\ UNCHANGED <<open, asked>>

\* At most one answer of each target is lost with a socket.
Lose(c) == /\ \E lost \in (SUBSET {t \in Targets : coming[c][t] > 0}) \ {{}} :
                 coming' = [coming EXCEPT ![c] =
                              [t \in Targets |-> IF t \in lost THEN @[t] - 1 ELSE @[t]]]
           /\ UNCHANGED <<open, asked>>

Next == \/ Close
        \/ \E c \in Clients : \/ \E t \in Targets : Ask(c, t) \/ Answer(c, t) \/ Deliver(c, t)
                              \/ Lose(c)

SafeSpec == Init /\ [][Next]_vars

\* No client is forgotten while the association lasts.
Spec == /\ SafeSpec
        /\ \A c \in Clients :
               WF_vars(open /\ (Lose(c) \/ \E t \in Targets : Deliver(c, t)))
=============================================================================
