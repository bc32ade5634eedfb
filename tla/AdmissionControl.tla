-------------------------- MODULE AdmissionControl --------------------------
(***************************************************************************)
(* What the server promises its operator about load and shutdown, with no  *)
(* word about accept loops, wait queues or protocols:                      *)
(*   - at most MaxConn connections are admitted at any time;               *)
(*   - once draining has begun, nobody new is admitted;                    *)
(*   - a "clean" end is reported only when nobody is admitted any more;    *)
(*   - draining always ends, if need be by force.                          *)
(* Server.tla implements this specification.                               *)
(***************************************************************************)
EXTENDS Naturals, FiniteSets

CONSTANTS Conns,        \* connection identities
          MaxConn       \* the number of permits

VARIABLES admitted,     \* the connections that own a permit
          phase,        \* "starting", "serving", "draining" or "ended"
          report        \* how the run ended: "none", "failed", "clean", "forced"

acVars == <<admitted, phase, report>>

ACTypeOK == /\ admitted \subseteq Conns
            /\ phase \in {"starting", "serving", "draining", "ended"}
            /\ report \in {"none", "failed", "clean", "forced"}

Init == /\ admitted = {}
        /\ phase = "starting"
        /\ report = "none"

\* A listener that is already bound serves while the others are being set up.
Admit(c) == /\ phase \in {"starting", "serving"}
            /\ c \notin admitted
            /\ Cardinality(admitted) < MaxConn
            /\ admitted' = admitted \union {c}
            /\ UNCHANGED <<phase, report>>

Leave(c) == /\ c \in admitted
            /\ admitted' = admitted \ {c}
            /\ UNCHANGED <<phase, report>>

\* A permit goes straight from a connection that ends to one that waits.
HandOver(c, d) == /\ phase \in {"starting", "serving"}
                  /\ c \in admitted
                  /\ d \in Conns \ admitted
                  /\ admitted' = (admitted \ {c}) \union {d}
                  /\ UNCHANGED <<phase, report>>

Serve == /\ phase = "starting"
         /\ phase' = "serving"
         /\ UNCHANGED <<admitted, report>>

Drain == /\ phase = "serving"
         /\ phase' = "draining"
         /\ UNCHANGED <<admitted, report>>

EndWith(r) == /\ phase' = "ended"
              /\ admitted' = {}
              /\ report' = r

\* Whoever is still admitted then is cut off.
Fail == phase \in {"starting", "serving"} /\ EndWith("failed")

Clean == /\ phase \in {"serving", "draining"}
         /\ admitted = {}
         /\ EndWith("clean")

Force == phase = "draining" /\ EndWith("forced")

Next == \/ \E c \in Conns : Admit(c) \/ Leave(c)
        \/ \E c, d \in Conns : HandOver(c, d)
        \/ Serve \/ Drain \/ Fail \/ Clean \/ Force

SafeSpec == Init /\ [][Next]_acVars

EndDrain == phase = "draining" /\ (Clean \/ Force)

Spec == SafeSpec /\ WF_acVars(EndDrain)
=============================================================================
