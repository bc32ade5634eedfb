---------------------------- MODULE ServerProofs ----------------------------
(***************************************************************************)
(* Theorems about Server for every number of listeners, every finite set   *)
(* of connection slots and every number of permits.                        *)
(***************************************************************************)
EXTENDS Server, FiniteSetTheorems, TLAPS

\* What the variables contain, without the bound on available: that one is a
\* consequence of the conservation of permits.
Types == /\ main \in MainState
         /\ outcome \in Outcome
         /\ loop \in [Listeners -> LoopState]
         /\ conn \in [Conns -> ConnState]
         /\ on \in [Conns -> Listeners \union {0}]
         /\ tunnel \in [Conns -> TunnelState]
         /\ available \in Nat
         /\ waiters \in Seq(Conns)

\* The queue holds the waiting connections, each one once.
Queue == /\ \A i \in 1 .. Len(waiters) : conn[waiters[i]] = "waiting"
         /\ \A c \in Conns : conn[c] = "waiting" =>
                \E i \in 1 .. Len(waiters) : waiters[i] = c
         /\ \A i, j \in 1 .. Len(waiters) : waiters[i] = waiters[j] => i = j

\* Before its task is spawned a connection blocks its loop, and no other one does.
Blocking == {"waiting", "granted"}
Loops == /\ \A c \in Conns : conn[c] # "none" => on[c] \in Listeners
         /\ \A c \in Conns : conn[c] \in Blocking => loop[on[c]] = "acquire"
         /\ \A c, d \in Conns : conn[c] \in Blocking /\ conn[d] \in Blocking /\ on[c] = on[d]
                                => c = d

\* Where run() has got to tells what the loops and connections can still do.
Stages == /\ main = "draining" => \A l \in Listeners : loop[l] = "stopped"
          /\ main = "exited" => /\ \A l \in Listeners : loop[l] = "stopped"
                                /\ \A c \in Conns : conn[c] = "none"

\* Only the HTTP handler has a tunnel task, and only one that has the socket outlives it.
Attached == \A c \in Conns :
                /\ tunnel[c] # "none" => conn[c] \in {"none", "http"}
                /\ tunnel[c] \in {"waiting", "ended"} => conn[c] = "http"

IInv == Types /\ Queue /\ Loops /\ Stages /\ Attached /\ NoIdlePermit /\ PermitsConserved

-----------------------------------------------------------------------------
(* Facts about the sets of permit owners                                   *)

\* Holders is finite, so that its cardinality is a number.
LEMMA HoldersFinite == IsFiniteSet(Holders) /\ Cardinality(Holders) \in Nat
<1>1. Holders \subseteq Conns
  BY DEF Holders
<1>2. IsFiniteSet(Holders)
  BY <1>1, ConnsAssumption, FS_Subset
<1> QED BY <1>2, FS_CardinalityType

\* A connection that gets a permit adds one to the number of owners.
LEMMA HoldersGrow ==
  ASSUME NEW c, c \notin Holders, Holders' = Holders \union {c}
  PROVE  Cardinality(Holders)' = Cardinality(Holders) + 1
  BY HoldersFinite, FS_AddElement

\* A connection that drops its permit takes one from the number of owners.
LEMMA HoldersShrink ==
  ASSUME NEW c, c \in Holders, Holders' = Holders \ {c}
  PROVE  Cardinality(Holders)' = Cardinality(Holders) - 1 /\ Cardinality(Holders) > 0
<1>1. Cardinality(Holders \ {c}) = Cardinality(Holders) - 1
  BY HoldersFinite, FS_RemoveElement
<1>2. IsFiniteSet(Holders \ {c})
  BY HoldersFinite, FS_Subset
<1>3. Cardinality(Holders \ {c}) \in Nat
  BY <1>2, FS_CardinalityType
<1> QED BY <1>1, <1>3, HoldersFinite

\* A hand-over leaves the number of owners as it is.
LEMMA HoldersSwap ==
  ASSUME NEW c, NEW d, c \in Holders, d \notin Holders,
         Holders' = (Holders \ {c}) \union {d}
  PROVE  Cardinality(Holders)' = Cardinality(Holders)
<1>1. Cardinality(Holders \ {c}) = Cardinality(Holders) - 1
  BY HoldersFinite, FS_RemoveElement
<1>2. IsFiniteSet(Holders \ {c}) /\ d \notin Holders \ {c}
  BY HoldersFinite, FS_Subset
<1>3. Cardinality((Holders \ {c}) \union {d}) = Cardinality(Holders \ {c}) + 1
  BY <1>2, FS_AddElement
<1> QED BY <1>1, <1>3, HoldersFinite

\* While somebody owns a permit not every permit is free, and the reverse.
LEMMA AllFree ==
  ASSUME IInv, available >= MaxConn
  PROVE  Holders = {}
<1>1. Cardinality(Holders) = 0
  BY HoldersFinite, PermitsAssumption DEF IInv, Types, PermitsConserved
<1> QED BY <1>1, HoldersFinite, FS_EmptySet
-----------------------------------------------------------------------------
(* What the building blocks of the actions preserve                        *)

\* A task that goes on without touching its permit.
LEMMA GotoPreserves ==
  ASSUME IInv, NEW c \in Conns, NEW from, NEW to \in ConnState \ (Blocking \union {"backlog"}),
         from \notin Blocking \union {"none", "http"}, from \in Holding <=> to \in Holding,
         Goto(c, from, to)
  PROVE  IInv' /\ Holders' = Holders
<1> USE DEF IInv, Goto
<1>1. Types'
  BY DEF Types
<1>2. Queue'
  BY DEF Types, Queue, Blocking
<1>3. Loops'
  BY DEF Types, Loops, Blocking
<1>4. Stages'
  BY DEF Types, Stages
<1>5. Holders' = Holders
  BY DEF Types, Holders
<1>6. NoIdlePermit' /\ PermitsConserved'
  BY <1>5 DEF NoIdlePermit, PermitsConserved
<1>7. Attached'
  BY DEF Types, Attached
<1> QED BY <1>1, <1>2, <1>3, <1>4, <1>5, <1>6, <1>7

\* The tunnel task goes on, beside the handler or after it; permits are not concerned.
LEMMA TunnelGotoPreserves ==
  ASSUME IInv, NEW c \in Conns, NEW from, NEW to \in TunnelState, TunnelGoto(c, from, to),
         conn[c] \in {"none", "http"}, to \in {"waiting", "ended"} => conn[c] = "http"
  PROVE  IInv' /\ Holders' = Holders
<1> USE DEF IInv, TunnelGoto
<1>1. Types' /\ Queue' /\ Loops' /\ Stages'
  BY DEF Types, Queue, Loops, Stages
<1>2. Attached'
  BY DEF Types, Attached
<1>3. Holders' = Holders
  BY DEF Holders
<1>4. NoIdlePermit' /\ PermitsConserved'
  BY <1>3 DEF NoIdlePermit, PermitsConserved
<1> QED BY <1>1, <1>2, <1>3, <1>4

\* What becomes of the tunnel task when its connection's permit is dropped.
LeftTunnel(c) == IF tunnel[c] \in {"waiting", "ended"} THEN "none" ELSE tunnel[c]

\* The permit goes back to the semaphore.
LEMMA FreePreserves ==
  ASSUME IInv, NEW c \in Conns, c \in Holders, conn[c] # "granted",
         waiters = <<>>, available' = available + 1, conn' = [conn EXCEPT ![c] = "none"],
         tunnel' = [tunnel EXCEPT ![c] = LeftTunnel(c)],
         UNCHANGED <<main, outcome, loop, on, waiters>>
  PROVE  IInv' /\ Holders' = Holders \ {c}
<1> USE DEF IInv
<1>1. Types'
  BY DEF Types, ConnState, TunnelState, LeftTunnel
<1>2. Queue'
  BY DEF Types, Queue
<1>3. Loops'
  BY DEF Types, Loops, Blocking, Holders, Holding
<1>4. Stages'
  BY DEF Types, Stages, Holders, Holding
<1>5. Holders' = Holders \ {c}
  BY DEF Types, Holders, Holding
<1>6. PermitsConserved'
  <2>1. Cardinality(Holders)' = Cardinality(Holders) - 1
    BY <1>5, HoldersShrink
  <2> QED BY <2>1, HoldersFinite DEF Types, PermitsConserved
<1>7. NoIdlePermit'
  BY DEF NoIdlePermit
<1>8. Attached'
  BY DEF Types, Attached, LeftTunnel
<1> QED BY <1>1, <1>2, <1>3, <1>4, <1>5, <1>6, <1>7, <1>8

\* The permit goes to the connection that has waited longest.
LEMMA HandOverPreserves ==
  ASSUME IInv, NEW c \in Conns, c \in Holders, conn[c] # "granted",
         waiters # <<>>, waiters' = Tail(waiters),
         conn' = [conn EXCEPT ![c] = "none", ![Head(waiters)] = "granted"],
         tunnel' = [tunnel EXCEPT ![c] = LeftTunnel(c)],
         UNCHANGED <<main, outcome, loop, on, available>>
  PROVE  /\ IInv'
         /\ Head(waiters) \in Conns \ Holders
         /\ Holders' = (Holders \ {c}) \union {Head(waiters)}
<1> USE DEF IInv
<1> DEFINE h == Head(waiters)
<1>1. /\ waiters \in Seq(Conns) /\ Len(waiters) \in Nat /\ Len(waiters) > 0
      /\ h = waiters[1] /\ h \in Conns
      /\ Len(waiters') = Len(waiters) - 1
      /\ \A i \in 1 .. Len(waiters') : waiters'[i] = waiters[i + 1]
  BY DEF Types
<1>2. conn[h] = "waiting" /\ h # c
  BY <1>1 DEF Queue, Holders, Holding
<1>3. /\ conn'[c] = "none" /\ conn'[h] = "granted"
      /\ \A d \in Conns \ {c, h} : conn'[d] = conn[d]
  BY <1>1, <1>2 DEF Types
<1>4. Types'
  <2>1. conn' \in [Conns -> ConnState]
    BY DEF Types, ConnState, Holding
  <2>2. waiters' \in Seq(Conns)
    BY <1>1
  <2>3. tunnel' \in [Conns -> TunnelState]
    BY DEF Types, TunnelState, LeftTunnel
  <2> QED BY <2>1, <2>2, <2>3 DEF Types
<1>5. Queue'
  <2>1. \A i \in 1 .. Len(waiters') : conn'[waiters'[i]] = "waiting"
    <3> TAKE i \in 1 .. Len(waiters')
    <3>1. i + 1 \in 1 .. Len(waiters) /\ 1 \in 1 .. Len(waiters) /\ i + 1 # 1
      BY <1>1
    <3>2. waiters[i + 1] \in Conns /\ waiters[i + 1] # h /\ conn[waiters[i + 1]] = "waiting"
      BY <1>1, <3>1 DEF Queue
    <3>3. waiters[i + 1] # c
      BY <3>2 DEF Holders, Holding
    <3> QED BY <1>1, <1>3, <3>2, <3>3
  <2>2. \A d \in Conns : conn'[d] = "waiting" => \E i \in 1 .. Len(waiters') : waiters'[i] = d
    <3> SUFFICES ASSUME NEW d \in Conns, conn'[d] = "waiting"
                 PROVE  \E i \in 1 .. Len(waiters') : waiters'[i] = d
      OBVIOUS
    <3>1. d # h /\ conn[d] = "waiting"
      BY <1>3
    <3>2. PICK j \in 1 .. Len(waiters) : waiters[j] = d
      BY <3>1 DEF Queue
    <3>3. j # 1
      BY <1>1, <3>1, <3>2
    <3>4. j - 1 \in 1 .. Len(waiters') /\ (j - 1) + 1 = j
      BY <1>1, <3>3
    <3> QED BY <1>1, <3>2, <3>4
  <2>3. \A i, j \in 1 .. Len(waiters') : waiters'[i] = waiters'[j] => i = j
    <3> TAKE i, j \in 1 .. Len(waiters')
    <3>1. i + 1 \in 1 .. Len(waiters) /\ j + 1 \in 1 .. Len(waiters)
      BY <1>1
    <3>2. waiters[i + 1] = waiters[j + 1] => i + 1 = j + 1
      BY <3>1 DEF Queue
    <3> QED BY <1>1, <3>2
  <2> QED BY <2>1, <2>2, <2>3 DEF Queue
<1>6. Loops'
  <2>1. \A d \in Conns : conn'[d] \in Blocking => conn[d] \in Blocking
    BY <1>2, <1>3 DEF Blocking
  <2>2. \A d \in Conns : conn'[d] # "none" => conn[d] # "none"
    BY <1>2, <1>3 DEF Holders, Holding
  <2> QED BY <2>1, <2>2 DEF Loops
<1>7. Stages'
  BY DEF Types, Stages, Holders, Holding
<1>8. Holders' = (Holders \ {c}) \union {h}
  BY <1>1, <1>2, <1>3 DEF Holders, Holding
<1>9. h \in Conns \ Holders
  BY <1>1, <1>2 DEF Holders, Holding
<1>10. PermitsConserved'
  BY <1>8, <1>9, HoldersSwap DEF PermitsConserved
<1>11. NoIdlePermit'
  BY DEF NoIdlePermit
<1>12. Attached'
  <2>1. tunnel[h] = "none"
    BY <1>1, <1>2 DEF Attached
  <2>2. \A d \in Conns : tunnel'[d] = IF d = c THEN LeftTunnel(c) ELSE tunnel[d]
    BY DEF Types
  <2> QED BY <1>2, <1>3, <2>1, <2>2 DEF Attached, LeftTunnel
<1> QED BY <1>4, <1>5, <1>6, <1>7, <1>8, <1>9, <1>10, <1>11, <1>12

\* Whatever a task does when its connection is over.
LEMMA DropsPreserves ==
  ASSUME IInv, NEW c \in Conns, NEW from \in SUBSET (Holding \ {"granted"}),
         Drops(c, from)
  PROVE  IInv'
<1>1. /\ c \in Holders /\ conn[c] # "granted" /\ UNCHANGED <<main, outcome, loop, on>>
      /\ tunnel' = [tunnel EXCEPT ![c] = LeftTunnel(c)]
  BY DEF Drops, Holders, LeftTunnel
<1>2. CASE /\ waiters = <<>> /\ available' = available + 1
           /\ conn' = [conn EXCEPT ![c] = "none"] /\ UNCHANGED waiters
  BY <1>1, <1>2, FreePreserves
<1>3. CASE /\ waiters # <<>> /\ waiters' = Tail(waiters) /\ UNCHANGED available
           /\ conn' = [conn EXCEPT ![c] = "none", ![Head(waiters)] = "granted"]
  BY <1>1, <1>3, HandOverPreserves
<1> QED BY <1>2, <1>3 DEF Drops, Release

\* accept() returns a connection and the loop asks for its permit.
LEMMA AcceptPreserves ==
  ASSUME IInv, NEW l \in Listeners, NEW c \in Conns, Accept(l, c)
  PROVE  /\ IInv'
         /\ \/ Holders' = Holders
            \/ c \notin Holders /\ Holders' = Holders \union {c} /\ available > 0
<1> USE DEF IInv
<1>1. /\ loop[l] \in {"select", "notified"} /\ conn[c] = "backlog" /\ on[c] = l
      /\ loop' = [loop EXCEPT ![l] = "acquire"] /\ UNCHANGED <<main, outcome, on, tunnel>>
  BY DEF Accept
<1>2. c \notin Holders
  BY <1>1 DEF Holders, Holding
<1>3. \A d \in Conns : conn[d] \in Blocking => on[d] # l
  BY <1>1 DEF Loops, Blocking
<1>4. Stages'
  <2>1. main \notin {"draining", "exited"}
    BY <1>1 DEF Stages
  <2> QED BY <1>1, <2>1 DEF Stages
<1>5. ASSUME NEW s \in Blocking, conn' = [conn EXCEPT ![c] = s]
      PROVE  Loops' /\ Attached'
  <2>1. \A d \in Conns : on'[d] = on[d] /\ (d # c => conn'[d] = conn[d]) /\ conn'[c] = s
    BY <1>1, <1>5 DEF Types
  <2>2. \A m \in Listeners : m # l => loop'[m] = loop[m]
    BY <1>1 DEF Types
  <2>3. loop'[l] = "acquire"
    BY <1>1 DEF Types
  <2>4. \A d \in Conns : conn'[d] # "none" => on'[d] \in Listeners
    BY <1>1, <2>1 DEF Loops
  <2>5. \A d \in Conns : conn'[d] \in Blocking => loop'[on'[d]] = "acquire"
    BY <1>1, <1>3, <2>1, <2>2, <2>3 DEF Loops, Blocking
  <2>6. \A d, e \in Conns : conn'[d] \in Blocking /\ conn'[e] \in Blocking /\ on'[d] = on'[e]
                            => d = e
    BY <1>1, <1>3, <2>1 DEF Loops
  <2>7. Attached'
    BY <1>1, <2>1 DEF Attached
  <2> QED BY <2>4, <2>5, <2>6, <2>7 DEF Loops
<1>6. CASE /\ available > 0 /\ available' = available - 1
           /\ conn' = [conn EXCEPT ![c] = "granted"] /\ UNCHANGED waiters
  <2>1. Types'
    BY <1>1, <1>6 DEF Types, LoopState, ConnState, Holding
  <2>2. Queue'
    BY <1>1, <1>6 DEF Types, Queue
  <2>3. Loops' /\ Attached'
    BY <1>5, <1>6 DEF Blocking
  <2>4. Holders' = Holders \union {c}
    BY <1>1, <1>6 DEF Types, Holders, Holding
  <2>5. PermitsConserved'
    <3>1. Cardinality(Holders)' = Cardinality(Holders) + 1
      BY <1>2, <2>4, HoldersGrow
    <3> QED BY <1>6, <3>1, HoldersFinite DEF Types, PermitsConserved
  <2>6. NoIdlePermit'
    BY <1>6 DEF Types, NoIdlePermit
  <2> QED BY <1>2, <1>4, <1>6, <2>1, <2>2, <2>3, <2>4, <2>5, <2>6
<1>7. CASE /\ available = 0 /\ UNCHANGED available
           /\ conn' = [conn EXCEPT ![c] = "waiting"] /\ waiters' = Append(waiters, c)
  <2>1. Types'
    BY <1>1, <1>7 DEF Types, LoopState, ConnState
  <2>2. /\ Len(waiters') = Len(waiters) + 1 /\ Len(waiters) \in Nat
        /\ waiters'[Len(waiters) + 1] = c
        /\ \A i \in 1 .. Len(waiters) : waiters'[i] = waiters[i] /\ waiters[i] \in Conns
    BY <1>7 DEF Types
  <2>3. \A i \in 1 .. Len(waiters) : waiters[i] # c
    BY <1>1 DEF Queue
  <2>4. /\ conn'[c] = "waiting"
        /\ \A d \in Conns \ {c} : conn'[d] = conn[d]
    BY <1>7 DEF Types
  <2>5. Queue'
    <3>1. \A i \in 1 .. Len(waiters') : conn'[waiters'[i]] = "waiting"
      BY <2>2, <2>3, <2>4 DEF Queue
    <3>2. \A d \in Conns : conn'[d] = "waiting" => \E i \in 1 .. Len(waiters') : waiters'[i] = d
      <4> SUFFICES ASSUME NEW d \in Conns, conn'[d] = "waiting"
                   PROVE  \E i \in 1 .. Len(waiters') : waiters'[i] = d
        OBVIOUS
      <4>1. CASE d = c
        BY <2>2, <4>1
      <4>2. CASE d # c
        <5>1. PICK i \in 1 .. Len(waiters) : waiters[i] = d
          BY <2>4, <4>2 DEF Queue
        <5> QED BY <2>2, <5>1
      <4> QED BY <4>1, <4>2
    <3>3. \A i, j \in 1 .. Len(waiters') : waiters'[i] = waiters'[j] => i = j
      BY <2>2, <2>3 DEF Queue
    <3> QED BY <3>1, <3>2, <3>3 DEF Queue
  <2>6. Loops' /\ Attached'
    BY <1>5, <1>7 DEF Blocking
  <2>7. Holders' = Holders
    BY <1>1, <1>7 DEF Types, Holders, Holding
  <2>8. PermitsConserved' /\ NoIdlePermit'
    BY <1>7, <2>7 DEF PermitsConserved, NoIdlePermit
  <2> QED BY <1>4, <2>1, <2>5, <2>6, <2>7, <2>8
<1> QED BY <1>6, <1>7 DEF Accept, Acquire

\* Steps that move a loop and leave connections and permits alone.
LEMMA LoopMovePreserves ==
  ASSUME IInv, NEW l \in Listeners, loop[l] \notin {"acquire", "stopped"},
         NEW s \in LoopState, loop' = [loop EXCEPT ![l] = s],
         UNCHANGED <<main, outcome, conn, on, tunnel, available, waiters>>
  PROVE  IInv' /\ Holders' = Holders
<1> USE DEF IInv
<1>1. Types' /\ Queue'
  BY DEF Types, Queue
<1>2. Loops' /\ Attached'
  BY DEF Types, Loops, Attached
<1>3. Stages'
  BY DEF Types, Stages
<1>4. Holders' = Holders
  BY DEF Holders
<1>5. NoIdlePermit' /\ PermitsConserved'
  BY <1>4 DEF NoIdlePermit, PermitsConserved
<1> QED BY <1>1, <1>2, <1>3, <1>4, <1>5

\* The connection's task is spawned: it owns the permit, and its loop is free again.
LEMMA SpawnPreserves ==
  ASSUME IInv, NEW l \in Listeners, NEW c \in Conns, Spawn(l, c)
  PROVE  IInv' /\ Holders' = Holders
<1> USE DEF IInv, Spawn
<1> DEFINE s == IF l \in TlsListeners THEN "tls" ELSE "peek"
<1>1. s \in Holding \ Blocking /\ s \in ConnState /\ s # "waiting" /\ s # "none"
  BY DEF Holding, Blocking, ConnState
<1>2. /\ conn'[c] = s /\ \A d \in Conns \ {c} : conn'[d] = conn[d]
      /\ loop'[l] = "top" /\ \A m \in Listeners \ {l} : loop'[m] = loop[m]
  BY DEF Types
<1>3. Types'
  BY <1>1 DEF Types, LoopState
<1>4. Queue'
  BY <1>1, <1>2 DEF Types, Queue
<1>5. Loops'
  <2>1. \A d \in Conns : conn'[d] \in Blocking => d # c /\ conn[d] \in Blocking /\ on[d] # l
    BY <1>1, <1>2 DEF Loops, Blocking
  <2>2. \A d \in Conns : conn'[d] # "none" => conn[d] # "none"
    BY <1>2
  <2> QED BY <1>2, <2>1, <2>2 DEF Loops
<1>6. Stages'
  BY DEF Types, Stages
<1>7. Holders' = Holders
  BY <1>1, <1>2 DEF Holders, Holding
<1>8. NoIdlePermit' /\ PermitsConserved'
  BY <1>7 DEF NoIdlePermit, PermitsConserved
<1>9. Attached'
  BY <1>2 DEF Attached
<1> QED BY <1>3, <1>4, <1>5, <1>6, <1>7, <1>8, <1>9

\* A loop that stops takes its backlog with it; nobody in the backlog owns a permit.
LEMMA StopLoopPreserves ==
  ASSUME IInv, NEW l \in Listeners, StopLoop(l)
  PROVE  IInv' /\ Holders' = Holders
<1> USE DEF IInv, StopLoop
<1>1. \A d \in Conns : conn'[d] = IF conn[d] = "backlog" /\ on[d] = l THEN "none" ELSE conn[d]
  OBVIOUS
<1>2. \A m \in Listeners : loop'[m] = IF m = l THEN "stopped" ELSE loop[m]
  BY DEF Types
<1>3. Types'
  BY DEF Types, LoopState, ConnState
<1>4. Queue'
  BY <1>1 DEF Types, Queue
<1>5. Loops'
  <2>1. \A d \in Conns : conn'[d] \in Blocking => conn[d] \in Blocking /\ on[d] # l
    BY <1>1 DEF Loops, Blocking
  <2>2. \A d \in Conns : conn'[d] # "none" => conn[d] # "none"
    BY <1>1
  <2> QED BY <1>2, <2>1, <2>2 DEF Loops
<1>6. Stages'
  BY DEF Types, Stages
<1>7. Holders' = Holders
  BY <1>1 DEF Holders, Holding
<1>8. NoIdlePermit' /\ PermitsConserved'
  BY <1>7 DEF NoIdlePermit, PermitsConserved
<1>9. Attached'
  BY <1>1 DEF Attached
<1> QED BY <1>3, <1>4, <1>5, <1>6, <1>7, <1>8, <1>9

\* A client connects.
LEMMA ConnectPreserves ==
  ASSUME IInv, NEW c \in Conns, NEW l \in Listeners, Connect(c, l)
  PROVE  IInv' /\ Holders' = Holders
<1> USE DEF IInv, Connect
<1>1. /\ conn'[c] = "backlog" /\ on'[c] = l
      /\ \A d \in Conns \ {c} : conn'[d] = conn[d] /\ on'[d] = on[d]
  BY DEF Types
<1>2. Types'
  BY DEF Types, ConnState
<1>3. Queue'
  BY <1>1 DEF Types, Queue
<1>4. Loops'
  BY <1>1 DEF Types, Loops, Blocking
<1>5. Stages'
  BY DEF Types, Stages
<1>6. Holders' = Holders
  BY <1>1 DEF Holders, Holding
<1>7. NoIdlePermit' /\ PermitsConserved'
  BY <1>6 DEF NoIdlePermit, PermitsConserved
<1>8. Attached'
  BY <1>1 DEF Attached
<1> QED BY <1>2, <1>3, <1>4, <1>5, <1>6, <1>7, <1>8

\* The end of the process gives every permit back.
LEMMA ExitPreserves ==
  ASSUME IInv, NEW o \in Outcome, Exit(o)
  PROVE  IInv' /\ Holders' = {}
<1> USE DEF IInv, Exit
<1>1. Types'
  BY PermitsAssumption DEF Types, MainState, LoopState, ConnState, TunnelState
<1>2. Queue' /\ Loops' /\ Stages' /\ Attached' /\ NoIdlePermit'
  BY DEF Queue, Loops, Stages, Attached, NoIdlePermit, Blocking
<1>3. Holders' = {}
  BY DEF Holders, Holding
<1>4. PermitsConserved'
  BY <1>3, FS_EmptySet, PermitsAssumption DEF PermitsConserved
<1> QED BY <1>1, <1>2, <1>3, <1>4

\* Steps of run() that touch neither permits nor connections.
LEMMA MainMovePreserves ==
  ASSUME IInv, NEW m \in MainState, main # "exited", m # "exited", main' = m,
         loop' \in [Listeners -> LoopState],
         \A l \in Listeners : loop[l] \in {"acquire", "stopped"} => loop'[l] = loop[l],
         m = "draining" => \A l \in Listeners : loop'[l] = "stopped",
         UNCHANGED <<outcome, conn, on, tunnel, available, waiters>>
  PROVE  IInv' /\ Holders' = Holders
<1> USE DEF IInv
<1>1. Types' /\ Queue' /\ Stages' /\ Attached'
  BY DEF Types, Queue, Stages, Attached
<1>2. Loops'
  BY DEF Types, Loops, Blocking
<1>3. Holders' = Holders
  BY DEF Holders
<1>4. NoIdlePermit' /\ PermitsConserved'
  BY <1>3 DEF NoIdlePermit, PermitsConserved
<1> QED BY <1>1, <1>2, <1>3, <1>4
-----------------------------------------------------------------------------
(* The inductive invariant                                                 *)

LEMMA InitIInv == Init => IInv
<1> SUFFICES ASSUME Init PROVE IInv
  OBVIOUS
<1> USE DEF Init
<1>1. Types
  BY PermitsAssumption DEF Types, MainState, Outcome, LoopState, ConnState, TunnelState
<1>2. Queue /\ Loops /\ Stages /\ Attached /\ NoIdlePermit
  BY DEF Queue, Loops, Stages, Attached, NoIdlePermit, Blocking
<1>3. Holders = {}
  BY DEF Holders, Holding
<1>4. PermitsConserved
  BY <1>3, FS_EmptySet, PermitsAssumption DEF PermitsConserved
<1> QED BY <1>1, <1>2, <1>4 DEF IInv

\* The tasks that let go of a permit own one that has been used.
LEMMA Owning ==
  /\ {"tls"} \in SUBSET (Holding \ {"granted"})
  /\ {"peek"} \in SUBSET (Holding \ {"granted"})
  /\ {"http", "socks5"} \in SUBSET (Holding \ {"granted"})
  BY DEF Holding

\* Every step of the task that owns the permit.
LEMMA ConnStepPreserves ==
  ASSUME IInv, NEW c \in Conns, ConnStep(c)
  PROVE  IInv'
<1>1. CASE TlsAccepted(c)
  BY <1>1, GotoPreserves DEF TlsAccepted, ConnState, Holding, Blocking
<1>2. CASE TlsFailed(c)
  BY <1>2, Owning, DropsPreserves DEF TlsFailed
<1>3. CASE Goto(c, "peek", "http")
  BY <1>3, GotoPreserves DEF ConnState, Holding, Blocking
<1>4. CASE Goto(c, "peek", "socks5")
  BY <1>4, GotoPreserves DEF ConnState, Holding, Blocking
<1>5. CASE Drops(c, {"peek"})
  BY <1>5, Owning, DropsPreserves
<1>6. CASE HandlerReturns(c)
  BY <1>6, Owning, DropsPreserves DEF HandlerReturns
<1> QED BY <1>1, <1>2, <1>3, <1>4, <1>5, <1>6 DEF ConnStep, Peek

\* Every step of the tunnel's task, or on its behalf.
LEMMA TunnelStepPreserves ==
  ASSUME IInv, NEW c \in Conns, TunnelStep(c)
  PROVE  IInv' /\ Holders' = Holders
<1>1. CASE HttpConnect(c) \/ Upgraded(c)
  BY <1>1, TunnelGotoPreserves DEF HttpConnect, Upgraded, TunnelState
<1>2. CASE TunnelConnects(c) \/ TunnelEnds(c)
  <2>1. conn[c] \in {"none", "http"}
    BY <1>2 DEF TunnelConnects, TunnelEnds, TunnelGoto, IInv, Attached
  <2> QED BY <1>2, <2>1, TunnelGotoPreserves DEF TunnelConnects, TunnelEnds, TunnelState
<1> QED BY <1>1, <1>2 DEF TunnelStep

\* Every step of an accept loop.
LEMMA LoopStepPreserves ==
  ASSUME IInv, NEW l \in Listeners, LoopStep(l) \/ AcceptError(l)
  PROVE  IInv'
<1>1. CASE EnterSelect(l)
  BY <1>1, LoopMovePreserves DEF EnterSelect, LoopState
<1>2. CASE AcceptError(l)
  BY <1>2, LoopMovePreserves DEF AcceptError, LoopState
<1>3. ASSUME NEW c \in Conns, Accept(l, c) PROVE IInv'
  BY <1>3, AcceptPreserves
<1>4. ASSUME NEW c \in Conns, Spawn(l, c) PROVE IInv'
  BY <1>4, SpawnPreserves
<1>5. CASE StopLoop(l)
  BY <1>5, StopLoopPreserves
<1> QED BY <1>1, <1>2, <1>3, <1>4, <1>5 DEF LoopStep

\* Every step of run().
LEMMA MainStepPreserves ==
  ASSUME IInv, MainStep \/ BindFails \/ SignalFails \/ Shutdown
  PROVE  IInv'
<1>1. ASSUME NEW l \in Listeners, Bind(l) PROVE IInv'
  <2>1. loop[l] = "unbound"
    BY <1>1 DEF Bind, Bound, Listeners
  <2> QED BY <1>1, <2>1, LoopMovePreserves DEF Bind, LoopState
<1>2. CASE AllBound
  BY <1>2, MainMovePreserves DEF AllBound, MainState, IInv, Types
<1>3. CASE Shutdown
  BY <1>3, MainMovePreserves DEF Shutdown, MainState, LoopState, IInv, Types
<1>4. CASE JoinedBusy
  BY <1>4, MainMovePreserves DEF JoinedBusy, Joinable, MainState, IInv, Types
<1>5. CASE JoinedIdle \/ DrainDone \/ DrainTimeout \/ BindFails \/ SignalFails
  BY <1>5, ExitPreserves DEF JoinedIdle, DrainDone, DrainTimeout, BindFails, SignalFails, Outcome
<1> QED BY <1>1, <1>2, <1>3, <1>4, <1>5 DEF MainStep

LEMMA NextIInv == IInv /\ [Next]_vars => IInv'
<1> SUFFICES ASSUME IInv, [Next]_vars PROVE IInv'
  OBVIOUS
<1>1. ASSUME NEW c \in Conns, NEW l \in Listeners, Connect(c, l) PROVE IInv'
  BY <1>1, ConnectPreserves
<1>2. ASSUME NEW l \in Listeners, LoopStep(l) \/ AcceptError(l) PROVE IInv'
  BY <1>2, LoopStepPreserves
<1>3. ASSUME NEW c \in Conns, ConnStep(c) \/ TunnelStep(c) PROVE IInv'
  BY <1>3, ConnStepPreserves, TunnelStepPreserves
<1>4. CASE MainStep \/ BindFails \/ SignalFails \/ Shutdown
  BY <1>4, MainStepPreserves
<1>5. CASE UNCHANGED vars
  <2>1. Holders' = Holders
    BY <1>5 DEF Holders, vars
  <2> QED BY <1>5, <2>1 DEF vars, IInv, Types, Queue, Loops, Stages, Attached, NoIdlePermit,
                                PermitsConserved
<1> QED BY <1>1, <1>2, <1>3, <1>4, <1>5 DEF Next, Step, Exited

LEMMA Invariance == SafeSpec => []IInv
  BY InitIInv, NextIInv, PTL DEF SafeSpec

-----------------------------------------------------------------------------
(* The theorems                                                            *)

\* available stays between 0 and MaxConn although it is only ever incremented and
\* decremented (server.rs:229-255): a consequence of the conservation of permits.
THEOREM TypeCorrectness == SafeSpec => []TypeOK
<1>1. IInv => TypeOK
  BY HoldersFinite, PermitsAssumption DEF IInv, Types, TypeOK, PermitsConserved
<1> QED BY <1>1, Invariance, PTL

\* No permit is lost or made up on any path through a connection's task (server.rs:229-255).
THEOREM PermitConservation == SafeSpec => []PermitsConserved
<1>1. IInv => PermitsConserved
  BY DEF IInv
<1> QED BY <1>1, Invariance, PTL

\* The wait queue holds exactly the connections whose loops are blocked, and none while a
\* permit is free (server.rs:229).
THEOREM WaitQueue == SafeSpec => []WaitQueueSound
<1>1. IInv => WaitQueueSound
  <2> SUFFICES ASSUME IInv PROVE WaitQueueSound
    OBVIOUS
  <2>1. waiters \in Seq(Conns) /\ DOMAIN waiters = 1 .. Len(waiters)
    BY DEF IInv, Types
  <2>2. {waiters[i] : i \in DOMAIN waiters} = {c \in Conns : conn[c] = "waiting"}
    BY <2>1 DEF IInv, Queue
  <2>3. \A i, j \in DOMAIN waiters : waiters[i] = waiters[j] => i = j
    BY <2>1 DEF IInv, Queue
  <2>4. \A c \in Conns : conn[c] \in {"waiting", "granted"} => loop[on[c]] = "acquire"
    BY DEF IInv, Loops, Blocking
  <2>5. \A c, d \in Conns : /\ {conn[c], conn[d]} \subseteq {"waiting", "granted"}
                            /\ on[c] = on[d]
                            => c = d
    BY DEF IInv, Loops, Blocking
  <2> QED BY <2>2, <2>3, <2>4, <2>5 DEF WaitQueueSound, IInv
<1> QED BY <1>1, Invariance, PTL
-----------------------------------------------------------------------------
(* The contract with the HTTP handler                                      *)

\* Who is at the head of the queue is waiting.
LEMMA HeadWaits ==
  ASSUME IInv, waiters # <<>>
  PROVE  Head(waiters) \in Conns /\ conn[Head(waiters)] = "waiting"
  BY DEF IInv, Types, Queue

\* A handler or a tunnel that is left alone.
LEMMA Unmoved ==
  ASSUME NEW d \in Conns, conn'[d] = conn[d], tunnel'[d] = tunnel[d]
  PROVE  HandlerStep(d)
  BY DEF HandlerStep, Task!vars

\* A permit that is dropped ends the handler it belonged to, if it was one, and moves no other
\* connection but the one it is handed to, which is not yet with a handler.
LEMMA DropsContract ==
  ASSUME IInv, NEW c \in Conns, NEW from, Drops(c, from), NEW d \in Conns
  PROVE  HandlerStep(d)
<1>1. /\ conn'[c] = "none" /\ conn[c] \in from
      /\ \A e \in Conns \ {c} : conn'[e] = conn[e] \/ (conn[e] = "waiting" /\ conn'[e] = "granted")
  <2>1. CASE waiters = <<>>
    BY <2>1 DEF Drops, Release, IInv, Types
  <2>2. CASE waiters # <<>>
    <3>1. conn' = [conn EXCEPT ![c] = "none", ![Head(waiters)] = "granted"] /\ conn[c] \in from
      BY <2>2 DEF Drops, Release
    <3>2. Head(waiters) \in Conns /\ conn[Head(waiters)] = "waiting"
      BY <2>2, HeadWaits
    <3> QED BY <3>1, <3>2 DEF IInv, Types
  <2> QED BY <2>1, <2>2
<1>2. \A e \in Conns : tunnel'[e] = IF e = c THEN LeftTunnel(c) ELSE tunnel[e]
  BY DEF Drops, LeftTunnel, IInv, Types
<1>3. CASE d = c /\ conn[c] = "http"
  BY <1>1, <1>2, <1>3 DEF HandlerStep, LeftTunnel, Task!Next, Task!Return
<1>4. CASE d = c /\ conn[c] # "http"
  BY <1>1, <1>2, <1>4 DEF HandlerStep, LeftTunnel, Task!vars, IInv, Attached
<1>5. CASE d # c
  BY <1>1, <1>2, <1>5 DEF HandlerStep, Task!vars, IInv, Attached
<1> QED BY <1>3, <1>4, <1>5

\* What a connection's task does is what the contract allows.
LEMMA ConnStepContract ==
  ASSUME IInv, NEW c \in Conns, ConnStep(c), NEW d \in Conns
  PROVE  HandlerStep(d)
<1>1. ASSUME NEW from \in {"tls", "peek"}, NEW to, Goto(c, from, to)
      PROVE  HandlerStep(d)
  <2>1. CASE d = c
    <3>1. conn[d] = from /\ tunnel[d] = "none"
      BY <1>1, <2>1 DEF Goto, IInv, Attached
    <3> QED BY <3>1 DEF HandlerStep
  <2>2. CASE d # c
    BY <1>1, <2>2, Unmoved DEF Goto, IInv, Types
  <2> QED BY <2>1, <2>2
<1>2. CASE TlsAccepted(c) \/ TlsFailed(c) \/ Peek(c)
  BY <1>1, <1>2, DropsContract DEF TlsAccepted, TlsFailed, Peek
<1>3. CASE HandlerReturns(c)
  BY <1>3, DropsContract DEF HandlerReturns
<1> QED BY <1>2, <1>3 DEF ConnStep

\* And so is what its tunnel's task does.
LEMMA TunnelStepContract ==
  ASSUME IInv, NEW c \in Conns, TunnelStep(c), NEW d \in Conns
  PROVE  HandlerStep(d)
<1>1. /\ UNCHANGED conn
      /\ d # c => tunnel'[d] = tunnel[d]
  BY DEF TunnelStep, HttpConnect, Upgraded, TunnelConnects, TunnelEnds, TunnelGoto, IInv, Types
<1>2. CASE d = c
  BY <1>2 DEF HandlerStep, TunnelStep, HttpConnect, Upgraded, TunnelConnects, TunnelEnds,
              TunnelGoto, Task!Next, Task!Connect, Task!Upgrade, Task!Dial, Task!EndTunnel,
              IInv, Types
<1> QED BY <1>1, <1>2, Unmoved

\* No other step moves a connection that is with a handler or a tunnel, but the end of the process.
LEMMA OtherStepContract ==
  ASSUME IInv, main' # "exited", NEW d \in Conns,
         \/ \E c \in Conns, l \in Listeners : Connect(c, l)
         \/ \E l \in Listeners : LoopStep(l) \/ AcceptError(l)
         \/ MainStep \/ BindFails \/ SignalFails \/ Shutdown
  PROVE  HandlerStep(d)
<1> USE DEF IInv, Types, Attached
<1>1. ASSUME NEW c \in Conns, NEW l \in Listeners, Connect(c, l) \/ Accept(l, c) \/ Spawn(l, c)
      PROVE  HandlerStep(d)
  <2>1. CASE d = c
    <3>1. conn[d] \in {"none", "backlog", "granted"} /\ tunnel[d] = "none"
      BY <1>1, <2>1 DEF Connect, Accept, Spawn
    <3> QED BY <3>1 DEF HandlerStep
  <2>2. CASE d # c
    BY <1>1, <2>2, Unmoved DEF Connect, Accept, Acquire, Spawn
  <2> QED BY <2>1, <2>2
<1>2. ASSUME NEW l \in Listeners, EnterSelect(l) \/ AcceptError(l)
      PROVE  HandlerStep(d)
  BY <1>2, Unmoved DEF EnterSelect, AcceptError
<1>3. ASSUME NEW l \in Listeners, StopLoop(l)
      PROVE  HandlerStep(d)
  <2>1. CASE conn[d] = "backlog"
    BY <2>1 DEF HandlerStep
  <2>2. CASE conn[d] # "backlog"
    BY <1>3, <2>2, Unmoved DEF StopLoop
  <2> QED BY <2>1, <2>2
<1>4. CASE MainStep \/ BindFails \/ SignalFails \/ Shutdown
  BY <1>4, Unmoved DEF MainStep, BindFails, SignalFails, Shutdown, Bind, AllBound, JoinedIdle,
                       JoinedBusy, DrainDone, DrainTimeout, Exit
<1> QED BY <1>1, <1>2, <1>3, <1>4 DEF LoopStep

\* The server keeps its side of ConnTask: until the process ends a connection in the hands of the
\* HTTP handler, or left to its tunnel, moves only as these two do (server.rs:233-256,
\* http_handler.rs:127-173).
THEOREM HandlerContract == SafeSpec => HandlersFollowConnTask
<1>1. IInv /\ [Next]_vars => [main' # "exited" => \A c \in Conns : HandlerStep(c)]_vars
  <2> SUFFICES ASSUME IInv, [Next]_vars, vars' # vars, main' # "exited", NEW d \in Conns
               PROVE  HandlerStep(d)
    OBVIOUS
  <2> QED BY ConnStepContract, TunnelStepContract, OtherStepContract DEF Next, Step, Exited
<1> QED BY <1>1, Invariance, PTL DEF SafeSpec, HandlersFollowConnTask

-----------------------------------------------------------------------------
(* Server implements AdmissionControl                                      *)

\* The refinement mapping, value by value.
LEMMA Mapping ==
  /\ Phase["binding"] = "starting" /\ Phase["draining"] = "draining"
  /\ Phase["running"] = "serving"  /\ Phase["joining"] = "serving"
  /\ Phase["exited"] = "ended"
  /\ Report["none"] = "none"       /\ Report["error"] = "failed"
  /\ Report["idle"] = "clean"      /\ Report["drained"] = "clean"
  /\ Report["timeout"] = "forced"
  BY DEF Phase, Report

\* The instance's Cardinality is the one of FiniteSets.
LEMMA SameCardinality == AC!Cardinality(Holders) = Cardinality(Holders)
  BY Zenon DEF AC!Cardinality, Cardinality

\* A step that AdmissionControl does not see.
LEMMA Stutter ==
  ASSUME Holders' = Holders, UNCHANGED <<main, outcome>>
  PROVE  UNCHANGED AC!acVars
  BY DEF AC!acVars

\* While some loop is not stopped run() has not begun to drain.
LEMMA NotDraining ==
  ASSUME IInv, NEW l \in Listeners, loop[l] # "stopped"
  PROVE  main \in {"binding", "running", "joining"}
  BY DEF IInv, Types, MainState, Stages

\* Dropping a permit is Leave, or HandOver when somebody waits.
LEMMA DropsRefines ==
  ASSUME IInv, NEW c \in Conns, NEW from \in SUBSET (Holding \ {"granted"}),
         Drops(c, from)
  PROVE  AC!Next
<1>1. /\ c \in Holders /\ conn[c] # "granted" /\ UNCHANGED <<main, outcome, loop, on>>
      /\ tunnel' = [tunnel EXCEPT ![c] = LeftTunnel(c)]
  BY DEF Drops, Holders, LeftTunnel
<1>2. CASE /\ waiters = <<>> /\ available' = available + 1
           /\ conn' = [conn EXCEPT ![c] = "none"] /\ UNCHANGED waiters
  <2>1. Holders' = Holders \ {c}
    BY <1>1, <1>2, FreePreserves
  <2>2. AC!Leave(c)
    BY <1>1, <2>1 DEF AC!Leave
  <2> QED BY <2>2 DEF AC!Next
<1>3. CASE /\ waiters # <<>> /\ waiters' = Tail(waiters) /\ UNCHANGED available
           /\ conn' = [conn EXCEPT ![c] = "none", ![Head(waiters)] = "granted"]
  <2>1. /\ Head(waiters) \in Conns \ Holders
        /\ Holders' = (Holders \ {c}) \union {Head(waiters)}
    BY <1>1, <1>3, HandOverPreserves
  <2>2. Head(waiters) = waiters[1] /\ 1 \in 1 .. Len(waiters)
    BY <1>3 DEF IInv, Types
  <2>3. conn[Head(waiters)] = "waiting"
    BY <2>2 DEF IInv, Queue
  <2>4. on[Head(waiters)] \in Listeners /\ loop[on[Head(waiters)]] = "acquire"
    BY <2>1, <2>3 DEF IInv, Loops, Blocking
  <2>5. main \in {"binding", "running", "joining"}
    BY <2>4, NotDraining
  <2>6. AC!HandOver(c, Head(waiters))
    BY <1>1, <2>1, <2>5, Mapping DEF AC!HandOver
  <2> QED BY <2>1, <2>6 DEF AC!Next
<1> QED BY <1>2, <1>3 DEF Drops, Release

\* A task's step drops the permit, or AdmissionControl does not see it.
LEMMA TaskStepRefines ==
  ASSUME IInv, NEW c \in Conns, ConnStep(c) \/ TunnelStep(c)
  PROVE  AC!Next \/ UNCHANGED AC!acVars
<1>1. ASSUME NEW from \in {"tls", "peek"}, NEW to \in {"http", "socks5"}, Goto(c, from, to)
      PROVE  UNCHANGED AC!acVars
  <2>1. Holders' = Holders
    BY <1>1, GotoPreserves DEF ConnState, Holding, Blocking
  <2> QED BY <1>1, <2>1, Stutter DEF Goto
<1>2. CASE TunnelStep(c)
  <2>1. UNCHANGED <<main, outcome>>
    BY <1>2 DEF TunnelStep, HttpConnect, Upgraded, TunnelConnects, TunnelEnds, TunnelGoto
  <2> QED BY <1>2, <2>1, TunnelStepPreserves, Stutter
<1>3. CASE TlsAccepted(c)
  BY <1>1, <1>3 DEF TlsAccepted
<1>4. CASE TlsFailed(c) \/ HandlerReturns(c)
  BY <1>4, Owning, DropsRefines DEF TlsFailed, HandlerReturns
<1>5. CASE Peek(c)
  BY <1>1, <1>5, Owning, DropsRefines DEF Peek
<1> QED BY <1>2, <1>3, <1>4, <1>5 DEF ConnStep

\* A loop's step admits the accepted connection, or AdmissionControl does not see it.
LEMMA LoopStepRefines ==
  ASSUME IInv, NEW l \in Listeners, LoopStep(l) \/ AcceptError(l)
  PROVE  AC!Next \/ UNCHANGED AC!acVars
<1>1. CASE EnterSelect(l) \/ AcceptError(l)
  BY <1>1, LoopMovePreserves, Stutter DEF EnterSelect, AcceptError, LoopState
<1>2. ASSUME NEW c \in Conns, Spawn(l, c) PROVE UNCHANGED AC!acVars
  BY <1>2, SpawnPreserves, Stutter DEF Spawn
<1>3. CASE StopLoop(l)
  BY <1>3, StopLoopPreserves, Stutter DEF StopLoop
<1>4. ASSUME NEW c \in Conns, Accept(l, c) PROVE AC!Next \/ UNCHANGED AC!acVars
  <2>1. UNCHANGED <<main, outcome>> /\ loop[l] # "stopped"
    BY <1>4 DEF Accept
  <2>2. CASE Holders' = Holders
    BY <2>1, <2>2, Stutter
  <2>3. CASE c \notin Holders /\ Holders' = Holders \union {c} /\ available > 0
    <3>1. main \in {"binding", "running", "joining"}
      BY <2>1, NotDraining
    <3>2. Cardinality(Holders) < MaxConn
      BY <2>3, HoldersFinite, PermitsAssumption DEF IInv, Types, PermitsConserved
    <3>3. AC!Admit(c)
      BY <2>1, <2>3, <3>1, <3>2, Mapping, SameCardinality DEF AC!Admit
    <3> QED BY <3>3 DEF AC!Next
  <2> QED BY <1>4, <2>2, <2>3, AcceptPreserves
<1> QED BY <1>1, <1>2, <1>3, <1>4 DEF LoopStep

\* The steps of run() are those of AdmissionControl; here max_conn must fit into a u32.
LEMMA MainStepRefines ==
  ASSUME MaxConn < U32, IInv, MainStep \/ BindFails \/ SignalFails \/ Shutdown
  PROVE  AC!Next \/ UNCHANGED AC!acVars
<1>1. ASSUME NEW l \in Listeners, Bind(l) PROVE UNCHANGED AC!acVars
  BY <1>1, Stutter DEF Bind, Holders
<1>2. CASE Shutdown
  <2>1. Holders' = Holders
    BY <1>2 DEF Shutdown, Holders
  <2> QED BY <1>2, <2>1, Mapping DEF Shutdown, AC!acVars
<1>3. CASE AllBound
  <2>1. Holders' = Holders
    BY <1>3 DEF AllBound, Holders
  <2>2. AC!Serve
    BY <1>3, <2>1, Mapping DEF AllBound, AC!Serve
  <2> QED BY <2>2 DEF AC!Next
<1>4. CASE JoinedBusy
  <2>1. Holders' = Holders
    BY <1>4 DEF JoinedBusy, Holders
  <2>2. AC!Drain
    BY <1>4, <2>1, Mapping DEF JoinedBusy, Joinable, AC!Drain
  <2> QED BY <2>2 DEF AC!Next
<1>5. ASSUME NEW o \in Outcome, Exit(o)
      PROVE  Holders' = {} /\ main' = "exited" /\ outcome' = o
  BY <1>5, ExitPreserves DEF Exit
<1>6. CASE BindFails \/ SignalFails
  <2>1. AC!Fail
    BY <1>5, <1>6, Mapping DEF BindFails, SignalFails, Outcome, AC!Fail, AC!EndWith
  <2> QED BY <2>1 DEF AC!Next
<1>7. CASE DrainTimeout
  <2>1. AC!Force
    BY <1>5, <1>7, Mapping DEF DrainTimeout, Outcome, AC!Force, AC!EndWith
  <2> QED BY <2>1 DEF AC!Next
<1>8. CASE JoinedIdle
  <2>1. Holders = {}
    BY <1>8, AllFree, PermitsAssumption DEF JoinedIdle
  <2>2. AC!Clean
    BY <1>5, <1>8, <2>1, Mapping DEF JoinedIdle, Joinable, Outcome, AC!Clean, AC!EndWith
  <2> QED BY <2>2 DEF AC!Next
<1>9. CASE DrainDone
  <2>1. MaxConn % U32 = MaxConn
    BY PermitsAssumption
  <2>2. Holders = {}
    BY <1>9, <2>1, AllFree DEF DrainDone, PermitsToDrain
  <2>3. AC!Clean
    BY <1>5, <1>9, <2>2, Mapping DEF DrainDone, Outcome, AC!Clean, AC!EndWith
  <2> QED BY <2>3 DEF AC!Next
<1> QED BY <1>1, <1>2, <1>3, <1>4, <1>6, <1>7, <1>8, <1>9 DEF MainStep

\* Every step of the server is a step of AdmissionControl, or one it does not see.
LEMMA StepRefines ==
  ASSUME MaxConn < U32, IInv, [Next]_vars
  PROVE  [AC!Next]_(AC!acVars)
<1>1. ASSUME NEW c \in Conns, NEW l \in Listeners, Connect(c, l) PROVE UNCHANGED AC!acVars
  BY <1>1, ConnectPreserves, Stutter DEF Connect
<1>2. ASSUME NEW l \in Listeners, LoopStep(l) \/ AcceptError(l)
      PROVE  AC!Next \/ UNCHANGED AC!acVars
  BY <1>2, LoopStepRefines
<1>3. ASSUME NEW c \in Conns, ConnStep(c) \/ TunnelStep(c) PROVE AC!Next \/ UNCHANGED AC!acVars
  BY <1>3, TaskStepRefines
<1>4. CASE MainStep \/ BindFails \/ SignalFails \/ Shutdown
  BY <1>4, MainStepRefines
<1>5. CASE UNCHANGED vars
  BY <1>5, Stutter DEF vars, Holders
<1> QED BY <1>1, <1>2, <1>3, <1>4, <1>5 DEF Next, Step, Exited

\* With a max_connections below 2^32 the server keeps what AdmissionControl promises:
\* never more permit owners than max_connections, nobody admitted during the drain, and
\* "drained" or "idle" only when no permit owner is left (server.rs:200-218).
THEOREM ImplementsAdmissionControl ==
  ASSUME MaxConn < U32
  PROVE  SafeSpec => AC!SafeSpec
<1>1. Init => AC!Init
  <2> SUFFICES ASSUME Init PROVE AC!Init
    OBVIOUS
  <2>1. Holders = {}
    BY DEF Init, Holders, Holding
  <2> QED BY <2>1, Mapping DEF Init, AC!Init
<1>2. IInv /\ [Next]_vars => [AC!Next]_(AC!acVars)
  BY StepRefines
<1> QED BY <1>1, <1>2, Invariance, PTL DEF SafeSpec, AC!SafeSpec
=============================================================================
