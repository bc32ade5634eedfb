------------------------------- MODULE Server -------------------------------
(***************************************************************************)
(* src/server.rs: run() binds the listeners, each served by its own        *)
(* accept_loop task; every accepted connection takes one permit of a       *)
(* semaphore shared by all loops and is handled by a task of its own;      *)
(* Ctrl-C notifies the loops, run() joins them and drains.                 *)
(*                                                                         *)
(* The model keeps the three tokio mechanisms whose details decide what    *)
(* happens: the semaphore hands a released permit to the task that waits   *)
(* longest; notify_waiters() reaches only the Notified futures that exist  *)
(* at that moment; select! takes any branch that is ready and drops the    *)
(* others.  What happens inside a protocol handler is left to the modules  *)
(* of the handlers: here a handler only keeps its permit until it returns. *)
(***************************************************************************)
EXTENDS Naturals, Sequences, FiniteSets

CONSTANTS NumListeners,   \* length of server.listen in the configuration
          TlsListeners,   \* the listeners that have a tls section
          Conns,          \* connection slots, used again when a connection is over
          MaxConn,        \* max_connections
          U32             \* 2^32, the modulus of `max_conn as u32`

Listeners == 1 .. NumListeners

ASSUME ListenersAssumption == NumListeners \in Nat /\ TlsListeners \subseteq Listeners
ASSUME ConnsAssumption     == IsFiniteSet(Conns)
ASSUME PermitsAssumption   == MaxConn \in Nat /\ U32 \in Nat \ {0}

VARIABLES main,        \* where run() is
          outcome,     \* what run() logs (or returns) at its end
          loop,        \* where each accept_loop is
          conn,        \* where each connection is
          on,          \* the listener a connection came in on
          tunnel,      \* where the tunnel task of a connection is, see ConnTask
          available,   \* semaphore.available_permits()
          waiters      \* the connections whose loop waits in acquire_owned(), oldest first

vars == <<main, outcome, loop, conn, on, tunnel, available, waiters>>

MainState == {"binding", "running", "joining", "draining", "exited"}
Outcome   == {"none", "error", "idle", "drained", "timeout"}

\* "select": in select!, its Notified future exists; "notified": the same
\* after notify_waiters(); "acquire": a connection is accepted, its permit is not there yet
\* or its task not spawned.  Notified futures are dropped on leaving select!.
LoopState == {"unbound", "top", "select", "notified", "acquire", "stopped"}

\* A connection with its permit, in its own task or about to get one.
Holding   == {"granted", "tls", "peek", "http", "socks5"}
ConnState == {"none", "backlog", "waiting"} \union Holding

\* A CONNECT tunnel runs in a second task, which has no permit.
TunnelState == {"none", "waiting", "dialing", "open", "ended"}

Holders == {c \in Conns : conn[c] \in Holding}
Tunnels == {c \in Conns : tunnel[c] \in {"dialing", "open"}}

TypeOK == /\ main \in MainState
          /\ outcome \in Outcome
          /\ loop \in [Listeners -> LoopState]
          /\ conn \in [Conns -> ConnState]
          /\ on \in [Conns -> Listeners \union {0}]
          /\ tunnel \in [Conns -> TunnelState]
          /\ available \in 0 .. MaxConn
          /\ waiters \in Seq(Conns)

Init == /\ main = "binding"
        /\ outcome = "none"
        /\ loop = [l \in Listeners |-> "unbound"]
        /\ conn = [c \in Conns |-> "none"]
        /\ on = [c \in Conns |-> 0]
        /\ tunnel = [c \in Conns |-> "none"]
        /\ available = MaxConn
        /\ waiters = <<>>

-----------------------------------------------------------------------------
(* The semaphore.                                                          *)

\* Connection c drops its permit and goes on to state next; the permit goes to the
\* task that has waited longest, or back to the semaphore when no task waits.
Release(c, next) ==
    \/ /\ waiters = <<>>
       /\ available' = available + 1
       /\ conn' = [conn EXCEPT ![c] = next]
       /\ UNCHANGED waiters
    \/ /\ waiters # <<>>
       /\ conn' = [conn EXCEPT ![c] = next, ![Head(waiters)] = "granted"]
       /\ waiters' = Tail(waiters)
       /\ UNCHANGED available

\* acquire_owned(): a permit at once, or a place at the end of the queue.
Acquire(c) ==
    \/ /\ available > 0
       /\ available' = available - 1
       /\ conn' = [conn EXCEPT ![c] = "granted"]
       /\ UNCHANGED waiters
    \/ /\ available = 0
       /\ conn' = [conn EXCEPT ![c] = "waiting"]
       /\ waiters' = Append(waiters, c)
       /\ UNCHANGED available

-----------------------------------------------------------------------------
(* Clients (external): connecting is the kernel's work and needs no accept. *)

Connect(c, l) == /\ main # "exited"
                 /\ loop[l] \notin {"unbound", "stopped"}
                 /\ conn[c] = "none" /\ tunnel[c] = "none"
                 /\ conn' = [conn EXCEPT ![c] = "backlog"]
                 /\ on' = [on EXCEPT ![c] = l]
                 /\ UNCHANGED <<main, outcome, loop, tunnel, available, waiters>>

-----------------------------------------------------------------------------
(* accept_loop                                                             *)

EnterSelect(l) == /\ loop[l] = "top"
                  /\ loop' = [loop EXCEPT ![l] = "select"]
                  /\ UNCHANGED <<main, outcome, conn, on, tunnel, available, waiters>>

\* Mutant: the permit is awaited in the connection's task, the loop goes round at once.
AcceptWithoutBlocking(l, c) == /\ loop[l] \in {"select", "notified"}
                               /\ conn[c] = "backlog" /\ on[c] = l
                               /\ loop' = [loop EXCEPT ![l] = "top"]
                               /\ Acquire(c)
                               /\ UNCHANGED <<main, outcome, on, tunnel>>

\* The accept branch.  It may win even when the loop has been notified.
Accept(l, c) == /\ loop[l] \in {"select", "notified"}
                /\ conn[c] = "backlog" /\ on[c] = l
                /\ loop' = [loop EXCEPT ![l] = "acquire"]
                /\ Acquire(c)
                /\ UNCHANGED <<main, outcome, on, tunnel>>

\* listener.accept() failed: logged, and round again.
AcceptError(l) == /\ loop[l] \in {"select", "notified"}
                  /\ loop' = [loop EXCEPT ![l] = "top"]
                  /\ UNCHANGED <<main, outcome, conn, on, tunnel, available, waiters>>

\* Mutant: the permit is not moved into the task and is dropped when the arm ends.
SpawnDropsPermit(l, c) == /\ loop[l] = "acquire"
                          /\ conn[c] = "granted" /\ on[c] = l
                          /\ Release(c, IF l \in TlsListeners THEN "tls" ELSE "peek")
                          /\ loop' = [loop EXCEPT ![l] = "top"]
                          /\ UNCHANGED <<main, outcome, on, tunnel>>

\* The permit has come: the connection's task starts, and the loop goes round.
Spawn(l, c) == /\ loop[l] = "acquire"
               /\ conn[c] = "granted" /\ on[c] = l
               /\ conn' = [conn EXCEPT ![c] = IF l \in TlsListeners THEN "tls" ELSE "peek"]
               /\ loop' = [loop EXCEPT ![l] = "top"]
               /\ UNCHANGED <<main, outcome, on, tunnel, available, waiters>>

\* The shutdown branch: the listener is dropped, and with it what it had not accepted.
StopLoop(l) == /\ loop[l] = "notified"
               /\ loop' = [loop EXCEPT ![l] = "stopped"]
               /\ conn' = [c \in Conns |-> IF conn[c] = "backlog" /\ on[c] = l
                                           THEN "none" ELSE conn[c]]
               /\ UNCHANGED <<main, outcome, on, tunnel, available, waiters>>

LoopStep(l) == \/ EnterSelect(l)
               \/ \E c \in Conns : Accept(l, c) \/ Spawn(l, c)
               \/ StopLoop(l)

-----------------------------------------------------------------------------
(* The connection's task                                                   *)

\* The task goes on without touching its permit.
Goto(c, from, to) == /\ conn[c] = from
                     /\ conn' = [conn EXCEPT ![c] = to]
                     /\ UNCHANGED <<main, outcome, loop, on, tunnel, available, waiters>>

\* Mutant: the permit is forgotten (std::mem::forget) and never comes back.
ForgetsPermit(c, from) == conn[c] \in from /\ Goto(c, conn[c], "none")

\* The task drops its permit.  A tunnel task that has the socket is not concerned; one that
\* still waits for it ends.
Drops(c, from) == /\ conn[c] \in from
                  /\ Release(c, "none")
                  /\ tunnel' = [tunnel EXCEPT ![c] = IF @ \in {"waiting", "ended"} THEN "none" ELSE @]
                  /\ UNCHANGED <<main, outcome, loop, on>>

\* Mutant: a permit is added to the semaphore, and the one that was moved in dropped as well.
TlsFailedAddsPermit(c) == /\ conn[c] = "tls" /\ waiters = <<>>
                          /\ conn' = [conn EXCEPT ![c] = "none"]
                          /\ available' = available + 2
                          /\ UNCHANGED <<main, outcome, loop, on, tunnel, waiters>>

\* A TLS connection is not inspected: it is taken for HTTP.
TlsAccepted(c) == Goto(c, "tls", "http")
TlsFailed(c)   == Drops(c, {"tls"})

\* What the first bytes say; end of file, an error and an unknown protocol end it.
Peek(c) == \/ Goto(c, "peek", "http")
           \/ Goto(c, "peek", "socks5")
           \/ Drops(c, {"peek"})

\* The handler returns: the client is gone, an error, the exchange is finished, or the socket
\* has been handed over.
HandlerReturns(c) == Drops(c, {"http", "socks5"})

\* The task that owns the permit.
ConnStep(c) == TlsAccepted(c) \/ TlsFailed(c) \/ Peek(c) \/ HandlerReturns(c)

-----------------------------------------------------------------------------
(* The tunnel's task                                                       *)

TunnelGoto(c, from, to) == /\ tunnel[c] \in from
                           /\ tunnel' = [tunnel EXCEPT ![c] = to]
                           /\ UNCHANGED <<main, outcome, loop, conn, on, available, waiters>>

\* Mutant: the task does not wait for the upgrade.
DialsAtOnce(c) == conn[c] = "http" /\ TunnelGoto(c, {"none"}, "dialing")

\* CONNECT: the handler spawns the task and answers 200.
HttpConnect(c) == conn[c] = "http" /\ TunnelGoto(c, {"none"}, "waiting")

\* hyper hands the socket to the task; the handler has yet to return.
Upgraded(c) == conn[c] = "http" /\ TunnelGoto(c, {"waiting"}, "dialing")

\* The task connects to the target, copies both ways, and ends.
TunnelConnects(c) == TunnelGoto(c, {"dialing"}, "open")
TunnelEnds(c) == TunnelGoto(c, {"dialing", "open"}, IF conn[c] = "http" THEN "ended" ELSE "none")

TunnelStep(c) == HttpConnect(c) \/ Upgraded(c) \/ TunnelConnects(c) \/ TunnelEnds(c)

-----------------------------------------------------------------------------
(* run()                                                                   *)

\* When run() returns the runtime is dropped: every task and socket ends with it,
\* and the permits the tasks own go back.
Exit(o) == /\ main' = "exited"
           /\ outcome' = o
           /\ loop' = [l \in Listeners |-> "stopped"]
           /\ conn' = [c \in Conns |-> "none"]
           /\ tunnel' = [c \in Conns |-> "none"]
           /\ available' = MaxConn
           /\ waiters' = <<>>
           /\ UNCHANGED on

Bound == {l \in Listeners : loop[l] # "unbound"}

\* One listener after the other: bind, load the certificate, spawn its loop.
Bind(l) == /\ main = "binding"
           /\ Bound = 1 .. l - 1
           /\ loop' = [loop EXCEPT ![l] = "top"]
           /\ UNCHANGED <<main, outcome, conn, on, tunnel, available, waiters>>

\* bind() or load_tls_acceptor() fails: run() returns while earlier loops serve.
BindFails == /\ main = "binding"
             /\ Bound # Listeners
             /\ Exit("error")

AllBound == /\ main = "binding"
            /\ Bound = Listeners
            /\ main' = "running"
            /\ UNCHANGED <<outcome, loop, conn, on, tunnel, available, waiters>>

\* ctrl_c() cannot install its handler, or loses it: run() returns while all loops serve.
SignalFails == main = "running" /\ Exit("error")

\* Ctrl-C: notify_waiters() wakes the loops that wait in select! and no other.
Shutdown == /\ main = "running"
            /\ main' = "joining"
            /\ loop' = [l \in Listeners |-> IF loop[l] = "select" THEN "notified" ELSE loop[l]]
            /\ UNCHANGED <<outcome, conn, on, tunnel, available, waiters>>

Joinable == /\ main = "joining"
            /\ \A l \in Listeners : loop[l] = "stopped"

\* Every loop is joined and every permit is back: nothing to drain.
JoinedIdle == Joinable /\ available = MaxConn /\ Exit("idle")

JoinedBusy == /\ Joinable
              /\ available < MaxConn
              /\ main' = "draining"
              /\ UNCHANGED <<outcome, loop, conn, on, tunnel, available, waiters>>

\* Mutant: one permit too few is asked for.
OnePermitTooFew == MaxConn - 1

\* acquire_many(max_conn as u32)
PermitsToDrain == MaxConn % U32

DrainDone == /\ main = "draining"
             /\ available >= PermitsToDrain
             /\ Exit("drained")

\* Mutant: wait_for_connections() without the timeout around it.
NoDrainTimeout == FALSE

\* 30 seconds have passed, and wait_for_connections() is still not ready.
DrainTimeout == /\ main = "draining"
                /\ available < PermitsToDrain
                /\ Exit("timeout")

MainStep == \/ \E l \in Listeners : Bind(l)
            \/ AllBound \/ JoinedIdle \/ JoinedBusy
            \/ DrainDone \/ DrainTimeout

\* The process is gone.
Exited == main = "exited" /\ UNCHANGED vars

-----------------------------------------------------------------------------

Step == \/ \E c \in Conns, l \in Listeners : Connect(c, l)
        \/ \E l \in Listeners : LoopStep(l)
        \/ \E c \in Conns : ConnStep(c) \/ TunnelStep(c)
        \/ MainStep \/ BindFails \/ SignalFails \/ Shutdown
        \/ Exited

Next == Step \/ \E l \in Listeners : AcceptError(l)

SafeSpec == Init /\ [][Next]_vars

\* The runtime runs every ready task, and the timer of the drain fires.  Nothing is
\* assumed of clients and targets: a connection may stay as it is for ever.
Fairness == WF_vars(MainStep) /\ \A l \in Listeners : WF_vars(LoopStep(l))

Spec == SafeSpec /\ Fairness

\* accept() never fails.
QuietSpec == Init /\ [][Step]_vars /\ Fairness

-----------------------------------------------------------------------------
(* Properties                                                              *)

\* No permit is lost and none is made up, on any of the paths that drop one
\* (server.rs:246, :255, the early returns of handle_connection, the hand-over to a waiter).
PermitsConserved == available + Cardinality(Holders) = MaxConn

\* Nobody waits for a permit while one is free.
NoIdlePermit == waiters # <<>> => available = 0

\* The wait queue and the loops agree: a loop that waits in acquire_owned() has exactly one
\* connection, which stands in the queue exactly once or owns the permit not yet used; no other
\* connection waits, and none while a permit is free (server.rs:229-233: the loop blocks, not a task).
WaitQueueSound ==
    /\ {waiters[i] : i \in DOMAIN waiters} = {c \in Conns : conn[c] = "waiting"}
    /\ \A i, j \in DOMAIN waiters : waiters[i] = waiters[j] => i = j
    /\ \A c \in Conns : conn[c] \in {"waiting", "granted"} => loop[on[c]] = "acquire"
    /\ \A c, d \in Conns : /\ {conn[c], conn[d]} \subseteq {"waiting", "granted"}
                           /\ on[c] = on[d]
                           => c = d
    /\ NoIdlePermit

\* What run()'s position and its last log line mean to AdmissionControl.
Phase  == [binding |-> "starting", running |-> "serving", joining |-> "serving",
           draining |-> "draining", exited |-> "ended"]
Report == [none |-> "none", error |-> "failed", idle |-> "clean", drained |-> "clean",
           timeout |-> "forced"]

\* Server implements AdmissionControl: at most MaxConn connections own a permit, none is
\* admitted once the drain has begun, "drained" and "idle" are logged only when none
\* is left (server.rs:200-218), and a drain that has begun ends.
AC == INSTANCE AdmissionControl WITH
        admitted <- Holders,
        phase    <- Phase[main],
        report   <- Report[outcome]

ACSpec == AC!Spec

Task(c) == INSTANCE ConnTask WITH
             handler <- IF conn[c] = "http" THEN "running" ELSE "over",
             tunnel  <- tunnel[c]

HandlerStep(c) == conn[c] = "http" \/ tunnel[c] # "none" => [Task(c)!Next]_(Task(c)!vars)

\* A connection in the hands of the HTTP handler, or left to its tunnel, moves as these two do
\* and in no other way until the process ends, also when another one's permit is handed on
\* (HttpHandler implements the other side; server.rs:254-255, http_handler.rs:138-169).
HandlersFollowConnTask == [][main' # "exited" => \A c \in Conns : HandlerStep(c)]_vars

\* Clients that do not fall silent: each connection's task gets on.  Tunnels may stay open.
FairClients == \A c \in Conns : WF_vars(ConnStep(c))

\* As long as clients do not fall silent, a connection that waits for a permit gets one although
\* others keep arriving on every listener: the semaphore's queue is fair (server.rs:229).
WaiterServed == FairClients => \A c \in Conns : conn[c] = "waiting" ~> conn[c] # "waiting"

\* Once all loops have stopped the process ends, whatever the connections that are
\* left do (server.rs:204-215).
StoppedServerExits == Joinable ~> main = "exited"

-----------------------------------------------------------------------------
(* What the documents say and the code does not do                         *)

\* requirement.md:347: on Ctrl-C accepting stops, and existing connections get at most 30 s.
ShutdownEnds == main = "joining" ~> main = "exited"

\* server.rs:278: "When we can acquire all permits, all connections are done".
DrainWaitsForTunnels ==
    [][main # "exited" /\ outcome' \in {"idle", "drained"} => Tunnels = {}]_vars
=============================================================================
