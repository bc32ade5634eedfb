---------------------------- MODULE HttpHandler ----------------------------
(***************************************************************************)
(* src/protocol/http_handler.rs: handle_http (and handle_http_generic, the *)
(* same over TLS) on one client connection.  hyper hands the requests to   *)
(* the service one after the other; proxy_request opens a connection of    *)
(* its own for each request and spawns a task that drives it;              *)
(* handle_connect spawns a task for the tunnel and answers 200 at once.    *)
(*                                                                         *)
(* Requests may be pipelined: the whole script may have arrived from the   *)
(* start.  Headers and bodies are left out; what is kept of a response is  *)
(* which target sent it, to which request, and whether it is complete.     *)
(***************************************************************************)
EXTENDS Naturals, Sequences

CONSTANTS Scripts,       \* the sequences of requests a client may send on its connection
          MaxRequests,   \* bound: the length of the longest
          Targets,
          None           \* no target

Kinds == {"forward", "nohost", "connect"}

Requests == 1 .. MaxRequests

ASSUME ScriptsAssumption == /\ MaxRequests \in Nat
                            /\ Scripts \subseteq Seq([kind : Kinds, target : Targets])
                            /\ \A s \in Scripts : Len(s) <= MaxRequests
ASSUME NoneAssumption    == None \notin Targets

VARIABLES script,     \* the client's requests
          taken,      \* how many of them the service has been called with
          serve,      \* where serve_connection is
          upstream,   \* the connection opened for each request
          replies,    \* the responses written to the client
          tunnel      \* where the tunnel task is

vars == <<script, taken, serve, upstream, replies, tunnel>>

\* "idle": between two requests; "dialing", "sending", "collecting": the awaits of
\* proxy_request; "switching": 200 to CONNECT is being written; "upgraded": the socket is handed
\* over; "over": it has returned.
ServeState == {"idle", "dialing", "sending", "collecting", "switching", "upgraded", "over"}

\* `to`: whom it is connected to; `got`: the request it carries; `answer`: how much of the
\* response has come in.
NoUpstream == [at |-> "none", to |-> None, got |-> 0, answer |-> "none"]

TunnelState == {"none", "waiting", "dialing", "open", "ended"}

TypeOK ==
    /\ script \in Scripts
    /\ taken \in 0 .. Len(script)
    /\ serve \in ServeState
    /\ upstream \in [Requests ->
                        [at : {"open", "closed"}, to : Targets, got : 0 .. MaxRequests,
                         answer : {"none", "head", "whole", "cut"}] \union {NoUpstream}]
    /\ replies \in Seq([status : {"200", "400", "502", "relayed"}, from : Targets \union {None}])
    /\ tunnel \in TunnelState

Init == /\ script \in Scripts
        /\ taken = 0
        /\ serve = "idle"
        /\ upstream = [i \in Requests |-> NoUpstream]
        /\ replies = <<>>
        /\ tunnel = "none"

Current == script[taken]

Reply(status, from) == replies' = Append(replies, [status |-> status, from |-> from])

-----------------------------------------------------------------------------
(* serve_connection and the service                                        *)

\* Mutant: the next request is taken while the previous response is collected.
TakeEarly(kind) == /\ serve \in {"idle", "collecting"}
                   /\ taken < Len(script)
                   /\ script[taken + 1].kind = kind
                   /\ taken' = taken + 1

\* The next request goes to the service, once the previous one is answered.
Take(kind) == /\ serve = "idle"
              /\ taken < Len(script)
              /\ script[taken + 1].kind = kind
              /\ taken' = taken + 1

\* A request without a host in its URI is answered 400, and the connection kept.
TakeNoHost == /\ Take("nohost")
              /\ Reply("400", None)
              /\ UNCHANGED <<script, serve, upstream, tunnel>>

TakeForward == /\ Take("forward")
               /\ serve' = "dialing"
               /\ UNCHANGED <<script, upstream, replies, tunnel>>

\* handle_connect: the tunnel task waits for the upgrade; 200 whatever the target will do.
TakeConnect == /\ Take("connect")
               /\ tunnel' = "waiting"
               /\ Reply("200", None)
               /\ serve' = "switching"
               /\ UNCHANGED <<script, upstream>>

\* serve_connection returns early: the client closes or asks for it, hyper finds a malformed
\* request or cannot write.  The service's future is dropped with all it owns.
ServeEnds == /\ serve \notin {"upgraded", "over"}
             /\ serve' = "over"
             /\ UNCHANGED <<script, taken, upstream, replies, tunnel>>

-----------------------------------------------------------------------------
(* proxy_request                                                           *)

\* Mutant: the first connection's target is remembered.
FirstTarget == script[1].target

\* Mutant: the host is missing, and an empty one is dialled.
NoTarget == None

\* The connection to the request's own target; the handshake makes no I/O.
DialTarget == Current.target

Dialled == /\ serve = "dialing"
           /\ upstream' = [upstream EXCEPT ![taken] =
                             [NoUpstream EXCEPT !.at = "open", !.to = DialTarget]]
           /\ serve' = "sending"
           /\ UNCHANGED <<script, taken, replies, tunnel>>

DialFails == /\ serve = "dialing"
             /\ Reply("502", None)
             /\ serve' = "idle"
             /\ UNCHANGED <<script, taken, upstream, tunnel>>

\* The driver task writes the request.
Forward == /\ serve = "sending"
           /\ upstream[taken].at = "open" /\ upstream[taken].got = 0
           /\ upstream' = [upstream EXCEPT ![taken].got = taken]
           /\ UNCHANGED <<script, taken, serve, replies, tunnel>>

\* Mutant: a response that has come in whole by then goes unnoticed.
HeadOnly == /\ serve = "sending"
            /\ upstream[taken].answer = "head"
            /\ serve' = "collecting"
            /\ UNCHANGED <<script, taken, upstream, replies, tunnel>>

\* send_request() returns with the head of the response, whose body is then collected.
HeadArrives == /\ serve = "sending"
               /\ upstream[taken].answer # "none"
               /\ serve' = "collecting"
               /\ UNCHANGED <<script, taken, upstream, replies, tunnel>>

\* collect() returns the body only when it has come to its end.
Complete == {"whole"}

\* collect() is done: the response is written, and `sender` dropped.
Relay == /\ serve = "collecting"
         /\ upstream[taken].answer \in Complete
         /\ Reply("relayed", upstream[taken].to)
         /\ serve' = "idle"
         /\ UNCHANGED <<script, taken, upstream, tunnel>>

\* send_request() or collect() fails: the error ends serve_connection without a response.
ExchangeFails == /\ \/ /\ serve = "sending"
                       /\ upstream[taken].at = "closed" /\ upstream[taken].answer = "none"
                    \/ serve = "collecting" /\ upstream[taken].answer = "cut"
                 /\ serve' = "over"
                 /\ UNCHANGED <<script, taken, upstream, replies, tunnel>>

-----------------------------------------------------------------------------
(* The driver task of the connection of request i                          *)

\* Mutant: the sender is kept for a later request.
KeptInUse(i) == i <= taken

\* `sender`, or the body that is being collected, is alive.
InUse(i) == i = taken /\ serve \in {"sending", "collecting"}

\* Without a sender the driver closes the connection.
DriverEnds(i) == /\ upstream[i].at = "open"
                 /\ ~InUse(i)
                 /\ upstream' = [upstream EXCEPT ![i].at = "closed"]
                 /\ UNCHANGED <<script, taken, serve, replies, tunnel>>

-----------------------------------------------------------------------------
(* Targets (external)                                                      *)

\* The head of a response, and later its end.
Answer(i) == /\ upstream[i].at = "open" /\ upstream[i].got # 0
             /\ \/ upstream[i].answer = "none" /\ upstream' = [upstream EXCEPT ![i].answer = "head"]
                \/ upstream[i].answer = "head" /\ upstream' = [upstream EXCEPT ![i].answer = "whole"]
             /\ UNCHANGED <<script, taken, serve, replies, tunnel>>

\* The target closes; a body that was under way breaks off.
TargetCloses(i) == /\ upstream[i].at = "open"
                   /\ upstream' = [upstream EXCEPT ![i].at = "closed",
                                     ![i].answer = IF @ = "head" THEN "cut" ELSE @]
                   /\ UNCHANGED <<script, taken, serve, replies, tunnel>>

-----------------------------------------------------------------------------
(* The tunnel task of handle_connect                                       *)

\* 200 is written: hyper fulfils the upgrade, which makes the tunnel task ready,
Upgrade == /\ serve = "switching" /\ tunnel = "waiting"
           /\ serve' = "upgraded"
           /\ tunnel' = "dialing"
           /\ UNCHANGED <<script, taken, upstream, replies>>

\* and serve_connection returns: on another thread the tunnel task may be further by then.
Return == /\ serve = "upgraded"
          /\ serve' = "over"
          /\ UNCHANGED <<script, taken, upstream, replies, tunnel>>

\* The connection ended before: upgrade::on() returns an error.
UpgradeFails == /\ serve = "over" /\ tunnel = "waiting"
                /\ tunnel' = "ended"
                /\ UNCHANGED <<script, taken, serve, upstream, replies>>

\* Mutant: the target is dialled without waiting for the upgrade.
DialEarly == /\ tunnel \in {"waiting", "dialing"}
             /\ tunnel' \in {"open", "ended"}
             /\ UNCHANGED <<script, taken, serve, upstream, replies>>

\* The target is dialled; when that fails the client's socket is dropped.
TunnelDials == /\ tunnel = "dialing"
               /\ tunnel' \in {"open", "ended"}
               /\ UNCHANGED <<script, taken, serve, upstream, replies>>

\* copy_bidirectional returns.
TunnelEnds == /\ tunnel = "open"
              /\ tunnel' = "ended"
              /\ UNCHANGED <<script, taken, serve, upstream, replies>>

-----------------------------------------------------------------------------

Service == \/ TakeNoHost \/ TakeForward \/ TakeConnect
           \/ Dialled \/ DialFails \/ Forward \/ HeadArrives \/ Relay \/ ExchangeFails
           \/ Upgrade \/ Return

Next == \/ Service \/ ServeEnds
        \/ UpgradeFails \/ TunnelDials \/ TunnelEnds
        \/ \E i \in Requests : DriverEnds(i) \/ Answer(i) \/ TargetCloses(i)

SafeSpec == Init /\ [][Next]_vars

\* The runtime runs ready tasks.  Targets need not answer, and clients not close.
Spec == /\ SafeSpec
        /\ WF_vars(Service) /\ WF_vars(UpgradeFails)
        /\ \A i \in Requests : WF_vars(DriverEnds(i))

-----------------------------------------------------------------------------
(* Properties                                                              *)

\* The responses answer the requests in their order, one each, and say what happened: a relayed
\* one is the whole answer of this request's own target, 502 means that no connection was
\* made for it, 400 that nothing was tried (http_handler.rs:39-110).
RepliesTruthful ==
    \A k \in DOMAIN replies :
        /\ k <= taken
        /\ replies[k].status = "400" <=> script[k].kind = "nohost"
        /\ replies[k].status = "200" <=> script[k].kind = "connect"
        /\ IF replies[k].status = "relayed"
           THEN /\ replies[k].from = script[k].target
                /\ upstream[k].got = k /\ upstream[k].answer = "whole"
           ELSE upstream[k] = NoUpstream

\* Pipelined requests reach their targets in the client's order: none is sent before all earlier
\* ones are answered, and none at all, nor any response, after a CONNECT (:14-22, :127-173).
OneAtATime ==
    \A k \in Requests :
        upstream[k].at # "none" \/ Len(replies) >= k =>
            /\ Len(replies) >= k - 1
            /\ \A j \in 1 .. k - 1 : script[j].kind # "connect"

\* However a request ends, its connection to the target is given up once the next request is
\* taken or the client's connection is over: the driver tasks do not pile up (:75-79).
UpstreamsReleased ==
    \A i \in Requests : upstream[i].at = "open" /\ (taken > i \/ serve = "over")
                         ~> upstream[i].at = "closed"

\* proxy_request has no timeout, so a target can hold a client for ever, and it is the only one
\* who can: when each target answers or closes in the end, every request is answered or the
\* connection ended, and no tunnel task is left waiting for an upgrade (:56, :98, :102, :139).
RequestsSettled ==
    (\A i \in Requests : WF_vars(Answer(i) \/ TargetCloses(i)))
    => \A k \in Requests :
           taken >= k ~> (Len(replies) >= k \/ serve = "over") /\ tunnel # "waiting"

\* The two tasks as Server knows them.  A tunnel task that waits in vain does nothing more.
Task == INSTANCE ConnTask WITH
          handler <- IF serve = "over" THEN "over" ELSE "running",
          tunnel  <- IF serve = "over" /\ tunnel \in {"waiting", "ended"} THEN "none" ELSE tunnel

\* A tunnel's target is dialled only by a task that has got the client's socket, after the 200;
\* a handler that has returned grants no upgrade; and a CONNECT never keeps the handler, and with
\* it the permit, however slow the target or long the tunnel
\* (http_handler.rs:127-173, server.rs:254-255).
TaskSpec == Task!Spec
=============================================================================
