------------------------- MODULE HttpHandlerProofs --------------------------
(***************************************************************************)
(* Theorems about HttpHandler for scripts of every length and any set of   *)
(* targets.                                                                *)
(***************************************************************************)
EXTENDS HttpHandler, SequenceTheorems, TLAPS

\* The awaits of proxy_request.
Proxying == {"dialing", "sending", "collecting"}

\* How many requests are answered is known wherever serve_connection is, and how it came
\* there.
Position ==
    /\ serve = "idle" => Len(replies) = taken
    /\ serve \in Proxying => /\ taken > 0 /\ Len(replies) = taken - 1
                             /\ script[taken].kind = "forward"
    /\ serve = "switching" => Len(replies) = taken /\ tunnel = "waiting"
    /\ serve = "upgraded" => Len(replies) = taken /\ tunnel \in {"dialing", "open", "ended"}
    /\ serve = "over" => Len(replies) \in {taken - 1, taken}

\* A CONNECT is the last request, and the only one with a tunnel task; that one goes on when
\* the socket has been handed to it, whether or not serve_connection has returned by then.
ConnectIsLast ==
    /\ \A j \in 1 .. taken : script[j].kind = "connect" => j = taken /\ tunnel # "none"
    /\ tunnel # "none" => serve \in {"switching", "upgraded", "over"}
    /\ tunnel \in {"dialing", "open"} => serve \in {"upgraded", "over"}

\* A connection is made for a request that is being forwarded or was, to that request's target,
\* and carries that request.
Upstreams ==
    /\ \A i \in Requests : upstream[i].at # "none" =>
          /\ i <= taken
          /\ script[i].kind = "forward"
          /\ upstream[i].to = script[i].target
          /\ upstream[i].got \in {0, i}
          /\ upstream[i].answer # "none" => upstream[i].got = i
    /\ serve = "dialing" => upstream[taken] = NoUpstream
    /\ serve \in {"sending", "collecting"} => upstream[taken].at # "none"

IInv == TypeOK /\ Position /\ ConnectIsLast /\ Upstreams /\ RepliesTruthful

-----------------------------------------------------------------------------
(* Requests and scripts                                                    *)

Request == [kind : Kinds, target : Targets]

\* A request that has been taken is one of the script.
LEMMA TakenIsRequest ==
  ASSUME TypeOK
  PROVE  /\ script \in Seq(Request) /\ Len(script) \in Nat
         /\ Len(script) <= MaxRequests /\ MaxRequests \in Nat /\ taken \in Nat
         /\ \A j \in 1 .. taken : /\ j \in Requests
                                  /\ script[j].kind \in Kinds /\ script[j].target \in Targets
<1>1. script \in Seq(Request) /\ Len(script) <= MaxRequests /\ MaxRequests \in Nat
  BY ScriptsAssumption DEF TypeOK, Request
<1>2. taken \in Nat /\ Len(script) \in Nat /\ taken <= Len(script)
  BY <1>1, LenProperties DEF TypeOK
<1>3. \A j \in 1 .. taken : j \in 1 .. Len(script) /\ j \in Requests
  BY <1>1, <1>2 DEF Requests
<1>4. \A j \in 1 .. taken : script[j] \in Request
  BY <1>1, <1>3, ElementOfSeq
<1> QED BY <1>1, <1>2, <1>3, <1>4 DEF Request

LEMMA InitInv == Init => IInv
<1> SUFFICES ASSUME Init PROVE IInv
  OBVIOUS
<1>1. script \in Seq(Request) /\ Len(script) \in Nat
  BY ScriptsAssumption, LenProperties DEF Init, Request
<1>2. TypeOK
  BY <1>1 DEF Init, TypeOK, ServeState, TunnelState
<1> QED BY <1>1, <1>2 DEF Init, IInv, Position, ConnectIsLast, Upstreams, RepliesTruthful,
          Proxying, NoUpstream

-----------------------------------------------------------------------------
(* Replies                                                                 *)

Replies == [status : {"200", "400", "502", "relayed"}, from : Targets \union {None}]

\* What has been said stays true while the script is served further: a connection that was not
\* made is not made later, and one whose answer was whole keeps it.
LEMMA RepliesKept ==
  ASSUME TypeOK, RepliesTruthful, replies' = replies, script' = script,
         taken' \in {taken, taken + 1},
         \A k \in DOMAIN replies :
             \/ upstream'[k] = upstream[k]
             \/ /\ upstream[k] # NoUpstream
                /\ upstream'[k].got = upstream[k].got
                /\ upstream[k].answer = "whole" => upstream'[k].answer = "whole"
  PROVE  RepliesTruthful'
<1>1. taken \in Nat
  BY TakenIsRequest
<1>2. DOMAIN replies \subseteq Nat
  BY LenProperties DEF TypeOK
<1> QED BY <1>1, <1>2 DEF RepliesTruthful

\* The reply to the request that was taken last.
LEMMA Answered ==
  ASSUME TypeOK, RepliesTruthful, taken' > 0, Len(replies) = taken' - 1,
         taken' \in {taken, taken + 1},
         NEW status \in {"200", "400", "502", "relayed"}, NEW from \in Targets \union {None},
         Reply(status, from), UNCHANGED <<script, upstream>>,
         status = "400" <=> script[taken'].kind = "nohost",
         status = "200" <=> script[taken'].kind = "connect",
         IF status = "relayed"
         THEN /\ from = script[taken'].target
              /\ upstream[taken'].got = taken' /\ upstream[taken'].answer = "whole"
         ELSE upstream[taken'] = NoUpstream
  PROVE  /\ replies' \in Seq(Replies) /\ Len(replies') = taken'
         /\ RepliesTruthful'
<1> DEFINE r == [status |-> status, from |-> from]
<1>1. replies \in Seq(Replies) /\ r \in Replies /\ replies' = Append(replies, r)
  BY DEF Reply, Replies, TypeOK
<1>2. /\ replies' \in Seq(Replies)
      /\ Len(replies') = Len(replies) + 1
      /\ \A i \in 1 .. Len(replies) : replies'[i] = replies[i]
      /\ replies'[Len(replies) + 1] = r
  BY <1>1, AppendProperties
<1>3. taken \in Nat /\ taken' \in Nat
  BY TakenIsRequest
<1>4. DOMAIN replies = 1 .. Len(replies) /\ DOMAIN replies' = 1 .. Len(replies')
  BY <1>1, <1>2, LenProperties
<1>5. replies'[taken'] = r /\ Len(replies') = taken'
  BY <1>2, <1>3
<1>6. ASSUME NEW k \in DOMAIN replies'
      PROVE  /\ k <= taken'
             /\ replies'[k].status = "400" <=> script[k].kind = "nohost"
             /\ replies'[k].status = "200" <=> script[k].kind = "connect"
             /\ IF replies'[k].status = "relayed"
                THEN /\ replies'[k].from = script[k].target
                     /\ upstream[k].got = k /\ upstream[k].answer = "whole"
                ELSE upstream[k] = NoUpstream
  <2>1. CASE k = taken'
    BY <1>3, <1>5, <2>1
  <2>2. CASE k # taken'
    <3>1. k \in DOMAIN replies /\ replies'[k] = replies[k]
      BY <1>2, <1>3, <1>4, <1>5, <1>6, <2>2
    <3>2. k <= taken'
      BY <1>3, <1>4, <1>5
    <3> QED BY <3>1, <3>2 DEF RepliesTruthful
  <2> QED BY <2>1, <2>2
<1>7. RepliesTruthful'
  BY <1>6 DEF RepliesTruthful
<1> QED BY <1>2, <1>5, <1>7

-----------------------------------------------------------------------------
(* The service                                                             *)

\* The next request of the script is one of it.
LEMMA TakePossible ==
  ASSUME TypeOK, NEW kind, Take(kind)
  PROVE  /\ serve = "idle" /\ script[taken'].kind = kind /\ taken' = taken + 1
         /\ taken \in Nat /\ taken' \in 0 .. Len(script) /\ taken' \in Requests
  BY TakenIsRequest DEF Take, Requests

\* A request that is taken is no CONNECT unless it becomes the last; earlier ones were none.
LEMMA TakeKeepsOrder ==
  ASSUME IInv, NEW kind, Take(kind), script' = script,
         kind = "connect" => tunnel' # "none" /\ serve' = "switching",
         tunnel' # "none" => kind = "connect" /\ tunnel' = "waiting"
  PROVE  ConnectIsLast'
<1>1. serve = "idle" /\ script[taken'].kind = kind /\ taken' = taken + 1 /\ taken \in Nat
  BY TakePossible DEF IInv
<1>2. \A j \in 1 .. taken : script[j].kind # "connect"
  BY <1>1 DEF IInv, ConnectIsLast
<1>3. \A j \in 1 .. taken' : j \in 1 .. taken \/ j = taken'
  BY <1>1
<1> QED BY <1>1, <1>2, <1>3 DEF ConnectIsLast

\* Nothing has been opened for a request before it is taken.
LEMMA NotOpened ==
  ASSUME TypeOK, Upstreams, NEW k \in Requests, k > taken
  PROVE  upstream[k] = NoUpstream
<1>1. upstream[k].at = "none"
  BY TakenIsRequest DEF Upstreams, Requests
<1>2. upstream[k] \in [at : {"open", "closed"}, to : Targets, got : 0 .. MaxRequests,
                       answer : {"none", "head", "whole", "cut"}] \union {NoUpstream}
  BY DEF TypeOK
<1> QED BY <1>1, <1>2

\* A request without a host: 400, and nothing else.
LEMMA TakeNoHostPreserves ==
  ASSUME IInv, TakeNoHost
  PROVE  IInv'
<1> USE DEF IInv, TakeNoHost
<1>1. /\ serve = "idle" /\ script[taken'].kind = "nohost" /\ taken' = taken + 1
      /\ taken \in Nat /\ taken' \in 0 .. Len(script) /\ taken' \in Requests
  BY TakePossible
<1>2. upstream[taken'] = NoUpstream
  BY <1>1, NotOpened
<1>3. replies' \in Seq(Replies) /\ Len(replies') = taken' /\ RepliesTruthful'
  BY <1>1, <1>2, Answered DEF Position
<1>4. TypeOK'
  BY <1>1, <1>3 DEF TypeOK, Replies
<1>5. Position' /\ Upstreams'
  BY <1>1, <1>3 DEF Position, Upstreams, Proxying
<1>6. ConnectIsLast'
  BY <1>1, TakeKeepsOrder DEF ConnectIsLast
<1> QED BY <1>3, <1>4, <1>5, <1>6

\* A request to forward waits for its connection.
LEMMA TakeForwardPreserves ==
  ASSUME IInv, TakeForward
  PROVE  IInv'
<1> USE DEF IInv, TakeForward
<1>1. /\ serve = "idle" /\ script[taken'].kind = "forward" /\ taken' = taken + 1
      /\ taken \in Nat /\ taken' \in 0 .. Len(script) /\ taken' \in Requests
  BY TakePossible
<1>2. upstream[taken'] = NoUpstream
  BY <1>1, NotOpened
<1>3. TypeOK'
  BY <1>1 DEF TypeOK, ServeState
<1>4. Position' /\ Upstreams'
  BY <1>1, <1>2 DEF Position, Upstreams, Proxying
<1>5. ConnectIsLast'
  BY <1>1, TakeKeepsOrder DEF ConnectIsLast
<1>6. RepliesTruthful'
  BY <1>1, RepliesKept
<1> QED BY <1>3, <1>4, <1>5, <1>6

\* A CONNECT is answered before anything is dialled, and is the last request.
LEMMA TakeConnectPreserves ==
  ASSUME IInv, TakeConnect
  PROVE  IInv'
<1> USE DEF IInv, TakeConnect
<1>1. /\ serve = "idle" /\ script[taken'].kind = "connect" /\ taken' = taken + 1
      /\ taken \in Nat /\ taken' \in 0 .. Len(script) /\ taken' \in Requests
  BY TakePossible
<1>2. upstream[taken'] = NoUpstream
  BY <1>1, NotOpened
<1>3. replies' \in Seq(Replies) /\ Len(replies') = taken' /\ RepliesTruthful'
  BY <1>1, <1>2, Answered DEF Position
<1>4. TypeOK'
  BY <1>1, <1>3 DEF TypeOK, Replies, ServeState, TunnelState
<1>5. Position' /\ Upstreams'
  BY <1>1, <1>3 DEF Position, Upstreams, Proxying
<1>6. ConnectIsLast'
  BY <1>1, TakeKeepsOrder DEF ConnectIsLast
<1> QED BY <1>3, <1>4, <1>5, <1>6

\* serve_connection ends wherever it is.
LEMMA ServeEndsPreserves ==
  ASSUME IInv, ServeEnds \/ ExchangeFails
  PROVE  IInv'
<1> USE DEF IInv, ServeEnds, ExchangeFails
<1>1. taken \in Nat
  BY TakenIsRequest
<1>2. TypeOK'
  BY DEF TypeOK, ServeState
<1>3. Len(replies) \in {taken - 1, taken}
  BY <1>1 DEF TypeOK, ServeState, Position, Proxying
<1>4. Position'
  BY <1>3 DEF Position, Proxying
<1>5. ConnectIsLast' /\ Upstreams'
  BY <1>3 DEF Position, ConnectIsLast, Upstreams, Proxying
<1>6. RepliesTruthful'
  BY RepliesKept
<1> QED BY <1>2, <1>4, <1>5, <1>6

-----------------------------------------------------------------------------
(* proxy_request                                                           *)

Upstream == [at : {"open", "closed"}, to : Targets, got : 0 .. MaxRequests,
             answer : {"none", "head", "whole", "cut"}]

\* The request that is being forwarded has no reply yet.
LEMMA CurrentUnanswered ==
  ASSUME IInv, serve \in Proxying
  PROVE  /\ taken \in Requests /\ taken \in Nat /\ MaxRequests \in Nat
         /\ script[taken].kind = "forward" /\ script[taken].target \in Targets
         /\ taken \notin DOMAIN replies
<1>1. taken \in 1 .. taken /\ taken \in Nat /\ taken > 0 /\ Len(replies) = taken - 1
  BY TakenIsRequest DEF IInv, Position
<1>2. DOMAIN replies = 1 .. Len(replies)
  BY LenProperties DEF IInv, TypeOK
<1> QED BY <1>1, <1>2, TakenIsRequest DEF IInv, Position

\* The connection is to the target of the request it is made for.
LEMMA DialledPreserves ==
  ASSUME IInv, Dialled
  PROVE  IInv'
<1>1. /\ taken \in Requests /\ taken \in Nat /\ MaxRequests \in Nat
      /\ script[taken].kind = "forward" /\ script[taken].target \in Targets
      /\ taken \notin DOMAIN replies
  BY CurrentUnanswered DEF Dialled, Proxying
<1>2. PICK up \in Upstream :
          /\ upstream' = [upstream EXCEPT ![taken] = up]
          /\ up.at = "open" /\ up.to = script[taken].target
          /\ up.got = 0 /\ up.answer = "none"
  <2>1. [[NoUpstream EXCEPT !.at = "open"] EXCEPT !.to = script[taken].target]
           = [at |-> "open", to |-> script[taken].target, got |-> 0, answer |-> "none"]
    <3>1. [NoUpstream EXCEPT !.at = "open"]
            = [at |-> "open", to |-> None, got |-> 0, answer |-> "none"]
      BY DEF NoUpstream
    <3>2. ASSUME NEW t
          PROVE  [[at |-> "open", to |-> None, got |-> 0, answer |-> "none"] EXCEPT !.to = t]
                   = [at |-> "open", to |-> t, got |-> 0, answer |-> "none"]
      OBVIOUS
    <3> QED BY <3>1, <3>2, Zenon
  <2>2. [at |-> "open", to |-> script[taken].target, got |-> 0, answer |-> "none"] \in Upstream
    BY <1>1 DEF Upstream
  <2> QED BY <2>1, <2>2 DEF Dialled, DialTarget, Current
<1>3. TypeOK'
  <2>1. upstream' \in [Requests -> Upstream \union {NoUpstream}]
    BY <1>2 DEF IInv, TypeOK, Upstream
  <2>2. serve' \in ServeState /\ UNCHANGED <<script, taken, replies, tunnel>>
    BY DEF Dialled, ServeState
  <2> QED BY <2>1, <2>2 DEF IInv, TypeOK, Upstream
<1>4. Position' /\ ConnectIsLast'
  BY DEF Dialled, IInv, Position, ConnectIsLast, Proxying
<1>5. Upstreams'
  <2>1. \A i \in Requests : upstream'[i] = IF i = taken THEN up ELSE upstream[i]
    BY <1>2 DEF IInv, TypeOK
  <2>2. serve' = "sending" /\ taken' = taken /\ script' = script
    BY DEF Dialled
  <2> QED BY <1>1, <1>2, <2>1, <2>2 DEF IInv, Upstreams
<1>6. RepliesTruthful'
  <2>1. \A k \in DOMAIN replies : upstream'[k] = upstream[k]
    BY <1>1, <1>2 DEF IInv, TypeOK
  <2> QED BY <2>1, RepliesKept DEF Dialled, IInv
<1> QED BY <1>3, <1>4, <1>5, <1>6 DEF IInv

\* A dial that fails is answered 502.
LEMMA DialFailsPreserves ==
  ASSUME IInv, DialFails
  PROVE  IInv'
<1> USE DEF IInv, DialFails
<1>1. taken \in Nat /\ script[taken].kind = "forward"
  BY CurrentUnanswered DEF Proxying
<1>2. replies' \in Seq(Replies) /\ Len(replies') = taken' /\ RepliesTruthful'
  BY <1>1, Answered DEF Position, Upstreams, Proxying
<1>3. TypeOK'
  BY <1>2 DEF TypeOK, Replies, ServeState
<1>4. Position' /\ ConnectIsLast' /\ Upstreams'
  BY <1>2 DEF Position, ConnectIsLast, Upstreams, Proxying
<1> QED BY <1>2, <1>3, <1>4

\* The driver task writes the request on the connection made for it.
LEMMA ForwardPreserves ==
  ASSUME IInv, Forward
  PROVE  IInv'
<1> USE DEF IInv, Forward
<1>1. /\ taken \in Requests /\ taken \in Nat /\ MaxRequests \in Nat
      /\ taken \notin DOMAIN replies
  BY CurrentUnanswered DEF Proxying
<1>2. upstream[taken] \in Upstream
  BY <1>1 DEF TypeOK, Upstream, NoUpstream
<1>3. /\ upstream' = [upstream EXCEPT ![taken] = [upstream[taken] EXCEPT !.got = taken]]
      /\ [upstream[taken] EXCEPT !.got = taken] \in Upstream
  BY <1>1, <1>2 DEF Upstream, Requests
<1>4. TypeOK'
  BY <1>3 DEF TypeOK, Upstream
<1>5. Position' /\ ConnectIsLast'
  BY DEF Position, ConnectIsLast, Proxying
<1>6. Upstreams'
  BY <1>1, <1>2, <1>3 DEF TypeOK, Upstreams, Upstream
<1>7. RepliesTruthful'
  BY <1>1, <1>3, RepliesKept DEF TypeOK
<1> QED BY <1>4, <1>5, <1>6, <1>7

\* The head of the response is there.
LEMMA HeadArrivesPreserves ==
  ASSUME IInv, HeadArrives
  PROVE  IInv'
<1> USE DEF IInv, HeadArrives
<1>1. TypeOK'
  BY DEF TypeOK, ServeState
<1>2. Position' /\ ConnectIsLast' /\ Upstreams'
  BY DEF Position, ConnectIsLast, Upstreams, Proxying
<1>3. RepliesTruthful'
  BY RepliesKept
<1> QED BY <1>1, <1>2, <1>3

\* The whole response of the request's own target is the reply.
LEMMA RelayPreserves ==
  ASSUME IInv, Relay
  PROVE  IInv'
<1> USE DEF IInv, Relay, Complete
<1>1. /\ taken \in Requests /\ taken \in Nat /\ script[taken].kind = "forward"
      /\ script[taken].target \in Targets
  BY CurrentUnanswered DEF Proxying
<1>2. /\ upstream[taken].to = script[taken].target
      /\ upstream[taken].got = taken /\ upstream[taken].answer = "whole"
  BY <1>1 DEF Upstreams
<1>3. replies' \in Seq(Replies) /\ Len(replies') = taken' /\ RepliesTruthful'
  BY <1>1, <1>2, Answered DEF Position, Proxying
<1>4. TypeOK'
  BY <1>3 DEF TypeOK, Replies, ServeState
<1>5. Position' /\ ConnectIsLast' /\ Upstreams'
  BY <1>3 DEF Position, ConnectIsLast, Upstreams, Proxying
<1> QED BY <1>3, <1>4, <1>5

-----------------------------------------------------------------------------
(* The driver tasks and the targets                                        *)

\* Whatever closes a connection, or adds to its response.
LEMMA UpstreamMoves ==
  ASSUME IInv, NEW i \in Requests, NEW up \in Upstream, upstream[i].at # "none",
         upstream' = [upstream EXCEPT ![i] = up],
         up.to = upstream[i].to, up.got = upstream[i].got,
         upstream[i].answer = "whole" => up.answer = "whole",
         up.answer # "none" => upstream[i].got # 0,
         UNCHANGED <<script, taken, serve, replies, tunnel>>
  PROVE  IInv'
<1>1. \A k \in Requests : upstream'[k] = IF k = i THEN up ELSE upstream[k]
  BY DEF IInv, TypeOK
<1>2. TypeOK'
  BY DEF IInv, TypeOK, Upstream
<1>3. Position' /\ ConnectIsLast'
  BY DEF IInv, Position, ConnectIsLast
<1>4. Upstreams'
  <2>1. up.at # "none"
    BY DEF Upstream
  <2>2. upstream[i] # NoUpstream /\ (serve \in Proxying => taken \in Requests)
    BY CurrentUnanswered DEF NoUpstream
  <2> QED BY <1>1, <2>1, <2>2 DEF IInv, Upstreams, Proxying
<1>5. RepliesTruthful'
  <2>1. DOMAIN replies \subseteq Requests
    <3>1. DOMAIN replies = 1 .. Len(replies) /\ Len(replies) \in Nat
      BY LenProperties DEF IInv, TypeOK
    <3>2. \A k \in DOMAIN replies : k \in 1 .. taken
      BY <3>1, TakenIsRequest DEF IInv, RepliesTruthful
    <3> QED BY <3>2, TakenIsRequest DEF IInv
  <2>2. upstream[i] # NoUpstream
    BY DEF NoUpstream
  <2> QED BY <1>1, <2>1, <2>2, RepliesKept DEF IInv
<1> QED BY <1>2, <1>3, <1>4, <1>5 DEF IInv

\* A connection that exists is more than NoUpstream.
LEMMA OpenIsUpstream ==
  ASSUME TypeOK, NEW i \in Requests, upstream[i].at = "open"
  PROVE  upstream[i] \in Upstream
  BY DEF TypeOK, Upstream, NoUpstream

LEMMA DriverEndsPreserves ==
  ASSUME IInv, NEW i \in Requests, DriverEnds(i)
  PROVE  IInv'
<1>1. upstream[i] \in Upstream
  BY OpenIsUpstream DEF DriverEnds, IInv
<1>2. PICK up \in Upstream : /\ upstream' = [upstream EXCEPT ![i] = up]
                             /\ up = [upstream[i] EXCEPT !.at = "closed"]
  BY <1>1 DEF DriverEnds, Upstream
<1>3. /\ up.to = upstream[i].to /\ up.got = upstream[i].got /\ up.answer = upstream[i].answer
  BY <1>1, <1>2 DEF Upstream
<1>4. upstream[i].answer # "none" => upstream[i].got # 0
  <2>1. upstream[i].answer # "none" => upstream[i].got = i
    BY DEF IInv, Upstreams, DriverEnds
  <2> QED BY <2>1, TakenIsRequest DEF IInv, Requests
<1>5. /\ up \in Upstream /\ upstream[i].at # "none"
      /\ upstream' = [upstream EXCEPT ![i] = up]
      /\ UNCHANGED <<script, taken, serve, replies, tunnel>>
  BY <1>2 DEF DriverEnds
<1> QED BY <1>3, <1>4, <1>5, UpstreamMoves

LEMMA AnswerPreserves ==
  ASSUME IInv, NEW i \in Requests, Answer(i)
  PROVE  IInv'
<1>1. upstream[i] \in Upstream
  BY OpenIsUpstream DEF Answer, IInv
<1>2. PICK a \in {"head", "whole"} : upstream[i].answer # "whole"
          /\ upstream' = [upstream EXCEPT ![i] = [upstream[i] EXCEPT !.answer = a]]
  BY DEF Answer
<1>3. PICK up \in Upstream : /\ upstream' = [upstream EXCEPT ![i] = up]
                             /\ up = [upstream[i] EXCEPT !.answer = a]
  BY <1>1, <1>2 DEF Upstream
<1>4. up.to = upstream[i].to /\ up.got = upstream[i].got
  BY <1>1, <1>3 DEF Upstream
<1> QED BY <1>2, <1>3, <1>4, UpstreamMoves DEF Answer

LEMMA TargetClosesPreserves ==
  ASSUME IInv, NEW i \in Requests, TargetCloses(i)
  PROVE  IInv'
<1>1. upstream[i] \in Upstream
  BY OpenIsUpstream DEF TargetCloses, IInv
<1>2. PICK a \in {"none", "head", "whole", "cut"} :
          /\ a = IF upstream[i].answer = "head" THEN "cut" ELSE upstream[i].answer
          /\ upstream' = [upstream EXCEPT ![i].at = "closed", ![i].answer = a]
  BY <1>1 DEF TargetCloses, Upstream
<1>3. [upstream EXCEPT ![i].at = "closed", ![i].answer = a]
        = [upstream EXCEPT ![i] = [[upstream[i] EXCEPT !.at = "closed"] EXCEPT !.answer = a]]
  BY DEF IInv, TypeOK
<1>4. PICK up \in Upstream :
          /\ up = [[upstream[i] EXCEPT !.at = "closed"] EXCEPT !.answer = a]
          /\ upstream' = [upstream EXCEPT ![i] = up]
  BY <1>1, <1>2, <1>3 DEF Upstream
<1>5. up.to = upstream[i].to /\ up.got = upstream[i].got /\ up.answer = a
  BY <1>1, <1>4 DEF Upstream
<1>6. upstream[i].answer # "none" => upstream[i].got # 0
  BY TakenIsRequest DEF IInv, Upstreams, TargetCloses, Requests
<1>7. upstream[i].at # "none" /\ UNCHANGED <<script, taken, serve, replies, tunnel>>
  BY DEF TargetCloses
<1>8. /\ upstream[i].answer = "whole" => up.answer = "whole"
      /\ up.answer # "none" => upstream[i].got # 0
  BY <1>2, <1>5, <1>6
<1> QED BY <1>4, <1>5, <1>7, <1>8, UpstreamMoves

-----------------------------------------------------------------------------
(* The upgrade and the tunnel task                                         *)

LEMMA TunnelPreserves ==
  ASSUME IInv, Upgrade \/ Return \/ UpgradeFails \/ TunnelDials \/ TunnelEnds
  PROVE  IInv'
<1> USE DEF IInv, Upgrade, Return, UpgradeFails, TunnelDials, TunnelEnds
<1>1. TypeOK'
  BY DEF TypeOK, ServeState, TunnelState
<1>2. taken \in Nat /\ Position' /\ Upstreams'
  BY TakenIsRequest DEF Position, Upstreams, Proxying
<1>3. ConnectIsLast'
  BY DEF ConnectIsLast
<1>4. RepliesTruthful'
  BY RepliesKept
<1> QED BY <1>1, <1>2, <1>3, <1>4

-----------------------------------------------------------------------------
(* The theorems                                                            *)

\* Every step preserves the invariant.
LEMMA NextPreserves == IInv /\ [Next]_vars => IInv'
<1> SUFFICES ASSUME IInv, [Next]_vars PROVE IInv'
  OBVIOUS
<1>1. CASE Service
  BY <1>1, TakeNoHostPreserves, TakeForwardPreserves, TakeConnectPreserves, DialledPreserves,
     DialFailsPreserves, ForwardPreserves, HeadArrivesPreserves, RelayPreserves,
     ServeEndsPreserves, TunnelPreserves DEF Service
<1>2. CASE UNCHANGED vars
  BY <1>2 DEF vars, IInv, TypeOK, Position, ConnectIsLast, Upstreams, RepliesTruthful
<1> QED BY <1>1, <1>2, ServeEndsPreserves, TunnelPreserves, DriverEndsPreserves, AnswerPreserves,
        TargetClosesPreserves DEF Next

LEMMA Invariance == SafeSpec => []IInv
  BY InitInv, NextPreserves, PTL DEF SafeSpec

\* The variables keep their types.
THEOREM TypeCorrect == SafeSpec => []TypeOK
<1>1. IInv => TypeOK
  BY DEF IInv
<1> QED BY <1>1, Invariance, PTL

\* Whatever is pipelined and whichever targets break off: the k-th response is the answer to the
\* k-th request, whole, and from its own target, or says truly why there is none
\* (http_handler.rs:39-110).
THEOREM RepliesAlwaysTruthful == SafeSpec => []RepliesTruthful
<1>1. IInv => RepliesTruthful
  BY DEF IInv
<1> QED BY <1>1, Invariance, PTL

\* No request reaches its target before all earlier ones are answered, and none does after a
\* CONNECT, whatever the length of the script (http_handler.rs:14-22, :127-173).
THEOREM AlwaysOneAtATime == SafeSpec => []OneAtATime
<1>1. IInv => OneAtATime
  <2> SUFFICES ASSUME IInv, NEW k \in Requests, upstream[k].at # "none" \/ Len(replies) >= k
               PROVE  /\ Len(replies) >= k - 1
                      /\ \A j \in 1 .. k - 1 : script[j].kind # "connect"
    BY DEF OneAtATime
  <2>1. taken \in Nat /\ k \in Nat /\ Len(replies) \in {taken - 1, taken}
    BY TakenIsRequest DEF IInv, TypeOK, ServeState, Position, Proxying, Requests
  <2>2. k <= taken
    BY <2>1 DEF IInv, Upstreams
  <2> QED BY <2>1, <2>2 DEF IInv, ConnectIsLast
<1> QED BY <1>1, Invariance, PTL

\* Every step of the handler is one that Server takes with the connection, or none.
LEMMA StepRefines ==
  ASSUME IInv, [Next]_vars
  PROVE  [Task!Next]_(Task!vars)
<1> USE DEF Task!Next, Task!Connect, Task!Upgrade, Task!Dial, Task!EndTunnel, Task!Return,
            Task!vars
<1>1. serve \in Proxying \union {"idle"} => tunnel = "none"
  BY DEF IInv, ConnectIsLast, Proxying
<1>2. CASE TakeNoHost \/ TakeForward
  BY <1>1, <1>2 DEF TakeNoHost, TakeForward, Take, Proxying
<1>3. CASE TakeConnect
  BY <1>1, <1>3 DEF TakeConnect, Take, Proxying
<1>4. CASE Dialled \/ DialFails \/ Forward \/ HeadArrives \/ Relay
  BY <1>1, <1>4 DEF Dialled, DialFails, Forward, HeadArrives, Relay, Proxying
<1>5. CASE ServeEnds \/ ExchangeFails
  BY <1>1, <1>5 DEF ServeEnds, ExchangeFails, Proxying, IInv, TypeOK, ServeState, Position
<1>6. CASE Upgrade \/ Return \/ UpgradeFails
  BY <1>6 DEF Upgrade, Return, UpgradeFails, IInv, Position
<1>7. CASE TunnelDials \/ TunnelEnds
  BY <1>7 DEF TunnelDials, TunnelEnds, IInv, ConnectIsLast
<1>8. ASSUME NEW i \in Requests, DriverEnds(i) \/ Answer(i) \/ TargetCloses(i)
      PROVE  UNCHANGED Task!vars
  BY <1>8 DEF DriverEnds, Answer, TargetCloses
<1>9. CASE UNCHANGED vars
  BY <1>9 DEF vars
<1> QED BY <1>2, <1>3, <1>4, <1>5, <1>6, <1>7, <1>8, <1>9 DEF Next, Service

\* The handler, for every script, moves as Server assumes: a tunnel's target is dialled only by a
\* task that has been given the socket, and that is given by a handler that has not returned,
\* whatever the order in which the two go on (http_handler.rs:127-173, server.rs:254-255).
THEOREM ImplementsConnTask == SafeSpec => Task!SafeSpec
<1>1. Init => Task!Init
  BY DEF Init, Task!Init
<1>2. IInv /\ [Next]_vars => [Task!Next]_(Task!vars)
  BY StepRefines
<1> QED BY <1>1, <1>2, Invariance, PTL DEF SafeSpec, Task!SafeSpec
=============================================================================
