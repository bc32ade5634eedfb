----------------------------- MODULE ProxyChain -----------------------------
(***************************************************************************)
(* src/upstream: the connectors that reach a target through upstream       *)
(* proxies.  ChainConnector (chain.rs) goes from hop to hop over one       *)
(* stream; HttpProxyConnector and Socks5ProxyConnector (http_proxy.rs,     *)
(* socks5_proxy.rs) hold the same handshakes for one proxy, with TLS.      *)
(*                                                                         *)
(* The stream's far end is a proxy, or, once the last proxy has connected, *)
(* the target, who may speak first.  A message is cut into the pieces that *)
(* a read may tell apart; what is in flight is a sequence of pieces.       *)
(***************************************************************************)
EXTENDS Naturals, Sequences, SequencesExt

CONSTANTS Configs,   \* upstream configurations, see Config
          MaxHops,   \* bound: the longest chain
          MaxData    \* bound: pieces the target sends on its own

Hop    == [kind : {"direct", "http", "socks5", "chain"}, auth : BOOLEAN, tls : BOOLEAN]
Config == [chain : BOOLEAN, hops : Seq(Hop)]

ASSUME ConfigsAssumption ==
    /\ MaxHops \in Nat /\ MaxData \in Nat
    /\ Configs \subseteq Config
    /\ \A c \in Configs : Len(c.hops) <= MaxHops /\ (~c.chain => Len(c.hops) = 1)

VARIABLES config,    \* what UpstreamRouter::from_config was given
          at,        \* where connect() is
          hop,       \* the hop whose handshake it makes
          wrapped,   \* has the far end answered the TLS handshake: is the stream inside TLS?
          far,       \* who is at the far end: hop number, target, or 0
          asked,     \* whom each hop has been asked to connect to
          request,   \* the message the far end has not answered yet
          down,      \* pieces under way to the connector
          data,      \* how many pieces the target has sent on its own
          creds      \* history: whose credentials went to whom, and whether inside TLS

vars == <<config, at, hop, wrapped, far, asked, request, down, data, creds>>

Hops    == config.hops
Target  == Len(Hops) + 1
Parties == 1 .. MaxHops + 1

\* "http", "method", "auth", "reply": reads that wait for the far end, as does "tls".
Reads == {"http", "method", "auth", "reply"}
Ats   == {"start", "tls", "handshake", "ok", "err"} \union Reads

\* HTTP: a status line in two pieces and the rest of the head, or a refusal.  SOCKS5: the method,
\* the status of the authentication, the reply and the bind address.
Pieces == {"status1", "status2", "head", "refused", "m0", "m2", "mFF", "a0", "a1",
           "rep0", "rep5", "bind", "data"}

TypeOK == /\ config \in Configs
          /\ at \in Ats
          /\ hop \in 0 .. Len(Hops)
          /\ wrapped \in BOOLEAN
          /\ far \in Parties \union {0}
          /\ asked \in [Parties -> Parties \union {0}]
          /\ request \in {"none", "http", "methods", "auth", "connect"}
          /\ down \in Seq(Pieces)
          /\ data \in 0 .. MaxData
          /\ creds \subseteq Parties \X Parties \X BOOLEAN

Init == /\ config \in Configs
        /\ at = "start"
        /\ hop = 0
        /\ wrapped = FALSE
        /\ far = 0
        /\ asked = [p \in Parties |-> 0]
        /\ request = "none"
        /\ down = <<>>
        /\ data = 0
        /\ creds = {}

-----------------------------------------------------------------------------
(* The far end (external)                                                  *)

Emit(pieces) == down' = down \o pieces

\* Whoever the far end is, it answers as a server of the protocol may; only a proxy that says
\* yes to CONNECT has connected to whom it was asked for.
Refuse == /\ request # "none"
          /\ Emit(CASE request = "http"    -> <<"refused">>
                    [] request = "methods" -> <<"mFF">>
                    [] request = "auth"    -> <<"a1">>
                    [] request = "connect" -> <<"rep5", "bind">>)
          /\ request' = "none"
          /\ UNCHANGED <<config, at, hop, wrapped, far, asked, data, creds>>

GoOn == /\ request \in {"methods", "auth"}
        /\ \/ request = "methods" /\ (Emit(<<"m0">>) \/ Emit(<<"m2">>))
           \/ request = "auth" /\ Emit(<<"a0">>)
        /\ request' = "none"
        /\ UNCHANGED <<config, at, hop, wrapped, far, asked, data, creds>>

Grant == /\ request \in {"http", "connect"}
         /\ Emit(IF request = "http" THEN <<"status1", "status2", "head">> ELSE <<"rep0", "bind">>)
         /\ far' = IF far = Target THEN far ELSE asked[far]
         /\ request' = "none"
         /\ UNCHANGED <<config, at, hop, wrapped, asked, data, creds>>

\* The proxy answers the connector's side of a TLS handshake.
AnswerTls == /\ at = "tls" /\ ~wrapped
             /\ wrapped' = TRUE
             /\ UNCHANGED <<config, at, hop, far, asked, request, down, data, creds>>

\* A target may speak without being asked.
TargetSpeaks == /\ far = Target
                /\ data < MaxData
                /\ data' = data + 1
                /\ Emit(<<"data">>)
                /\ UNCHANGED <<config, at, hop, wrapped, far, asked, request, creds>>

-----------------------------------------------------------------------------
(* connect()                                                               *)

Fail == /\ at' = "err"
        /\ UNCHANGED <<config, hop, wrapped, far, asked, request, down, data, creds>>

\* Any read or write, dial or TLS handshake fails, or the stream is at its end.
IoError == at \notin {"start", "ok", "err"} /\ Fail

HasAddress(h) == h.kind \in {"http", "socks5"}

\* DirectConnector, or a chain that is one Direct: the target itself is dialled.
DialDirect == /\ at = "start"
              /\ Len(Hops) = 1 /\ Hops[1].kind = "direct"
              /\ \/ Fail
                 \/ /\ at' = "ok"
                    /\ far' = Target
                    /\ UNCHANGED <<config, hop, wrapped, asked, request, down, data, creds>>

\* An empty chain, or one whose first hop has no address.
NoFirstHop == /\ at = "start"
              /\ IF Hops = <<>> THEN TRUE
                 ELSE ~HasAddress(Hops[1]) /\ (Len(Hops) = 1 => Hops[1].kind = "chain")
              /\ Fail

\* Mutant: the connectors, too, leave TLS out.
NeverTls(c) == FALSE

\* Only the connectors of a single proxy look at `tls`; a chain reads it and does nothing.
WantsTls(c) == ~c.chain /\ c.hops[1].tls

DialFirst == /\ at = "start"
             /\ Hops # <<>> /\ HasAddress(Hops[1])
             /\ \/ Fail
                \/ /\ far' = 1
                   /\ hop' = 1
                   /\ at' = IF WantsTls(config) THEN "tls" ELSE "handshake"
                   /\ UNCHANGED <<config, wrapped, asked, request, down, data, creds>>

\* wrap_tls() returns, before anything else is sent: it waits for the proxy without a timeout.
WrapTls == /\ at = "tls" /\ wrapped
           /\ at' = "handshake"
           /\ UNCHANGED <<config, hop, wrapped, far, asked, request, down, data, creds>>

\* Mutant: each hop is asked for the target.
AlwaysTarget(i) == Target

\* Whom hop i is asked for: the next proxy, or the target after the last one and before a Direct.
NextTarget(i) == IF i < Len(Hops) /\ Hops[i + 1].kind # "direct" THEN i + 1 ELSE Target

\* next_target cannot be computed: a nested chain.
NextUnknown(i) == i < Len(Hops) /\ Hops[i + 1].kind = "chain"

\* Mutant: one more hop than there are.
AdvancePastEnd == IF hop > Len(Hops) THEN at' = "ok" /\ UNCHANGED hop
                  ELSE at' = "handshake" /\ hop' = hop + 1

\* The handshake of hop is over.
Advance == IF hop = Len(Hops) THEN at' = "ok" /\ UNCHANGED hop
           ELSE at' = "handshake" /\ hop' = hop + 1

Sends(message) == request' = message

\* Mutant: the credentials of the first hop serve for all.
SendsFirstCredentials ==
    creds' = IF Hops[1].auth THEN creds \union {<<1, far, wrapped>>} ELSE creds

\* Hop's credentials go to whoever is at the far end.
SendsCredentials == creds' = IF Hops[hop].auth THEN creds \union {<<hop, far, wrapped>>} ELSE creds

SendsTarget == asked' = [asked EXCEPT ![far] = NextTarget(hop)]

HopFails == /\ at = "handshake"
            /\ NextUnknown(hop) \/ Hops[hop].kind = "chain"
            /\ Fail

\* A Direct after the first hop passes the stream through.
PassThrough == /\ at = "handshake"
               /\ ~NextUnknown(hop) /\ Hops[hop].kind = "direct"
               /\ Advance
               /\ UNCHANGED <<config, wrapped, far, asked, request, down, data, creds>>

HttpConnect == /\ at = "handshake"
               /\ ~NextUnknown(hop) /\ Hops[hop].kind = "http"
               /\ Sends("http")
               /\ SendsTarget
               /\ SendsCredentials
               /\ at' = "http"
               /\ UNCHANGED <<config, hop, wrapped, far, down, data>>

\* Mutant: the read goes on until what has come in ends like the head of an answer.
ReadToTheEnd == /\ at = "http"
                /\ down # <<>> /\ Last(down) \in {"head", "refused"}
                /\ down' = <<>>
                /\ IF IsPrefix(<<"status1", "status2">>, down)
                   THEN Advance ELSE at' = "err" /\ UNCHANGED hop
                /\ UNCHANGED <<config, wrapped, far, asked, request, data, creds>>

\* One read, of whatever has come in: an answer cut before its status is a failure; what follows
\* the status is dropped with the buffer, or left in the stream.
ReadHttp == /\ at = "http"
            /\ \E n \in 1 .. Len(down) :
                  /\ down' = SubSeq(down, n + 1, Len(down))
                  /\ IF IsPrefix(<<"status1", "status2">>, SubSeq(down, 1, n))
                     THEN Advance ELSE at' = "err" /\ UNCHANGED hop
            /\ UNCHANGED <<config, wrapped, far, asked, request, data, creds>>

SocksMethods == /\ at = "handshake"
                /\ ~NextUnknown(hop) /\ Hops[hop].kind = "socks5"
                /\ Sends("methods")
                /\ at' = "method"
                /\ UNCHANGED <<config, hop, wrapped, far, asked, down, data, creds>>

\* Mutant: one read of whatever has come in.
TakesAll(pieces) == /\ IsPrefix(pieces, down)
                    /\ down' = <<>>

\* read_exact takes these pieces and no more.
Takes(pieces) == /\ IsPrefix(pieces, down)
                 /\ down' = SubSeq(down, Len(pieces) + 1, Len(down))

\* Neither authentication nor anything else is asked for: the CONNECT request follows.
ReadMethod == /\ at = "method"
              /\ \/ /\ Takes(<<"m0">>)
                    /\ Sends("connect") /\ SendsTarget /\ at' = "reply"
                    /\ UNCHANGED creds
                 \/ /\ Takes(<<"m2">>) /\ Hops[hop].auth
                    /\ Sends("auth") /\ SendsCredentials /\ at' = "auth"
                    /\ UNCHANGED asked
              /\ UNCHANGED <<config, hop, wrapped, far, data>>

ReadAuth == /\ at = "auth"
            /\ Takes(<<"a0">>)
            /\ Sends("connect") /\ SendsTarget /\ at' = "reply"
            /\ UNCHANGED <<config, hop, wrapped, far, data, creds>>

ReadReply == /\ at = "reply"
             /\ Takes(<<"rep0", "bind">>)
             /\ Advance
             /\ UNCHANGED <<config, wrapped, far, asked, request, data, creds>>

\* A refusal, a method that was not offered with credentials, or an answer that is none.
Expected == [method |-> {"m0"} \union (IF hop > 0 /\ Hops[hop].auth THEN {"m2"} ELSE {}),
             auth |-> {"a0"}, reply |-> {"rep0"}]

ReadRejected == /\ at \in {"method", "auth", "reply"}
                /\ down # <<>> /\ Head(down) \notin Expected[at]
                /\ Fail

-----------------------------------------------------------------------------

Progress == \/ DialDirect \/ NoFirstHop \/ DialFirst \/ WrapTls
            \/ HopFails \/ PassThrough
            \/ HttpConnect \/ ReadHttp
            \/ SocksMethods \/ ReadMethod \/ ReadAuth \/ ReadReply \/ ReadRejected

FarEnd == AnswerTls \/ Refuse \/ GoOn \/ Grant

Next == Progress \/ IoError \/ FarEnd \/ TargetSpeaks

SafeSpec == Init /\ [][Next]_vars

\* The runtime polls a task whose read or dial is done.  Nobody need answer.
Spec == SafeSpec /\ WF_vars(Progress)

-----------------------------------------------------------------------------
(* Properties                                                              *)

\* A Direct makes sense only as the last hop: after one in the middle the next proxy's handshake
\* would be made with the target.
Sensible == \A i \in 1 .. Len(Hops) : Hops[i].kind = "direct" => i = Len(Hops)

Proxies == {i \in 1 .. Len(Hops) : Hops[i].kind # "direct"}

\* connect() returns a stream only to the target, and through all proxies in their order
\* (chain.rs:43-75; http_proxy.rs:16-97, socks5_proxy.rs:16-36 for one hop).
StreamsReachTheTarget ==
    at = "ok" /\ Sensible =>
        /\ far = Target
        /\ \A k \in Proxies : asked[k] = IF k + 1 \in Proxies THEN k + 1 ELSE Target

\* The credentials of a hop are told to that hop and to nobody else (chain.rs:72, :143-149, :198-209).
CredentialsStayHome == Sensible => \A c \in creds : c[1] = c[2]

\* Whatever the segmentation, and even if the target speaks first, what is left in the stream is
\* the target's bytes: all of them and nothing else after a SOCKS5 proxy, whose answers
\* are read exactly; after an HTTP proxy the answer's head may still be there, or the
\* first of them be gone (chain.rs:155-168, :172-283, http_proxy.rs:82-93, socks5_proxy.rs:39-146).
StreamsAreExact ==
    at = "ok" /\ Sensible =>
        LET target == [i \in 1 .. data |-> "data"]
        IN  IF \E k \in Proxies : Hops[k].kind = "http" /\ k + 1 \notin Proxies
            THEN IsSuffix(down, <<"head">> \o target) ELSE down = target

\* With `tls` a single proxy gets the credentials inside TLS only (http_proxy.rs:21-52,
\* socks5_proxy.rs:20-27).
CredentialsInTls ==
    ~config.chain /\ Hops[1].tls => \A c \in creds : c[3]

\* Neither the TLS handshake nor a read has a timeout, so a silent proxy can hold connect() for
\* ever, and it alone: if whoever is asked answers in the end, the proxy's side of TLS included,
\* connect() returns, in whatever pieces the answers come (upstream/mod.rs:49, chain.rs:43-75,
\* :157, :185-283).
ConnectSettles == WF_vars(FarEnd) => <>(at \in {"ok", "err"})
=============================================================================
