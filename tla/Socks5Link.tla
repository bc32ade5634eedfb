----------------------------- MODULE Socks5Link -----------------------------
(***************************************************************************)
(* A SOCKS5 session with both its ends and its beginning: the connection   *)
(* is dispatched by its first bytes (src/server.rs, src/protocol/          *)
(* detect.rs), and its client either writes a script or is the connector   *)
(* of src/upstream/socks5_proxy.rs (chain.rs has the same handshake), so   *)
(* that one instance of the program is the upstream proxy of another.      *)
(***************************************************************************)
EXTENDS Socks5Server, Detection

CONSTANTS Connectors,   \* credentials and targets of the connectors, see Connector
          Strangers     \* first bytes of clients that do not speak SOCKS5

NoCred    == <<>>

\* An address of 4 or 16 bytes, or a name of any length.
Destination == {t \in [atyp : {1, 3, 4}, addr : Seq(Byte), port : Seq(Byte)] :
                    /\ t.atyp = 1 => Len(t.addr) = 4
                    /\ t.atyp = 4 => Len(t.addr) = 16
                    /\ Len(t.port) = 2}
Connector == [cred : {NoCred} \union Seq(Byte) \X Seq(Byte), to : Destination]

ASSUME ConnectorsAssumption ==
    Connectors \subseteq Connector /\ Strangers \subseteq Seq(Byte)

VARIABLES door,     \* who has the connection: handle_connection, or whom it was handed to
          client,   \* the connector, or what it was made from, and where it is
          took      \* how many of the bytes of `down` the connector has read

lvars == <<vars, door, client, took>>

Scripted == [at |-> "scripted", cred |-> NoCred, to |-> [atyp |-> 1, addr |-> <<>>, port |-> <<>>]]

\* The reads of the connector.
Waits   == {"method", "auth", "reply", "bind"}
Settled == {"scripted", "ok", "failed"}

LinkTypeOK == /\ TypeOK
              /\ door \in {"peek", "tls", "socks5", "http", "https", "closed"}
              /\ client.at \in {"start"} \union Waits \union Settled
              /\ took \in 0 .. Len(down)
              /\ door # "socks5" => pc = "greeting" /\ consumed = <<>>

\* The server's listeners hand a session over without users; a caller of handle_socks5, as
\* the tests are, may have some.
LInit == /\ \/ door \in {"peek", "tls"} /\ authRequired = FALSE
            \/ door = "socks5" /\ authRequired \in BOOLEAN
         /\ \/ /\ client = Scripted
               /\ \E bytes \in Scripts[authRequired]
                               \union (IF door = "socks5" THEN {} ELSE Strangers) :
                     InitFrom(bytes)
            \/ /\ door # "tls"
               /\ \E c \in Connectors : client = [at |-> "start", cred |-> c.cred, to |-> c.to]
               /\ InitFrom(<<>>)
         /\ took = 0

-----------------------------------------------------------------------------
(* handle_connection                                                       *)

DoorOf == [socks5 |-> "socks5", http |-> "http", unknown |-> "closed"]

\* peek() does not wait for more than one byte, and there is no timeout.
Peek == /\ door = "peek"
        /\ \/ arrived > 0 /\ door' = DoorOf[DetectProtocol(PeekBuffer(SubSeq(pipe, 1, arrived)))]
           \/ gone /\ door' = "closed"
        /\ UNCHANGED <<vars, client, took>>

\* A TLS stream cannot be peeked at, and is taken for HTTP.
AssumeHttp == /\ door = "tls"
              /\ door' = "https"
              /\ UNCHANGED <<vars, client, took>>

-----------------------------------------------------------------------------
(* perform_socks5_handshake                                                *)

AsU8(n) == n % 256

Greeting == IF client.cred = NoCred THEN <<5, 1, 0>> ELSE <<5, 2, 0, 2>>

AuthMessage == LET u == client.cred[1]  p == client.cred[2]
               IN  <<1, AsU8(Len(u))>> \o u \o <<AsU8(Len(p))>> \o p

ConnectMessage == <<5, 1, 0, client.to.atyp>>
                  \o (IF client.to.atyp = 3 THEN <<AsU8(Len(client.to.addr))>> ELSE <<>>)
                  \o client.to.addr \o client.to.port

Send(message, next) == /\ pipe' = pipe \o message
                       /\ client' = [client EXCEPT !.at = next]
                       /\ UNCHANGED gone

\* The error drops the stream.
GiveUp == /\ client' = [client EXCEPT !.at = "failed"]
          /\ gone' = TRUE
          /\ UNCHANGED pipe

\* Mutant: the port of the bind address is not read.
BindWithoutPort(atyp) == CASE atyp = 1 -> 4 [] atyp = 4 -> 16 [] atyp = 3 -> 1 + down[took + 1]
                           [] OTHER -> 0

\* How long the bind address is that follows the reply header.
BindSize(atyp) == CASE atyp = 1 -> 6
                    [] atyp = 4 -> 18
                    [] atyp = 3 -> 1 + down[took + 1] + 2
                    [] OTHER    -> 0

\* What the connector waits for; the reply header is the last thing it has read before "bind".
Needs == CASE client.at \in {"method", "auth"} -> 2
           [] client.at = "reply"              -> 4
           [] client.at = "bind"               -> BindSize(down[took])

Answer == SubSeq(down, took + 1, took + Needs)

Hungry == client.at \in Waits /\ took + Needs > Len(down)

\* Mutant: the greeting offers two methods and names one.
GreetShort == Send(<<5, 2, 0>>, "method")

Greet == Send(Greeting, "method")

\* One read_exact and what the connector does with the answer.
TakeAnswer ==
    /\ ~Hungry
    /\ took' = took + Needs
    /\ CASE client.at = "method" /\ Answer = <<5, 0>>           -> Send(ConnectMessage, "reply")
         [] client.at = "method" /\ Answer = <<5, 2>> /\ client.cred # NoCred
                                                                -> Send(AuthMessage, "auth")
         [] client.at = "auth" /\ Answer[2] = 0                 -> Send(ConnectMessage, "reply")
         [] client.at = "reply" /\ Answer[2] = 0                -> Send(<<>>, "bind")
         [] client.at = "bind"                                  -> Send(<<>>, "ok")
         [] OTHER                                               -> GiveUp

\* The server has closed: read_exact fails.
EndOfFile == /\ Hungry
             /\ pc = "done" \/ door = "closed"
             /\ GiveUp
             /\ UNCHANGED took

Connects == /\ \/ client.at = "start" /\ Greet /\ UNCHANGED took
               \/ client.at \in Waits /\ (TakeAnswer \/ EndOfFile)
            /\ UNCHANGED <<authRequired, pc, arrived, len, user, req, target, verified,
                           consumed, down, door>>

-----------------------------------------------------------------------------

\* What has been dispatched elsewhere is not looked at here.
Network == /\ door \in {"peek", "tls", "socks5"}
           /\ \/ Deliver /\ UNCHANGED client
              \/ /\ ClientCloses
                 /\ client' = [client EXCEPT !.at = IF @ \in Settled THEN @ ELSE "failed"]
           /\ UNCHANGED <<authRequired, door, took>>

LSession == /\ door = "socks5"
            /\ Session
            /\ UNCHANGED <<door, client, took>>

Relay == RelayEnds /\ UNCHANGED <<authRequired, door, client, took>>

Terminated == /\ door \in {"http", "https", "closed"} \/ pc = "done"
              /\ client.at \in Settled
              /\ UNCHANGED lvars

LNext == Peek \/ AssumeHttp \/ Connects \/ Network \/ LSession \/ Relay \/ Terminated

LSafeSpec == LInit /\ [][LNext]_lvars

\* The runtime polls a task that can go on, and fires its timers; nothing makes the network
\* deliver or the relay end.
LSpec == LSafeSpec /\ WF_lvars(LSession) /\ WF_lvars(Connects)

-----------------------------------------------------------------------------
(* Properties                                                              *)

\* However the first bytes are cut into segments, a SOCKS5 client is never turned away or taken
\* for another; a client turned away, and still there, had not got a whole HTTP method through
\* (server.rs:288-320, detect.rs:10-26).
Dispatched ==
    /\ door = "http" => \E m \in HttpMethods : IsPrefix(m, pipe)
    /\ door = "closed" /\ ~gone /\ client.at # "failed" =>
          pipe[1] # 5 /\ \A m \in HttpMethods : ~IsPrefix(m, SubSeq(pipe, 1, arrived))

\* Whatever the client does or leaves undone, a session comes to its relay or to its end, and
\* a connector, which has no timeout of its own, to an answer (handshake.rs:26-35,
\* socks5_proxy.rs:49-146).
SessionEnds == door = "socks5" ~> (pc \in {"relay", "udp", "done"} /\ client.at \in Settled)

\* RFC 1929 has names and passwords of up to 255 bytes; a connector cuts the length of any.
CredFits == client.cred # NoCred => Len(client.cred[1]) < 256 /\ Len(client.cred[2]) < 256

\* A connector that has its stream has it to the target it was asked for, with no byte of the
\* handshake left in either direction, if what it announces the length of fits a byte
\* (socks5_proxy.rs:67-146 against handshake.rs:136-223).
LinkConnects ==
    client.at = "ok" /\ CredFits /\ Len(client.to.addr) < 256 =>
        /\ target = "open" /\ req.cmd = 1
        /\ [atyp |-> req.atyp, addr |-> req.addr, port |-> req.port] = client.to
        /\ took = Len(down) /\ pipe = <<>>

\* The two handshakes never wait for each other: if the connector has read all there is and
\* wants more, the session has something to do (socks5_proxy.rs:49-146, handshake.rs:29-210).
NeverBothWait ==
    ~(CredFits /\ Hungry /\ door = "socks5" /\ Blocked /\ arrived = Len(pipe) /\ ~gone)
=============================================================================
