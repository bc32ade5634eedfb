---------------------------- MODULE Socks5Server ----------------------------
(***************************************************************************)
(* src/protocol/socks5/{handshake,mod,tcp_connect}.rs: one SOCKS5 session  *)
(* seen from the proxy.  The client's bytes are a pipe of which a prefix   *)
(* has arrived; each read_exact takes its bytes once they all have, and is *)
(* given up after HANDSHAKE_TIMEOUT or at end of file.                     *)
(*                                                                         *)
(* Bytes are the real ones; names and passwords are short byte strings.    *)
(***************************************************************************)
EXTENDS Naturals, Sequences

CONSTANTS Users,      \* the <<username, password>> pairs, where users are configured
          Scripts,    \* what the client may send in a session with (TRUE) and without users
          Requests,   \* the well-formed sessions among them, see Encode
          NotUtf8     \* the bytes that make a string invalid UTF-8

Byte == 0 .. 255
Text(s) == \A i \in DOMAIN s : s[i] \notin NotUtf8

ASSUME TextAssumption == NotUtf8 \subseteq Byte
ASSUME ScriptsAssumption == \A auth \in BOOLEAN : Scripts[auth] \subseteq Seq(Byte)

VARIABLES authRequired,   \* is `users` Some(..)?  Never changes
          pc,        \* the read_exact, or the later step, the session is at
          pipe,      \* bytes the client has written and the proxy has not read
          arrived,   \* how many of them have arrived
          gone,      \* has the client closed the connection?
          len,       \* the length byte read last
          user,      \* the user name read
          req,       \* command, address type and address of the request
          target,    \* the connection to the target: "none", "dialing", "open", "refused"
          verified,  \* has verify_credentials() said yes?
          consumed,  \* history: every byte read
          down       \* every byte written to the client

vars == <<authRequired, pc, pipe, arrived, gone, len, user, req, target, verified, consumed, down>>

\* The reads, in the order of the protocol, then what follows them.
Reads == {"greeting", "methods", "auth_ver", "ulen", "uname", "plen", "passwd",
          "header", "addr4", "addr6", "alen", "name", "port"}
Phases == Reads \union {"command", "dial", "udp", "relay", "done"}

NoRequest == [cmd |-> 0, atyp |-> 0, addr |-> <<>>, port |-> <<>>]

TypeOK == /\ authRequired \in BOOLEAN
          /\ pc \in Phases
          /\ pipe \in Seq(Byte) /\ consumed \in Seq(Byte) /\ down \in Seq(Byte)
          /\ arrived \in 0 .. Len(pipe)
          /\ gone \in BOOLEAN /\ verified \in BOOLEAN
          /\ len \in Byte
          /\ user \in Seq(Byte)
          /\ req \in [cmd : Byte, atyp : Byte, addr : Seq(Byte), port : Seq(Byte)]
          /\ target \in {"none", "dialing", "open", "refused"}

InitFrom(bytes) == /\ pc = "greeting"
                   /\ pipe = bytes
                   /\ arrived = 0
                   /\ gone = FALSE
                   /\ len = 0
                   /\ user = <<>>
                   /\ req = NoRequest
                   /\ target = "none"
                   /\ verified = FALSE
                   /\ consumed = <<>>
                   /\ down = <<>>

-----------------------------------------------------------------------------
(* The client and the network (external)                                   *)

\* Some more bytes arrive, in order.
Deliver == /\ arrived' \in arrived + 1 .. Len(pipe)
           /\ UNCHANGED <<pc, pipe, gone, len, user, req, target, verified, consumed, down>>

\* The client closes: what has not arrived may be lost.
ClientCloses == /\ ~gone
                /\ gone' = TRUE
                /\ pipe' \in {pipe, SubSeq(pipe, 1, arrived)}
                /\ UNCHANGED <<pc, arrived, len, user, req, target, verified, consumed, down>>

-----------------------------------------------------------------------------
(* Reading a field                                                         *)

\* The size of the buffer each read_exact fills.
Wanted(p) == CASE p \in {"auth_ver", "ulen", "plen", "alen"}   -> 1
               [] p \in {"greeting", "port"}                   -> 2
               [] p \in {"header", "addr4"}                    -> 4
               [] p = "addr6"                                  -> 16
               [] p \in {"methods", "uname", "passwd", "name"} -> len

Blocked == pc \in Reads /\ arrived < Wanted(pc)

\* The field that is at the head of the pipe, and its removal.
Field == SubSeq(pipe, 1, Wanted(pc))

\* Mutant: what has been read still counts as received.
ReadKeepsCount(p) == /\ pc = p
                     /\ ~Blocked
                     /\ pipe' = SubSeq(pipe, Wanted(p) + 1, Len(pipe))
                     /\ consumed' = consumed \o Field
                     /\ UNCHANGED <<arrived, gone>>

Read(p) == /\ pc = p
           /\ ~Blocked
           /\ pipe' = SubSeq(pipe, Wanted(p) + 1, Len(pipe))
           /\ arrived' = arrived - Wanted(p)
           /\ consumed' = consumed \o Field
           /\ UNCHANGED gone

Writes(bytes) == down' = down \o bytes

Goto(p) == pc' = p

\* The session is over: the stream, and the connection to the target, are dropped.
Ends == Goto("done")

\* Mutant: the read of a length byte has no timeout.
TimeoutExceptLength == /\ Blocked /\ pc \notin {"ulen", "plen", "alen"}
                       /\ Ends
                       /\ UNCHANGED <<pipe, arrived, gone, len, user, req, target, verified,
                                      consumed, down>>

\* read_exact does not get its bytes within HANDSHAKE_TIMEOUT.
ReadTimeout == /\ Blocked
               /\ Ends
               /\ UNCHANGED <<pipe, arrived, gone, len, user, req, target, verified, consumed, down>>

\* A read meets the end of the stream, or fails.
PeerGone == /\ gone
            /\ pc \in Reads \union {"relay", "udp"}
            /\ Ends
            /\ UNCHANGED <<pipe, arrived, gone, len, user, req, target, verified, consumed, down>>

-----------------------------------------------------------------------------
(* negotiate_method                                                        *)

ReadGreeting == /\ Read("greeting")
                /\ len' = Field[2]
                /\ IF Field[1] = 5 THEN Goto("methods") ELSE Ends
                /\ UNCHANGED <<user, req, target, verified, down>>

\* Users configured: 2 (password) or nothing; no users: 0 (no authentication) or nothing.
Selected(methods) ==
    LET wanted == IF authRequired THEN 2 ELSE 0
    IN  IF \E i \in DOMAIN methods : methods[i] = wanted THEN wanted ELSE 255

ReadMethods == /\ Read("methods")
               /\ Writes(<<5, Selected(Field)>>)
               /\ CASE Selected(Field) = 255 -> Ends
                    [] Selected(Field) = 2   -> Goto("auth_ver")
                    [] Selected(Field) = 0   -> Goto("header")
               /\ UNCHANGED <<len, user, req, target, verified>>

-----------------------------------------------------------------------------
(* authenticate_user                                                       *)

ReadAuthVersion == /\ Read("auth_ver")
                   /\ IF Field[1] = 1 THEN Goto("ulen") ELSE Ends
                   /\ UNCHANGED <<len, user, req, target, verified, down>>

\* A length byte: "ulen", "plen" of authenticate_user, "alen" of read_request.
ReadLength == /\ \/ Read("ulen") /\ Goto("uname")
                 \/ Read("plen") /\ Goto("passwd")
                 \/ Read("alen") /\ Goto("name")
              /\ len' = Field[1]
              /\ UNCHANGED <<user, req, target, verified, down>>

ReadUsername == /\ Read("uname")
                /\ user' = Field
                /\ Goto("plen")
                /\ UNCHANGED <<len, req, target, verified, down>>

\* Mutant: the answer to a wrong password is sent, and the session goes on.
AnswerAndGoOn(ok) == /\ Writes(<<1, IF ok THEN 0 ELSE 1>>)
                     /\ Goto("header")

\* The status goes out in both cases; then a wrong password ends the session.
AnswerAuth(ok) == /\ Writes(<<1, IF ok THEN 0 ELSE 1>>)
                  /\ IF ok THEN Goto("header") ELSE Ends

\* Both strings are decoded before anything is answered.
ReadPassword == /\ Read("passwd")
                /\ IF Text(user) /\ Text(Field)
                   THEN /\ verified' = (<<user, Field>> \in Users)
                        /\ AnswerAuth(verified')
                   ELSE Ends /\ UNCHANGED <<verified, down>>
                /\ UNCHANGED <<len, user, req, target>>

-----------------------------------------------------------------------------
(* read_request                                                            *)

Commands == {1, 2, 3}   \* CONNECT, BIND, UDP ASSOCIATE

\* Mutant: an IPv6 address is read like an IPv4 address.
Ipv6AsIpv4 == [a \in {1, 3, 4} |-> IF a = 3 THEN "alen" ELSE "addr4"]

\* The read that follows each known address type.
AddressRead == [a \in {1, 3, 4} |-> CASE a = 1 -> "addr4" [] a = 3 -> "alen" [] a = 4 -> "addr6"]

ReadHeader == /\ Read("header")
              /\ req' = [req EXCEPT !.cmd = Field[2], !.atyp = Field[4]]
              /\ IF Field[1] = 5 /\ Field[2] \in Commands /\ Field[4] \in DOMAIN AddressRead
                 THEN Goto(AddressRead[Field[4]]) ELSE Ends
              /\ UNCHANGED <<len, user, target, verified, down>>

ReadAddress == /\ Read("addr4") \/ Read("addr6") \/ Read("name")
               /\ req' = [req EXCEPT !.addr = Field]
               /\ Goto("port")
               /\ UNCHANGED <<len, user, target, verified, down>>

GoodAddress(r) == r.atyp = 3 => Text(r.addr)

ReadPort == /\ Read("port")
            /\ req' = [req EXCEPT !.port = Field]
            /\ IF GoodAddress(req) THEN Goto("command") ELSE Ends
            /\ UNCHANGED <<len, user, target, verified, down>>

-----------------------------------------------------------------------------
(* handle_socks5_inner: the command                                        *)

Reply(rep) == <<5, rep, 0, 1, 0, 0, 0, 0, 0, 0>>

\* After the request: dial, or "command not supported", or an association, whose socket
\* may fail to bind (its address, a parameter of the real reply, is left out).
Command == /\ pc = "command"
           /\ \/ req.cmd = 1 /\ Goto("dial") /\ target' = "dialing" /\ UNCHANGED down
              \/ req.cmd = 2 /\ Ends /\ Writes(Reply(7)) /\ UNCHANGED target
              \/ req.cmd = 3 /\ Goto("udp") /\ Writes(Reply(0)) /\ UNCHANGED target
              \/ req.cmd = 3 /\ Ends /\ UNCHANGED <<target, down>>
           /\ UNCHANGED <<pipe, arrived, gone, len, user, req, verified, consumed>>

\* Mutant: the success reply goes out before the target is connected.
ReplyFirst(ok) == /\ target' = IF ok THEN "open" ELSE "refused"
                  /\ Writes(Reply(0))
                  /\ IF ok THEN Goto("relay") ELSE Ends

\* The outcome of the connection attempt is what the client is told.
AnswerConnect(ok) == /\ target' = IF ok THEN "open" ELSE "refused"
                     /\ Writes(Reply(IF ok THEN 0 ELSE 5))
                     /\ IF ok THEN Goto("relay") ELSE Ends

\* The client may be gone by now: then the reply fails and nothing is relayed.
Dialled == /\ pc = "dial"
           /\ \/ \E ok \in BOOLEAN : AnswerConnect(ok)
              \/ gone /\ Ends /\ UNCHANGED <<target, down>>
           /\ UNCHANGED <<pipe, arrived, gone, len, user, req, verified, consumed>>

\* copy_bidirectional or the UDP association is over.
RelayEnds == /\ pc \in {"relay", "udp"}
             /\ Ends
             /\ UNCHANGED <<pipe, arrived, gone, len, user, req, target, verified, consumed, down>>

\* A step of handle_socks5.  Socks5Link gives it its client and its fairness.
Session == /\ \/ ReadGreeting \/ ReadMethods
              \/ ReadAuthVersion \/ ReadLength \/ ReadUsername \/ ReadPassword
              \/ ReadHeader \/ ReadAddress \/ ReadPort
              \/ Command \/ Dialled
              \/ ReadTimeout \/ PeerGone
           /\ UNCHANGED authRequired

-----------------------------------------------------------------------------
(* Properties                                                              *)

\* A whole session as a client writes it without waiting for the answers: r has the
\* offered methods, user name, password, command, the byte after it, which nobody looks at, and
\* address type, address and port.
Encode(auth, r) ==
    <<5, Len(r.methods)>> \o r.methods
    \o (IF auth THEN <<1, Len(r.user)>> \o r.user \o <<Len(r.pass)>> \o r.pass ELSE <<>>)
    \o <<5, r.cmd, r.rsv, r.atyp>>
    \o (IF r.atyp = 3 THEN <<Len(r.addr)>> ELSE <<>>) \o r.addr \o r.port

\* What the sessions are that the code is meant to understand: every length fits its byte, and
\* an address has the size of its type.
Short == {s \in Seq(Byte) : Len(s) < 256}
WellFormed ==
    {r \in [methods : Short, user : Short, pass : Short, cmd : Commands, rsv : Byte,
            atyp : {1, 3, 4}, addr : Short, port : Seq(Byte)] :
        /\ r.atyp = 1 => Len(r.addr) = 4
        /\ r.atyp = 4 => Len(r.addr) = 16
        /\ Len(r.port) = 2}

ASSUME RequestsAssumption == Requests \subseteq WellFormed

Acted == pc \in {"command", "dial", "udp", "relay"} \/ target # "none"

\* However the client's bytes are cut into segments, what is acted on is the request it
\* wrote, and not a byte of what follows has been read (handshake.rs:136-210; the early
\* payload belongs to copy_bidirectional).
RequestFramed ==
    Acted => \E r \in Requests : /\ consumed = Encode(authRequired, r)
                                 /\ req = [cmd |-> r.cmd, atyp |-> r.atyp,
                                           addr |-> r.addr, port |-> r.port]

\* With users configured nothing is acted on unless the bytes read hold the name and the
\* password of one of them, even when the client sends everything at once (mod.rs:20-26).
NothingWithoutAuth ==
    Acted /\ authRequired =>
        \E r \in Requests : consumed = Encode(authRequired, r) /\ <<r.user, r.pass>> \in Users

EndsWith(s, t) == Len(s) >= Len(t) /\ SubSeq(s, Len(s) - Len(t) + 1, Len(s)) = t

\* What the client is told is what happened: success exactly when it can use the relay,
\* and one answer to its request at most (tcp_connect.rs:23-46, mod.rs:39-41).
RepliesTruthful ==
    /\ pc \in {"relay", "udp"} => EndsWith(down, Reply(0))
    /\ EndsWith(down, Reply(0)) => target = "open" \/ req.cmd = 3
    /\ target = "refused" => EndsWith(down, Reply(5))
    /\ Len(down) <= (IF authRequired THEN 4 ELSE 2) + (IF Acted \/ pc = "done" THEN 10 ELSE 0)
=============================================================================
