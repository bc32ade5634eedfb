---------------------------- MODULE MCSocks5Link ----------------------------
(***************************************************************************)
(* Instances of Socks5Link for TLC: well-formed sessions that cover the    *)
(* commands, address types and outcomes of the authentication, each with   *)
(* payload sent early, malformed ones that stop at each check, connectors  *)
(* with and without credentials, and the beginnings of other protocols.    *)
(***************************************************************************)
EXTENDS Socks5Link

Alice == <<97>>
Secret == <<98, 99>>
BadText == <<200>>

MCUsers == {<<Alice, Secret>>, <<<<>>, <<>>>>}

Session0 == [methods |-> <<2, 0>>, user |-> Alice, pass |-> Secret, cmd |-> 1,
             rsv |-> 0, atyp |-> 1, addr |-> <<10, 0, 0, 1>>, port |-> <<0, 80>>]

MCRequests ==
    {Session0,
     [Session0 EXCEPT !.methods = <<2>>], [Session0 EXCEPT !.methods = <<0>>],
     [Session0 EXCEPT !.pass = Alice, !.rsv = 1],
     [Session0 EXCEPT !.user = <<>>, !.pass = <<>>],
     [Session0 EXCEPT !.pass = BadText],
     [Session0 EXCEPT !.cmd = 2], [Session0 EXCEPT !.cmd = 3, !.rsv = 1],
     [Session0 EXCEPT !.atyp = 3, !.addr = <<104, 111>>],
     [Session0 EXCEPT !.atyp = 3, !.addr = <<>>],
     [Session0 EXCEPT !.atyp = 4, !.addr = [i \in 1 .. 16 |-> i]]}

\* What connectors write: to an address, a name, and a name of 256 bytes, of which the first
\* two are taken for the port.
LongName == [i \in 1 .. 256 |-> 97]

MCTargets ==
    {[atyp |-> 1, addr |-> <<10, 0, 0, 1>>, port |-> <<0, 80>>],
     [atyp |-> 4, addr |-> [i \in 1 .. 16 |-> i], port |-> <<0, 80>>],
     [atyp |-> 3, addr |-> <<104, 111>>, port |-> <<0, 80>>]}

LongTarget == [atyp |-> 3, addr |-> LongName, port |-> <<0, 80>>]

MCConnectors ==
    [cred : {NoCred, <<Alice, Secret>>, <<Alice, Alice>>}, to : MCTargets]
    \union {[cred |-> NoCred, to |-> LongTarget]}

ByConnectors ==
    {[Session0 EXCEPT !.methods = m, !.atyp = t.atyp, !.addr = t.addr] :
        m \in {<<0>>, <<0, 2>>}, t \in MCTargets}
    \union {[Session0 EXCEPT !.methods = <<0>>, !.atyp = 3, !.addr = <<>>, !.port = <<97, 97>>]}

MCAllRequests == MCRequests \union ByConnectors

\* "GET /", "CONNECT a", "OPTIONS *", "HELO", and nothing.
MCStrangers ==
    {<<71, 69, 84, 32, 47>>, <<67, 79, 78, 78, 69, 67, 84, 32, 97>>,
     <<79, 80, 84, 73, 79, 78, 83, 32, 42>>, <<72, 69, 76, 79>>, <<>>}

\* Unknown command, unknown address type, a name that is no text.
MCMalformed ==
    {[Session0 EXCEPT !.cmd = 9], [Session0 EXCEPT !.atyp = 2],
     [Session0 EXCEPT !.atyp = 3, !.addr = BadText]}

Payload == <<5, 1, 0>>

MCScripts ==
    [auth \in BOOLEAN |->
        {Encode(auth, r) \o Payload : r \in MCRequests \union MCMalformed}
        \union {<<4, 1, 0>>, <<5, 0>>, <<5, 1, 2, 5, 1>>, <<5, 1, 0, 4, 1, 0, 1>>}]
=============================================================================
