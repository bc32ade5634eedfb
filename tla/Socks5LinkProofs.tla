-------------------------- MODULE Socks5LinkProofs --------------------------
(***************************************************************************)
(* What Socks5Link promises holds for every set of users, of scripts, of   *)
(* connectors and of strangers.                                            *)
(***************************************************************************)
EXTENDS Socks5Link, Socks5ServerProofs

Client == [at   : {"start"} \union Waits \union Settled,
           cred : {NoCred} \union Seq(Byte) \X Seq(Byte),
           to   : [atyp : {1, 3, 4}, addr : Seq(Byte), port : Seq(Byte)]]

LinkTypes == /\ TypeOK
             /\ door \in {"peek", "tls", "socks5", "http", "https", "closed"}
             /\ client \in Client
             /\ took \in 0 .. Len(down)
             /\ door # "socks5" => pc = "greeting" /\ consumed = <<>>

\* How far the connector is in the answers of the session.
Heard == /\ client.at \in {"start", "method"} => took = 0
         /\ client.at = "auth"  => took = 2 /\ authRequired
         /\ client.at = "reply" => took = Len(Opening)
         /\ client.at = "bind"  => took = Len(Opening) + 4 /\ down[took] = 1 /\ Len(down) = took + 6

\* What the first bytes of a connection that was not taken for SOCKS5 were.
Judged == /\ door = "http" => \E m \in HttpMethods : IsPrefix(m, pipe)
          /\ door = "closed" /\ ~gone =>
                /\ arrived > 0 /\ pipe[1] # 5
                /\ \A m \in HttpMethods : ~IsPrefix(m, SubSeq(pipe, 1, arrived))

IInv == LinkTypes /\ Framing /\ Told /\ Heard /\ Judged

-----------------------------------------------------------------------------
(* The initial states                                                      *)

LEMMA InitTypes == LInit => LinkTypes
PROOF
<1> SUFFICES ASSUME LInit PROVE LinkTypes
  OBVIOUS
<1>1. authRequired \in BOOLEAN /\ door \in {"peek", "tls", "socks5"} /\ took = 0
  BY DEF LInit
<1>2. <<>> \in Seq(Byte)
  OBVIOUS
<1>3. PICK bytes \in Seq(Byte) : InitFrom(bytes)
  <2>1. CASE \E bytes \in Scripts[authRequired]
                             \union (IF door = "socks5" THEN {} ELSE Strangers) : InitFrom(bytes)
    BY <1>1, <2>1, ScriptsAssumption, ConnectorsAssumption
  <2>2. CASE InitFrom(<<>>)
    BY <1>2, <2>2
  <2> QED
    BY <2>1, <2>2 DEF LInit
<1>4. client \in Client
  <2>1. CASE client = Scripted
    BY <1>2, <2>1 DEF Scripted, Client, Settled
  <2>2. CASE \E c \in Connectors : client = [at |-> "start", cred |-> c.cred, to |-> c.to]
    <3>1. PICK c \in Connector : client = [at |-> "start", cred |-> c.cred, to |-> c.to]
      BY <2>2, ConnectorsAssumption
    <3>2. c.cred \in {NoCred} \union Seq(Byte) \X Seq(Byte)
      BY DEF Connector
    <3>3. c.to \in [atyp : {1, 3, 4}, addr : Seq(Byte), port : Seq(Byte)]
      BY DEF Connector, Destination
    <3> QED
      BY <3>1, <3>2, <3>3 DEF Client
  <2> QED
    BY <2>1, <2>2 DEF LInit
<1>5. 0 \in Byte /\ "greeting" \in Phases
  BY DEF Byte, Phases, Reads
<1>6. Len(pipe) \in Nat
  BY <1>3, LenProperties DEF InitFrom
<1>7. req \in Request
  BY <1>2, <1>3, <1>5 DEF InitFrom, NoRequest, Request
<1>8. TypeOK
  <2>1. PipeTypes
    <3>1. 0 \in 0 .. Len(pipe)
      BY <1>6
    <3> QED
      BY <1>2, <1>3, <3>1 DEF PipeTypes, InitFrom
  <2>2. OtherTypes
    BY <1>2, <1>3, <1>5, <1>7 DEF OtherTypes, InitFrom
  <2> QED
    BY <1>1, <2>1, <2>2, TypeParts
<1> QED
  BY <1>1, <1>3, <1>4, <1>8, EmptySeq DEF LinkTypes, InitFrom

LEMMA InitHolds == LInit => IInv
PROOF
<1> SUFFICES ASSUME LInit PROVE IInv
  OBVIOUS
<1>1. LinkTypes
  BY InitTypes
<1>2. PICK bytes : InitFrom(bytes)
  BY DEF LInit
<1>3. /\ pc = "greeting" /\ consumed = <<>> /\ down = <<>> /\ target = "none"
      /\ took = 0 /\ door \in {"peek", "tls", "socks5"}
  BY <1>2 DEF LInit, InitFrom
<1>4. Framing
  BY <1>3 DEF Framing, LoginFramed, AskingFramed, ActingFramed, Acted, AuthReads
<1>5. Told
  BY <1>3 DEF Told, AuthReads
<1>6. client.at \in {"scripted", "start"}
  BY DEF LInit, Scripted
<1> QED
  BY <1>1, <1>3, <1>4, <1>5, <1>6 DEF IInv, Heard, Judged

-----------------------------------------------------------------------------
(* The first bytes                                                         *)

\* A method is four to eight bytes of text.
LEMMA MethodFacts ==
    ASSUME NEW m \in HttpMethods
    PROVE  /\ m \in Seq(Byte)
           /\ Len(m) > 0 /\ Len(m) <= 8
           /\ \A i \in 1 .. Len(m) : m[i] # 0
           /\ m[1] # 5
PROOF
<1>1. CASE m = <<71, 69, 84, 32>>
  BY <1>1 DEF Byte
<1>2. CASE m = <<80, 79, 83, 84, 32>>
  BY <1>2 DEF Byte
<1>3. CASE m = <<80, 85, 84, 32>>
  BY <1>3 DEF Byte
<1>4. CASE m = <<68, 69, 76, 69, 84, 69, 32>>
  BY <1>4 DEF Byte
<1>5. CASE m = <<72, 69, 65, 68, 32>>
  BY <1>5 DEF Byte
<1>6. CASE m = <<79, 80, 84, 73, 79, 78, 83, 32>>
  BY <1>6 DEF Byte
<1>7. CASE m = <<80, 65, 84, 67, 72, 32>>
  BY <1>7 DEF Byte
<1>8. CASE m = <<67, 79, 78, 78, 69, 67, 84, 32>>
  BY <1>8 DEF Byte
<1>9. CASE m = <<84, 82, 65, 67, 69, 32>>
  BY <1>9 DEF Byte
<1> QED
  BY <1>1, <1>2, <1>3, <1>4, <1>5, <1>6, <1>7, <1>8, <1>9 DEF HttpMethods

LEMMA PrefixMeans ==
    ASSUME NEW s \in Seq(Byte), NEW t \in Seq(Byte)
    PROVE  IsPrefix(s, t) <=> Len(s) <= Len(t) /\ \A i \in 1 .. Len(s) : s[i] = t[i]
PROOF
<1>1. SubSeq(s, 1, Len(s)) = s
  BY SubSeqFull
<1>2. CASE ~(Len(s) <= Len(t))
  BY <1>2 DEF IsPrefix
<1>3. CASE Len(s) <= Len(t)
  <2> DEFINE n == Len(s)
             p == SubSeq(t, 1, n)
  <2>1. n \in Nat /\ Len(t) \in Nat /\ n <= Len(t) /\ \A i \in 1 .. Len(t) : t[i] \in Byte
    BY <1>3, LenProperties, ElementOfSeq
  <2>2. /\ p \in Seq(Byte) /\ Len(p) = IF 1 <= n THEN n - 1 + 1 ELSE 0
        /\ \A i \in 1 .. n - 1 + 1 : p[i] = t[1 + i - 1]
    <3>1. \A i \in 1 .. n : t[i] \in Byte
      BY <2>1
    <3> HIDE DEF n
    <3> QED
      BY <2>1, <3>1, SubSeqProperties
  <2>3. Len(p) = n /\ \A i \in 1 .. n : p[i] = t[i]
    <3> HIDE DEF n, p
    <3> QED
      BY <2>1, <2>2
  <2>4. s = p <=> \A i \in 1 .. n : s[i] = p[i]
    <3>1. Len(s) = Len(p)
      BY <2>3
    <3> HIDE DEF p
    <3> QED
      BY <2>2, <3>1, SeqEqual
  <2>5. IsPrefix(s, t) <=> s = p
    BY <1>1, <1>3 DEF IsPrefix
  <2> HIDE DEF n, p
  <2>6. IsPrefix(s, t) <=> \A i \in 1 .. n : s[i] = t[i]
    BY <2>3, <2>4, <2>5
  <2> QED
    BY <1>3, <2>6 DEF n
<1> QED
  BY <1>2, <1>3

\* The array of 8 that peek() fills.
LEMMA BufferFacts ==
    ASSUME NEW b \in Seq(Byte)
    PROVE  /\ PeekBuffer(b) \in Seq(Byte)
           /\ Len(PeekBuffer(b)) = 8
           /\ \A i \in 1 .. 8 : PeekBuffer(b)[i] = IF i <= Len(b) THEN b[i] ELSE 0
PROOF
<1>1. Len(b) \in Nat /\ \A i \in 1 .. Len(b) : b[i] \in Byte
  BY LenProperties, ElementOfSeq
<1>2. 0 \in Byte
  BY DEF Byte
<1>3. \A i \in 1 .. 8 : (IF i <= Len(b) THEN b[i] ELSE 0) \in Byte
  BY <1>1, <1>2
<1>4. PeekBuffer(b) \in [1 .. 8 -> Byte]
  BY <1>3 DEF PeekBuffer
<1> QED
  BY <1>4 DEF PeekBuffer

\* The padding never completes a method: what is found in the array is in the bytes.
LEMMA NothingPadded ==
    ASSUME NEW b \in Seq(Byte), NEW m \in HttpMethods
    PROVE  /\ IsPrefix(m, PeekBuffer(b)) <=> IsPrefix(m, b)
           /\ IsPrefix(PeekBuffer(b), m) => IsPrefix(m, b)
PROOF
<1> DEFINE p == PeekBuffer(b)
<1>1. /\ p \in Seq(Byte) /\ Len(p) = 8
      /\ \A i \in 1 .. 8 : p[i] = IF i <= Len(b) THEN b[i] ELSE 0
  BY BufferFacts
<1>2. /\ m \in Seq(Byte) /\ Len(m) \in Nat /\ Len(m) > 0 /\ Len(m) <= 8
      /\ \A i \in 1 .. Len(m) : m[i] # 0
  BY MethodFacts, LenProperties
<1>3. Len(b) \in Nat
  BY LenProperties
<1> HIDE DEF p
<1>4. IsPrefix(m, p) <=> \A i \in 1 .. Len(m) : m[i] = p[i]
  BY <1>1, <1>2, PrefixMeans
<1>5. IsPrefix(m, b) <=> Len(m) <= Len(b) /\ \A i \in 1 .. Len(m) : m[i] = b[i]
  BY <1>2, PrefixMeans
<1>6. IsPrefix(m, b) => IsPrefix(m, p)
  BY <1>1, <1>2, <1>3, <1>4, <1>5
<1>7. ASSUME IsPrefix(m, p) PROVE IsPrefix(m, b)
  <2>1. \A i \in 1 .. Len(m) : m[i] = p[i] /\ p[i] # 0
    BY <1>2, <1>4, <1>7
  <2>2. \A i \in 1 .. Len(m) : i <= Len(b) /\ p[i] = b[i]
    BY <1>1, <1>2, <1>3, <2>1
  <2>3. Len(m) <= Len(b)
    <3>1. Len(m) \in 1 .. Len(m)
      BY <1>2
    <3> QED
      BY <2>2, <3>1
  <2> QED
    BY <1>5, <2>1, <2>2, <2>3
<1>8. ASSUME IsPrefix(p, m) PROVE IsPrefix(m, b)
  <2>1. Len(p) <= Len(m) /\ \A i \in 1 .. Len(p) : p[i] = m[i]
    BY <1>1, <1>2, <1>8, PrefixMeans
  <2>2. Len(m) = 8
    <3>1. PICK n \in Nat : n = Len(m)
      BY <1>2
    <3>2. n <= 8 /\ 8 <= n
      BY <1>1, <1>2, <2>1, <3>1
    <3>3. n = 8
      BY <3>2
    <3> QED
      BY <3>1, <3>3
  <2>3. IsPrefix(m, p)
    BY <1>1, <1>4, <2>1, <2>2
  <2> QED
    BY <1>7, <2>3
<1>9. IsPrefix(m, p) <=> IsPrefix(m, b)
  BY <1>6, <1>7
<1>10. IsPrefix(p, m) => IsPrefix(m, b)
  BY <1>8
<1> QED
  BY <1>9, <1>10 DEF p

\* The verdict on the bytes that have arrived.
LEMMA Verdict ==
    ASSUME NEW b \in Seq(Byte), Len(b) > 0
    PROVE  /\ DetectProtocol(PeekBuffer(b)) \in {"socks5", "http", "unknown"}
           /\ DetectProtocol(PeekBuffer(b)) = "http" => \E m \in HttpMethods : IsPrefix(m, b)
           /\ DetectProtocol(PeekBuffer(b)) = "unknown" =>
                 b[1] # 5 /\ \A m \in HttpMethods : ~IsPrefix(m, b)
PROOF
<1> DEFINE p == PeekBuffer(b)
<1>1. Len(p) = 8 /\ p[1] = b[1]
  BY BufferFacts, LenProperties
<1>2. p # <<>>
  <2>1. Len(<<>>) = 0
    OBVIOUS
  <2>2. Len(p) = 8
    BY <1>1
  <2> HIDE DEF p
  <2>3. ASSUME p = <<>> PROVE FALSE
    <3>1. Len(p) = 0
      BY <2>1, <2>3, Zenon
    <3>2. 8 = 0
      BY <2>2, <3>1, Zenon
    <3> QED
      BY <3>2
  <2> QED
    BY <2>3
<1>3. IsHttpMethodPrefix(p) <=> \E m \in HttpMethods : IsPrefix(m, b)
  BY NothingPadded DEF IsHttpMethodPrefix
<1> HIDE DEF p
<1>4. /\ DetectProtocol(p) \in {"socks5", "http", "unknown"}
      /\ DetectProtocol(p) = "http" => \E m \in HttpMethods : IsPrefix(m, b)
      /\ DetectProtocol(p) = "unknown" =>
            b[1] # 5 /\ \A m \in HttpMethods : ~IsPrefix(m, b)
  BY <1>1, <1>2, <1>3 DEF DetectProtocol
<1> QED
  BY <1>4 DEF p

\* What is a prefix of the bytes that have arrived is a prefix of the pipe, and stays so when
\* more is written.
LEMMA PrefixGrows ==
    ASSUME NEW m \in Seq(Byte), NEW s \in Seq(Byte), NEW n \in 0 .. Len(s), NEW t \in Seq(Byte)
    PROVE  /\ IsPrefix(m, SubSeq(s, 1, n)) => IsPrefix(m, s)
           /\ IsPrefix(m, s) => IsPrefix(m, s \o t)
           /\ SubSeq(s \o t, 1, n) = SubSeq(s, 1, n)
           /\ SubSeq(s, 1, n) \in Seq(Byte)
           /\ Len(SubSeq(s, 1, n)) = n
           /\ n > 0 => SubSeq(s, 1, n)[1] = s[1] /\ (s \o t)[1] = s[1]
PROOF
<1>1. /\ Len(s) \in Nat /\ Len(t) \in Nat /\ Len(m) \in Nat /\ n \in Nat /\ n <= Len(s)
      /\ \A i \in 1 .. Len(s) : s[i] \in Byte
  BY LenProperties, ElementOfSeq
<1> DEFINE p == SubSeq(s, 1, n)
           c == s \o t
           q == SubSeq(c, 1, n)
<1>2. /\ c \in Seq(Byte) /\ Len(c) = Len(s) + Len(t)
      /\ \A i \in 1 .. Len(s) + Len(t) : c[i] = IF i <= Len(s) THEN s[i] ELSE t[i - Len(s)]
  BY ConcatProperties
<1> HIDE DEF c
<1>3. \A i \in 1 .. n : s[i] \in Byte /\ c[i] = s[i]
  BY <1>1, <1>2
<1>4. /\ p \in Seq(Byte) /\ Len(p) = IF 1 <= n THEN n - 1 + 1 ELSE 0
      /\ \A i \in 1 .. n - 1 + 1 : p[i] = s[1 + i - 1]
  BY <1>1, <1>3, SubSeqProperties
<1>5. /\ q \in Seq(Byte) /\ Len(q) = IF 1 <= n THEN n - 1 + 1 ELSE 0
      /\ \A i \in 1 .. n - 1 + 1 : q[i] = c[1 + i - 1]
  BY <1>1, <1>3, SubSeqProperties
<1> HIDE DEF p, q
<1>6. Len(p) = n /\ Len(q) = n /\ \A i \in 1 .. n : p[i] = s[i] /\ q[i] = p[i]
  BY <1>1, <1>3, <1>4, <1>5
<1>7. q = p
  BY <1>4, <1>5, <1>6, SeqEqual
<1>8. IsPrefix(m, p) => IsPrefix(m, s)
  <2>1. IsPrefix(m, p) => Len(m) <= n /\ \A i \in 1 .. Len(m) : m[i] = p[i]
    BY <1>4, <1>6, PrefixMeans
  <2>2. IsPrefix(m, p) => Len(m) <= Len(s) /\ \A i \in 1 .. Len(m) : m[i] = s[i]
    BY <1>1, <1>6, <2>1
  <2> QED
    BY <2>2, PrefixMeans
<1>9. IsPrefix(m, s) => IsPrefix(m, c)
  <2>1. IsPrefix(m, s) => Len(m) <= Len(s) /\ \A i \in 1 .. Len(m) : m[i] = s[i]
    BY PrefixMeans
  <2>2. IsPrefix(m, s) => Len(m) <= Len(c) /\ \A i \in 1 .. Len(m) : m[i] = c[i]
    BY <1>1, <1>2, <2>1
  <2> QED
    BY <1>2, <2>2, PrefixMeans
<1>10. n > 0 => p[1] = s[1] /\ c[1] = s[1]
  BY <1>1, <1>3, <1>6
<1> QED
  BY <1>4, <1>6, <1>7, <1>8, <1>9, <1>10 DEF p, q, c

-----------------------------------------------------------------------------
(* Steps                                                                   *)

\* A step of the session leaves the connector where it was, in what it has been told.
LEMMA SessionKeeps == ASSUME IInv, LSession PROVE IInv'
PROOF
<1>1. /\ TypeOK /\ Framing /\ Told /\ Session /\ door = "socks5"
      /\ UNCHANGED <<authRequired, door, client, took>>
  BY DEF IInv, LinkTypes, LSession, Session
<1>2. TypeOK' /\ Framing' /\ Told'
  BY <1>1, SessionTypes, SessionFrames, SessionTells
<1>3. PICK n \in Nat : n = Len(down)
  BY <1>1, LenProperties DEF TypeOK
<1>4. PICK k \in Nat : k = Len(down')
  BY <1>2, LenProperties DEF TypeOK
<1>5. took \in 0 .. n
  BY <1>3 DEF IInv, LinkTypes
<1>6. n <= k
  <2>1. CASE down' = down
    BY <1>3, <1>4, <2>1
  <2>2. CASE \E b \in Seq(Byte) : down' = down \o b
    <3>1. PICK b \in Seq(Byte) : down' = down \o b
      BY <2>2
    <3>2. Len(down \o b) = Len(down) + Len(b) /\ Len(b) \in Nat
      BY <1>1, ConcatProperties, LenProperties DEF TypeOK
    <3> QED
      BY <1>3, <1>4, <3>1, <3>2
  <2> QED
    BY <1>1, <2>1, <2>2, SessionAppends
<1>7. LinkTypes'
  <2>1. took' \in 0 .. k
    BY <1>1, <1>5, <1>6
  <2> QED
    BY <1>1, <1>2, <1>4, <2>1 DEF IInv, LinkTypes
<1>8. Opening' = Opening
  BY <1>1 DEF Opening
<1>9. client.at = "bind" => down' = down
  <2> SUFFICES ASSUME client.at = "bind" PROVE down' = down
    OBVIOUS
  <2>1. took = Len(Opening) + 4 /\ Len(down) = took + 6
    BY DEF IInv, Heard
  <2>2. Len(Opening) \in Nat
    BY <1>1, OpeningFacts DEF TypeOK
  <2>3. Len(down) > Len(Opening)
    BY <2>1, <2>2
  <2>4. pc \in {"relay", "udp", "done"}
    BY <1>1, <2>3, RepliesLast DEF Replied
  <2> QED
    BY <1>1, <2>4, SessionAppends
<1>10. Heard'
  BY <1>1, <1>8, <1>9 DEF IInv, Heard
<1>11. Judged'
  BY <1>1 DEF Judged
<1> QED
  BY <1>2, <1>7, <1>10, <1>11 DEF IInv

\* A step that leaves the session alone.
LEMMA SessionUntouched ==
    ASSUME IInv, UNCHANGED <<authRequired, pc, len, user, req, target, verified, consumed, down>>
    PROVE  Framing' /\ Told' /\ Opening' = Opening
BY FramingStays, ToldStays DEF IInv, Opening

LEMMA RelayKeeps == ASSUME IInv, Relay PROVE IInv'
PROOF
<1>1. /\ TypeOK /\ Framing /\ Told /\ Ends /\ pc \in {"relay", "udp"}
      /\ UNCHANGED <<authRequired, pipe, arrived, gone, len, user, req, target, verified,
                     consumed, down, door, client, took>>
  BY DEF IInv, LinkTypes, Relay, RelayEnds
<1>2. pc' = "done" /\ "done" \in Phases
  BY <1>1 DEF Ends, Goto, Phases
<1>3. TypeOK'
  BY <1>1, <1>2 DEF TypeOK
<1>4. Framing' /\ Told'
  BY <1>1, FramingEnds, ToldEnds
<1>5. door = "socks5"
  BY <1>1 DEF IInv, LinkTypes
<1>6. LinkTypes'
  BY <1>1, <1>3, <1>5 DEF IInv, LinkTypes
<1>7. Heard' /\ Judged'
  BY <1>1 DEF IInv, Heard, Judged, Opening
<1> QED
  BY <1>3, <1>4, <1>6, <1>7 DEF IInv

LEMMA PeekKeeps == ASSUME IInv, Peek PROVE IInv'
PROOF
<1>1. TypeOK /\ UNCHANGED <<vars, client, took>> /\ door = "peek"
  BY DEF IInv, LinkTypes, Peek
<1>2. Framing' /\ Told' /\ Opening' = Opening
  BY <1>1, SessionUntouched DEF vars
<1>3. TypeOK' /\ Heard'
  BY <1>1, <1>2 DEF IInv, TypeOK, Heard, vars
<1>4. \/ gone /\ door' = "closed"
      \/ /\ door' = DoorOf[DetectProtocol(PeekBuffer(SubSeq(pipe, 1, arrived)))]
         /\ arrived > 0
  BY DEF Peek
<1>5. pipe \in Seq(Byte) /\ arrived \in 0 .. Len(pipe)
  BY <1>1 DEF TypeOK
<1> DEFINE b == SubSeq(pipe, 1, arrived)
<1>6. b \in Seq(Byte) /\ Len(b) = arrived /\ (arrived > 0 => b[1] = pipe[1])
  BY <1>5, PrefixGrows
<1>7. \A m \in HttpMethods : IsPrefix(m, b) => IsPrefix(m, pipe)
  BY <1>5, MethodFacts, PrefixGrows
<1> HIDE DEF b
<1>8. CASE gone /\ door' = "closed"
  BY <1>1, <1>2, <1>3, <1>8 DEF IInv, LinkTypes, Judged, vars
<1>9. CASE door' = DoorOf[DetectProtocol(PeekBuffer(b))] /\ arrived > 0
  <2>1. /\ DetectProtocol(PeekBuffer(b)) \in {"socks5", "http", "unknown"}
        /\ DetectProtocol(PeekBuffer(b)) = "http" => \E m \in HttpMethods : IsPrefix(m, b)
        /\ DetectProtocol(PeekBuffer(b)) = "unknown" =>
              b[1] # 5 /\ \A m \in HttpMethods : ~IsPrefix(m, b)
    BY <1>6, <1>9, Verdict
  <2>2. \/ door' = "socks5"
        \/ door' = "http" /\ \E m \in HttpMethods : IsPrefix(m, pipe)
        \/ door' = "closed" /\ pipe[1] # 5 /\ \A m \in HttpMethods : ~IsPrefix(m, b)
    BY <1>6, <1>7, <1>9, <2>1 DEF DoorOf
  <2>3. Judged'
    BY <1>1, <1>9, <2>2 DEF Judged, b, vars
  <2> QED
    BY <1>1, <1>2, <1>3, <2>2, <2>3 DEF IInv, LinkTypes, vars
<1> QED
  BY <1>4, <1>8, <1>9 DEF b

LEMMA AssumeKeeps == ASSUME IInv, AssumeHttp PROVE IInv'
PROOF
<1>1. UNCHANGED <<vars, client, took>> /\ door = "tls" /\ door' = "https"
  BY DEF AssumeHttp
<1>2. Framing' /\ Told' /\ Opening' = Opening
  BY <1>1, SessionUntouched DEF vars
<1>3. LinkTypes' /\ Heard' /\ Judged'
  BY <1>1, <1>2 DEF IInv, LinkTypes, TypeOK, Heard, Judged, vars
<1> QED
  BY <1>2, <1>3 DEF IInv

LEMMA NetworkKeeps == ASSUME IInv, Network PROVE IInv'
PROOF
<1>1. /\ TypeOK /\ door \in {"peek", "tls", "socks5"}
      /\ UNCHANGED <<authRequired, pc, len, user, req, target, verified, consumed, down,
                     door, took>>
  BY DEF IInv, LinkTypes, Network, Deliver, ClientCloses
<1>2. Framing' /\ Told' /\ Opening' = Opening
  BY <1>1, SessionUntouched
<1>3. pipe \in Seq(Byte) /\ arrived \in 0 .. Len(pipe) /\ Len(pipe) \in Nat
  BY <1>1, LenProperties DEF TypeOK
<1>4. pipe' \in Seq(Byte) /\ arrived' \in 0 .. Len(pipe') /\ gone' \in BOOLEAN
  <2>1. CASE Deliver
    BY <1>1, <1>3, <2>1 DEF Deliver, TypeOK
  <2>2. CASE ClientCloses
    <3>1. SubSeq(pipe, 1, arrived) \in Seq(Byte) /\ Len(SubSeq(pipe, 1, arrived)) = arrived
      BY <1>3, PrefixGrows
    <3>2. CASE pipe' = pipe
      BY <1>3, <2>2, <3>2 DEF ClientCloses
    <3>3. CASE pipe' = SubSeq(pipe, 1, arrived)
      <4>1. arrived \in 0 .. arrived
        BY <1>3
      <4> QED
        BY <2>2, <3>1, <3>3, <4>1 DEF ClientCloses
    <3> QED
      BY <2>2, <3>2, <3>3 DEF ClientCloses
  <2> QED
    BY <2>1, <2>2 DEF Network
<1>5. client' \in Client /\ (client' = client \/ client'.at \in Settled)
  <2>1. client \in Client
    BY DEF IInv, LinkTypes
  <2>2. CASE UNCHANGED client
    BY <2>1, <2>2
  <2>3. CASE client' = [client EXCEPT !.at = IF @ \in Settled THEN @ ELSE "failed"]
    BY <2>1, <2>3 DEF Client, Settled
  <2> QED
    BY <2>2, <2>3 DEF Network
<1>6. LinkTypes'
  BY <1>1, <1>4, <1>5 DEF IInv, LinkTypes, TypeOK
<1>7. Heard'
  BY <1>1, <1>2, <1>5 DEF IInv, Heard, Settled
<1>8. Judged'
  BY <1>1 DEF Judged
<1> QED
  BY <1>2, <1>6, <1>7, <1>8 DEF IInv

-----------------------------------------------------------------------------
(* Steps of the connector                                                  *)

\* What the connector writes is bytes.
LEMMA ByteOfLength == ASSUME NEW n \in Nat PROVE <<AsU8(n)>> \in Seq(Byte) /\ AsU8(n) \in Byte
BY DEF AsU8, Byte

LEMMA ConnectorMessages ==
    ASSUME client \in Client
    PROVE  /\ Greeting \in Seq(Byte)
           /\ ConnectMessage \in Seq(Byte)
           /\ client.cred # NoCred => AuthMessage \in Seq(Byte)
PROOF
<1>1. 0 \in Byte /\ 1 \in Byte /\ 2 \in Byte /\ 3 \in Byte /\ 4 \in Byte /\ 5 \in Byte
  BY DEF Byte
<1>2. Greeting \in Seq(Byte)
  <2>1. <<5, 1, 0>> \in Seq(Byte) /\ <<5, 2, 0, 2>> \in Seq(Byte)
    BY <1>1
  <2> QED
    BY <2>1 DEF Greeting
<1>3. ConnectMessage \in Seq(Byte)
  <2> DEFINE h == <<5, 1, 0, client.to.atyp>>
             l == IF client.to.atyp = 3 THEN <<AsU8(Len(client.to.addr))>> ELSE <<>>
  <2>1. client.to.atyp \in {1, 3, 4} /\ client.to.addr \in Seq(Byte) /\ client.to.port \in Seq(Byte)
    BY DEF Client
  <2>2. h \in Seq(Byte)
    BY <1>1, <2>1
  <2>3. l \in Seq(Byte)
    BY <2>1, LenProperties, ByteOfLength, EmptySeq
  <2> HIDE DEF h, l
  <2>4. h \o l \in Seq(Byte)
    BY <2>2, <2>3, ConcatProperties
  <2>5. (h \o l) \o client.to.addr \in Seq(Byte)
    BY <2>1, <2>4, ConcatProperties
  <2>6. ((h \o l) \o client.to.addr) \o client.to.port \in Seq(Byte)
    BY <2>1, <2>5, ConcatProperties
  <2> QED
    BY <2>6 DEF ConnectMessage, h, l
<1>4. ASSUME client.cred # NoCred PROVE AuthMessage \in Seq(Byte)
  <2>1. PICK u \in Seq(Byte), p \in Seq(Byte) : u = client.cred[1] /\ p = client.cred[2]
    BY <1>4 DEF Client
  <2>2. <<AsU8(Len(p))>> \in Seq(Byte) /\ AsU8(Len(u)) \in Byte
    BY LenProperties, ByteOfLength
  <2>3. <<1, AsU8(Len(u))>> \in Seq(Byte)
    BY <1>1, <2>2
  <2>4. <<1, AsU8(Len(u))>> \o u \in Seq(Byte)
    BY <2>3, ConcatProperties
  <2>5. (<<1, AsU8(Len(u))>> \o u) \o <<AsU8(Len(p))>> \in Seq(Byte)
    BY <2>2, <2>4, ConcatProperties
  <2>6. ((<<1, AsU8(Len(u))>> \o u) \o <<AsU8(Len(p))>>) \o p \in Seq(Byte)
    BY <2>5, ConcatProperties
  <2> QED
    BY <2>1, <2>6 DEF AuthMessage
<1> QED
  BY <1>2, <1>3, <1>4

\* What the connector does to the pipe, in every one of its steps.
LEMMA WritingKeeps ==
    ASSUME IInv, NEW message \in Seq(Byte),
           \/ pipe' = pipe \o message /\ gone' = gone
           \/ pipe' = pipe /\ gone' = TRUE,
           UNCHANGED <<authRequired, pc, arrived, len, user, req, target, verified,
                       consumed, down, door>>,
           client' \in Client, took' \in 0 .. Len(down), Heard'
    PROVE  IInv'
PROOF
<1>1. TypeOK
  BY DEF IInv, LinkTypes
<1>2. Framing' /\ Told'
  BY SessionUntouched
<1>3. pipe \in Seq(Byte) /\ arrived \in 0 .. Len(pipe) /\ Len(pipe) \in Nat /\ gone \in BOOLEAN
  BY <1>1, LenProperties DEF TypeOK
<1>4. pipe \o message \in Seq(Byte) /\ Len(pipe \o message) = Len(pipe) + Len(message)
      /\ Len(message) \in Nat
  BY <1>3, ConcatProperties, LenProperties
<1>5. arrived \in 0 .. Len(pipe) + Len(message)
  BY <1>3, <1>4
<1>6. pipe' \in Seq(Byte) /\ arrived' \in 0 .. Len(pipe') /\ gone' \in BOOLEAN
  BY <1>3, <1>4, <1>5
<1>7. LinkTypes'
  BY <1>1, <1>6 DEF IInv, LinkTypes, TypeOK
<1>8. Judged'
  <2>1. CASE pipe' = pipe /\ gone' = TRUE
    BY <2>1 DEF IInv, Judged
  <2>2. CASE pipe' = pipe \o message /\ gone' = gone
    <3>1. ASSUME NEW m \in HttpMethods, IsPrefix(m, pipe) PROVE IsPrefix(m, pipe')
      BY <1>3, <2>2, <3>1, MethodFacts, PrefixGrows
    <3>2. SubSeq(pipe', 1, arrived) = SubSeq(pipe, 1, arrived)
      BY <1>3, <2>2, PrefixGrows
    <3>3. arrived > 0 => pipe'[1] = pipe[1]
      BY <1>3, <2>2, PrefixGrows
    <3> QED
      BY <2>2, <3>1, <3>2, <3>3 DEF IInv, Judged
  <2> QED
    BY <2>1, <2>2
<1> QED
  BY <1>2, <1>7, <1>8 DEF IInv

\* The client record after a step to `next`.
LEMMA ClientMoves ==
    ASSUME client \in Client, NEW next \in {"start"} \union Waits \union Settled,
           client' = [client EXCEPT !.at = next]
    PROVE  client' \in Client /\ client'.at = next
                              /\ client'.cred = client.cred /\ client'.to = client.to
BY DEF Client

LEMMA GreetKeeps ==
    ASSUME IInv, Greet, client.at = "start",
           UNCHANGED <<authRequired, pc, arrived, len, user, req, target, verified,
                       consumed, down, door, took>>
    PROVE  IInv'
PROOF
<1>1. client \in Client /\ took \in 0 .. Len(down) /\ took = 0
  BY DEF IInv, LinkTypes, Heard
<1>2. pipe' = pipe \o Greeting /\ gone' = gone /\ Greeting \in Seq(Byte)
  BY <1>1, ConnectorMessages DEF Greet, Send
<1>3. client' \in Client /\ client'.at = "method"
  BY <1>1, ClientMoves DEF Greet, Send, Waits
<1>4. Heard'
  BY <1>1, <1>3 DEF Heard
<1> QED
  BY <1>1, <1>2, <1>3, <1>4, WritingKeeps

LEMMA GivingUpKeeps ==
    ASSUME IInv, GiveUp, took' \in 0 .. Len(down),
           UNCHANGED <<authRequired, pc, arrived, len, user, req, target, verified,
                       consumed, down, door>>
    PROVE  IInv'
PROOF
<1>1. client \in Client
  BY DEF IInv, LinkTypes
<1>2. pipe' = pipe /\ gone' = TRUE /\ <<>> \in Seq(Byte)
  BY DEF GiveUp
<1>3. client' \in Client /\ client'.at = "failed"
  BY <1>1, ClientMoves DEF GiveUp, Settled
<1>4. Heard'
  BY <1>3 DEF Heard
<1> QED
  BY <1>2, <1>3, <1>4, WritingKeeps

\* How many bytes the connector waits for.
LEMMA NeedsValue ==
    ASSUME IInv, client.at \in Waits
    PROVE  /\ client.at \in {"method", "auth"} => Needs = 2
           /\ client.at = "reply" => Needs = 4
           /\ client.at = "bind" => Needs = 6
PROOF
<1>1. client.at \in {"method", "auth"} => Needs = 2
  BY DEF Needs
<1>2. client.at = "reply" => Needs = 4
  BY DEF Needs
<1>3. ASSUME client.at = "bind" PROVE Needs = 6
  <2>1. down[took] = 1
    BY <1>3 DEF IInv, Heard
  <2>2. Needs = BindSize(1)
    BY <1>3, <2>1 DEF Needs
  <2> QED
    BY <2>2 DEF BindSize
<1> QED
  BY <1>1, <1>2, <1>3

LEMMA AnswerFacts ==
    ASSUME IInv, client.at \in Waits, ~Hungry
    PROVE  /\ took \in Nat /\ took + Needs \in 0 .. Len(down) /\ took + Needs <= Len(down)
           /\ Answer \in Seq(Byte) /\ Len(Answer) = Needs
           /\ Answer[2] = down[took + 2]
PROOF
<1>1. down \in Seq(Byte) /\ took \in 0 .. Len(down)
  BY DEF IInv, LinkTypes, TypeOK
<1>2. Needs \in {2, 4, 6}
  BY NeedsValue DEF Waits
<1>3. PICK l \in Nat : l = Len(down) /\ \A i \in 1 .. l : down[i] \in Byte
  BY <1>1, LenProperties, ElementOfSeq
<1>4. PICK n \in {2, 4, 6} : n = Needs
  BY <1>2
<1>5. took \in 0 .. l
  BY <1>1, <1>3
<1>6. ~(took + n > l)
  BY <1>3, <1>4 DEF Hungry
<1>7. took + n \in 0 .. l /\ took + n <= l
  BY <1>5, <1>6
<1>8. \A i \in took + 1 .. took + n : down[i] \in Byte
  BY <1>3, <1>5, <1>7
<1>9. /\ SubSeq(down, took + 1, took + n) \in Seq(Byte)
      /\ Len(SubSeq(down, took + 1, took + n))
            = IF took + 1 <= took + n THEN (took + n) - (took + 1) + 1 ELSE 0
      /\ \A i \in 1 .. (took + n) - (took + 1) + 1 :
            SubSeq(down, took + 1, took + n)[i] = down[(took + 1) + i - 1]
  BY <1>5, <1>8, SubSeqProperties
<1> DEFINE a == SubSeq(down, took + 1, took + n)
<1>10. Answer = a
  BY <1>4 DEF Answer
<1> HIDE DEF a
<1>11. a \in Seq(Byte) /\ Len(a) = n /\ a[2] = down[took + 2]
  <2>1. took + 1 <= took + n /\ (took + n) - (took + 1) + 1 = n /\ 2 \in 1 .. n
    BY <1>5
  <2>2. (took + 1) + 2 - 1 = took + 2
    BY <1>5
  <2> QED
    BY <1>9, <2>1, <2>2 DEF a
<1> QED
  BY <1>3, <1>4, <1>5, <1>7, <1>10, <1>11

\* The arms of perform_socks5_handshake.
LEMMA AnswerArms ==
    ASSUME TakeAnswer, client.at \in Waits
    PROVE  \/ client.at = "method" /\ Answer = <<5, 0>> /\ Send(ConnectMessage, "reply")
           \/ /\ client.at = "method" /\ Answer = <<5, 2>> /\ client.cred # NoCred
              /\ Send(AuthMessage, "auth")
           \/ client.at = "auth" /\ Answer[2] = 0 /\ Send(ConnectMessage, "reply")
           \/ client.at = "reply" /\ Answer[2] = 0 /\ Send(<<>>, "bind")
           \/ client.at = "bind" /\ Send(<<>>, "ok")
           \/ GiveUp
PROOF
<1>1. CASE client.at = "method"
  <2>1. CASE Answer = <<5, 0>>
    <3>1. Answer # <<5, 2>>
      BY <2>1
    <3> QED
      BY <1>1, <2>1, <3>1 DEF TakeAnswer
  <2>2. CASE Answer # <<5, 0>>
    BY <1>1, <2>2 DEF TakeAnswer
  <2> QED
    BY <2>1, <2>2
<1>2. CASE client.at = "auth"
  BY <1>2 DEF TakeAnswer
<1>3. CASE client.at = "reply"
  BY <1>3 DEF TakeAnswer
<1>4. CASE client.at = "bind"
  BY <1>4 DEF TakeAnswer
<1> QED
  BY <1>1, <1>2, <1>3, <1>4 DEF Waits

LEMMA TakingKeeps ==
    ASSUME IInv, TakeAnswer, client.at \in Waits,
           UNCHANGED <<authRequired, pc, arrived, len, user, req, target, verified,
                       consumed, down, door>>
    PROVE  IInv'
PROOF
<1>1. TypeOK /\ Told /\ client \in Client /\ authRequired \in BOOLEAN
  BY DEF IInv, LinkTypes, TypeOK
<1>2. ~Hungry /\ took' = took + Needs
  BY DEF TakeAnswer
<1>3. /\ took' \in 0 .. Len(down) /\ took + Needs <= Len(down) /\ took \in Nat
      /\ Len(Answer) = Needs /\ Answer[2] = down[took + 2]
  BY <1>2, AnswerFacts
<1>4. /\ Greeting \in Seq(Byte) /\ ConnectMessage \in Seq(Byte) /\ <<>> \in Seq(Byte)
      /\ client.cred # NoCred => AuthMessage \in Seq(Byte)
  BY <1>1, ConnectorMessages
<1>5. Opening' = Opening
  BY DEF Opening
<1>6. ASSUME NEW message \in Seq(Byte), NEW next \in Waits \union Settled,
             Send(message, next),
             client'.at = next => Heard'
      PROVE  IInv'
  <2>1. pipe' = pipe \o message /\ gone' = gone
    BY <1>6 DEF Send
  <2>2. client' \in Client /\ client'.at = next
    BY <1>1, <1>6, ClientMoves DEF Send
  <2> QED
    BY <1>3, <1>6, <2>1, <2>2, WritingKeeps
<1>7. CASE client.at = "method"
  <2>1. took = 0 /\ Needs = 2 /\ took' = 2
    BY <1>2, <1>7, NeedsValue DEF IInv, Heard
  <2>2. Len(down) >= 2 /\ Answer[2] = down[2]
    BY <1>3, <2>1
  <2>3. (down[2] = 0 => ~authRequired) /\ (down[2] = 2 => authRequired)
    BY <1>1, <2>2, MethodTold
  <2>4. CASE Answer = <<5, 0>> /\ Send(ConnectMessage, "reply")
    <3>1. ~authRequired
      BY <2>2, <2>3, <2>4
    <3>2. client'.at = "reply" => Heard'
      BY <1>1, <1>5, <2>1, <3>1, OpeningFacts DEF Heard
    <3> QED
      BY <1>4, <1>6, <2>4, <3>2 DEF Waits
  <2>5. CASE Answer = <<5, 2>> /\ client.cred # NoCred /\ Send(AuthMessage, "auth")
    <3>1. authRequired
      BY <2>2, <2>3, <2>5
    <3>2. client'.at = "auth" => Heard'
      BY <2>1, <3>1 DEF Heard
    <3> QED
      BY <1>4, <1>6, <2>5, <3>2 DEF Waits
  <2>6. CASE GiveUp
    BY <1>3, <2>6, GivingUpKeeps
  <2> QED
    BY <1>7, <2>4, <2>5, <2>6, AnswerArms
<1>8. CASE client.at = "auth"
  <2>1. took = 2 /\ authRequired /\ Needs = 2 /\ took' = 4
    BY <1>2, <1>8, NeedsValue DEF IInv, Heard
  <2>2. CASE Send(ConnectMessage, "reply")
    <3>1. client'.at = "reply" => Heard'
      BY <1>5, <2>1, OpeningFacts DEF Heard
    <3> QED
      BY <1>4, <1>6, <2>2, <3>1 DEF Waits
  <2>3. CASE GiveUp
    BY <1>3, <2>3, GivingUpKeeps
  <2> QED
    BY <1>8, <2>2, <2>3, AnswerArms
<1>9. CASE client.at = "reply"
  <2>1. took = Len(Opening) /\ Needs = 4
    BY <1>9, NeedsValue DEF IInv, Heard
  <2>2. PICK n \in {2, 4} : n = Len(Opening)
    BY <1>1, OpeningFacts
  <2>3. CASE Send(<<>>, "bind")
    <3>1. Len(down) > Len(Opening)
      BY <1>3, <2>1, <2>2
    <3>2. Replied
      BY <1>1, <3>1, RepliesLast
    <3>3. PICK rep \in {0, 5, 7} : down = Opening \o Reply(rep)
      BY <3>2 DEF Replied
    <3>4. rep \in Byte
      BY DEF Byte
    <3>5. Len(down) = Len(Opening) + 10 /\ down[Len(Opening) + 4] = 1
      BY <1>1, <3>3, <3>4, AllAnswers
    <3>6. took' = Len(Opening) + 4 /\ down[took'] = 1 /\ Len(down) = took' + 6
      BY <1>2, <2>1, <2>2, <3>5
    <3>7. client'.at = "bind" => Heard'
      BY <1>5, <3>6 DEF Heard
    <3> QED
      BY <1>4, <1>6, <2>3, <3>7 DEF Waits
  <2>4. CASE GiveUp
    BY <1>3, <2>4, GivingUpKeeps
  <2> QED
    BY <1>9, <2>3, <2>4, AnswerArms
<1>10. CASE client.at = "bind"
  <2>1. CASE Send(<<>>, "ok")
    <3>1. client'.at = "ok" => Heard'
      BY DEF Heard
    <3> QED
      BY <1>4, <1>6, <2>1, <3>1 DEF Settled
  <2>2. CASE GiveUp
    BY <1>3, <2>2, GivingUpKeeps
  <2> QED
    BY <1>10, <2>1, <2>2, AnswerArms
<1> QED
  BY <1>7, <1>8, <1>9, <1>10 DEF Waits

LEMMA ConnectsKeeps == ASSUME IInv, Connects PROVE IInv'
PROOF
<1>1. UNCHANGED <<authRequired, pc, arrived, len, user, req, target, verified,
                  consumed, down, door>>
  BY DEF Connects
<1>2. CASE client.at = "start" /\ Greet /\ UNCHANGED took
  BY <1>1, <1>2, GreetKeeps
<1>3. CASE client.at \in Waits /\ TakeAnswer
  BY <1>1, <1>3, TakingKeeps
<1>4. CASE client.at \in Waits /\ EndOfFile
  <2>1. GiveUp /\ took' \in 0 .. Len(down)
    BY <1>4 DEF EndOfFile, IInv, LinkTypes
  <2> QED
    BY <1>1, <2>1, GivingUpKeeps
<1> QED
  BY <1>2, <1>3, <1>4 DEF Connects

-----------------------------------------------------------------------------
(* Theorems                                                                *)

LEMMA Steps == IInv /\ [LNext]_lvars => IInv'
PROOF
<1> SUFFICES ASSUME IInv, [LNext]_lvars PROVE IInv'
  OBVIOUS
<1>1. CASE UNCHANGED lvars
  <2>1. Framing' /\ Told' /\ Opening' = Opening
    BY <1>1, SessionUntouched DEF lvars, vars
  <2>2. LinkTypes' /\ Heard' /\ Judged'
    BY <1>1, <2>1 DEF IInv, LinkTypes, TypeOK, Heard, Judged, lvars, vars
  <2> QED
    BY <2>1, <2>2 DEF IInv
<1>2. CASE Terminated
  BY <1>1, <1>2 DEF Terminated
<1> QED
  BY <1>1, <1>2, PeekKeeps, AssumeKeeps, ConnectsKeeps, NetworkKeeps, SessionKeeps, RelayKeeps
  DEF LNext

LEMMA IInvHolds == LSafeSpec => []IInv
BY InitHolds, Steps, PTL DEF LSafeSpec

\* Every variable keeps its type, and a connection that handle_connection has not handed to
\* handle_socks5 has not been read from (server.rs:282-323).
THEOREM TypeCorrect == LSafeSpec => []LinkTypeOK
PROOF
<1>1. IInv => LinkTypeOK
  BY DEF IInv, LinkTypes, LinkTypeOK, Client
<1> QED
  BY <1>1, IInvHolds, PTL

\* Whatever the client writes and however it is cut into segments: what is acted on is one
\* whole session, its lengths and address sizes as the protocol has them, and not a byte of
\* what follows has been read (handshake.rs:29-210).
THEOREM RequestsAlwaysFramed ==
    ASSUME WellFormed \subseteq Requests
    PROVE  LSafeSpec => []RequestFramed
PROOF
<1>1. IInv => RequestFramed
  BY FramingMeans DEF IInv, LinkTypes, RequestFramed
<1> QED
  BY <1>1, IInvHolds, PTL

\* With users configured no request is acted on unless the bytes before it are the name and
\* the password of one of them (mod.rs:20-26, handshake.rs:76-133).
THEOREM AlwaysAuthorised ==
    ASSUME WellFormed \subseteq Requests
    PROVE  LSafeSpec => []NothingWithoutAuth
PROOF
<1>1. IInv => NothingWithoutAuth
  BY FramingMeans DEF IInv, LinkTypes, NothingWithoutAuth
<1> QED
  BY <1>1, IInvHolds, PTL

\* The client is told of a success exactly when it can use the relay, of a refusal when the
\* target refused, and is answered once (tcp_connect.rs:23-46, mod.rs:31-41).
THEOREM RepliesAlwaysTruthful == LSafeSpec => []RepliesTruthful
PROOF
<1>1. IInv => RepliesTruthful
  BY ToldMeans DEF IInv, LinkTypes
<1> QED
  BY <1>1, IInvHolds, PTL

\* The first bytes decide rightly, wherever the first segment ends: the zeros of the buffer
\* never complete a method, and a SOCKS5 client is never turned away (server.rs:285-323,
\* detect.rs:10-51).
THEOREM AlwaysDispatched == LSafeSpec => []Dispatched
PROOF
<1>1. IInv => Dispatched
  BY DEF IInv, Judged, Dispatched
<1> QED
  BY <1>1, IInvHolds, PTL

-----------------------------------------------------------------------------
(* What the two handshakes have to do with each other                      *)

\* What the connector announces the length of, and what it writes after that; the whole
\* address and the port, if the length fits its byte.
Announced == SubSeq(client.to.addr, 1, AsU8(Len(client.to.addr)))
Following == SubSeq(client.to.addr, AsU8(Len(client.to.addr)) + 1, Len(client.to.addr))
             \o client.to.port

\* What the session leaves in its pipe.
Surplus == SubSeq(Following, 3, Len(Following))

\* The methods of the greeting.
Offer == IF client.cred = NoCred THEN <<0>> ELSE <<0, 2>>

\* The connector has greeted: what the session has still to read of that is in the pipe.
Greeted ==
    /\ pc \in {"greeting", "methods", "auth_ver", "header", "done"}
    /\ pc = "greeting" => pipe = Greeting
    /\ pc = "methods"  => pipe = Offer /\ len = Len(Offer)
    /\ pc = "auth_ver" => pipe = <<>>
    /\ pc = "header"   => pipe = <<>> /\ ~authRequired

Password == <<Len(client.cred[2])>> \o client.cred[2]
Username == <<Len(client.cred[1])>> \o (client.cred[1] \o Password)

\* It has sent its name and its password.
LoggingIn ==
    /\ client.cred # NoCred
    /\ pc \in AuthReads \union {"header", "done"}
    /\ pc = "auth_ver" => pipe = <<1>> \o Username
    /\ pc = "ulen"     => pipe = Username
    /\ pc = "uname"    => pipe = client.cred[1] \o Password /\ len = Len(client.cred[1])
    /\ pc = "plen"     => pipe = Password
    /\ pc = "passwd"   => pipe = client.cred[2] /\ len = Len(client.cred[2])
    /\ pc = "header"   => pipe = <<>>

\* The request the session has read is the connector's, but for a length that was cut.
Placed == /\ req.cmd = 1 /\ req.atyp = client.to.atyp
          /\ req.addr = Announced /\ req.port = SubSeq(Following, 1, 2)

Site == IF client.to.atyp = 3 THEN <<Len(Announced)>> \o (Announced \o Following)
                              ELSE Announced \o Following

\* It has sent its request.
Requesting ==
    /\ pc \in {"header", "addr4", "addr6", "alen", "name", "port", "command", "dial", "relay",
               "done"}
    /\ pc = "header" => pipe = <<5, 1, 0, client.to.atyp>> \o Site
    /\ pc \in {"addr4", "addr6", "alen"} => pc = AddressRead[client.to.atyp] /\ pipe = Site
    /\ pc = "name" => pipe = Announced \o Following /\ len = Len(Announced)
    /\ pc \in {"addr4", "addr6", "alen", "name", "port"} =>
          req.cmd = 1 /\ req.atyp = client.to.atyp
    /\ pc = "port" => req.addr = Announced /\ pipe = Following
    /\ pc \in {"command", "dial", "relay"} \/ target # "none" => Placed /\ pipe = Surplus

Coupled ==
    /\ client.at \in {"start", "method", "auth"} => target = "none"
    /\ client.at \in {"start"} \union Waits \union {"ok"} => req.cmd \in {0, 1}
    /\ client.at = "start"  => pc \in {"greeting", "done"} /\ pipe = <<>>
    /\ client.at = "method" => Greeted
    /\ client.at = "auth"   => LoggingIn
    /\ client.at = "reply"  => Requesting
    /\ client.at \in {"bind", "ok"} => target = "open" /\ Placed /\ pc \in {"relay", "done"}
    /\ client.at = "bind"   => pipe = Surplus
    /\ client.at = "ok"     => took = Len(down) /\ (Surplus = <<>> => pipe = <<>>)

Linked == client.at # "scripted" => client.to \in Destination /\ (CredFits => Coupled)

JInv == IInv /\ Linked

\* A string cut in two.
LEMMA Halves ==
    ASSUME NEW s \in Seq(Byte), NEW n \in Nat, n <= Len(s)
    PROVE  /\ SubSeq(s, 1, n) \in Seq(Byte) /\ Len(SubSeq(s, 1, n)) = n
           /\ SubSeq(s, n + 1, Len(s)) \in Seq(Byte)
           /\ Len(SubSeq(s, n + 1, Len(s))) = Len(s) - n
           /\ SubSeq(s, 1, n) \o SubSeq(s, n + 1, Len(s)) = s
PROOF
<1>1. PICK l \in Nat : l = Len(s)
  BY LenProperties
<1>2. n <= l /\ \A i \in 1 .. l : s[i] \in Byte
  BY <1>1, ElementOfSeq
<1> DEFINE a == SubSeq(s, 1, n)
           b == SubSeq(s, n + 1, l)
<1>3. a \in Seq(Byte) /\ Len(a) = n /\ \A i \in 1 .. n : a[i] = s[i]
  <2>1. \A i \in 1 .. n : s[i] \in Byte
    BY <1>2
  <2>2. /\ a \in Seq(Byte) /\ Len(a) = IF 1 <= n THEN n - 1 + 1 ELSE 0
        /\ \A i \in 1 .. n - 1 + 1 : a[i] = s[1 + i - 1]
    BY <2>1, SubSeqProperties
  <2> HIDE DEF a
  <2> QED
    BY <2>2
<1>4. b \in Seq(Byte) /\ Len(b) = l - n /\ \A i \in 1 .. l - n : b[i] = s[n + i]
  <2>1. \A i \in n + 1 .. l : s[i] \in Byte
    BY <1>2
  <2>2. /\ b \in Seq(Byte) /\ Len(b) = IF n + 1 <= l THEN l - (n + 1) + 1 ELSE 0
        /\ \A i \in 1 .. l - (n + 1) + 1 : b[i] = s[(n + 1) + i - 1]
    BY <2>1, SubSeqProperties
  <2>3. /\ (IF n + 1 <= l THEN l - (n + 1) + 1 ELSE 0) = l - n
        /\ l - (n + 1) + 1 = l - n
        /\ \A i \in 1 .. l - n : (n + 1) + i - 1 = n + i
    BY <1>2
  <2> HIDE DEF b
  <2> QED
    BY <2>2, <2>3, Zenon
<1> HIDE DEF a, b
<1>5. /\ a \o b \in Seq(Byte) /\ Len(a \o b) = Len(a) + Len(b)
      /\ \A i \in 1 .. Len(a) + Len(b) : (a \o b)[i] = IF i <= Len(a) THEN a[i] ELSE b[i - Len(a)]
  BY <1>3, <1>4, ConcatProperties
<1>6. Len(a \o b) = l /\ \A i \in 1 .. l : (a \o b)[i] = s[i]
  BY <1>2, <1>3, <1>4, <1>5
<1>7. a \o b = s
  BY <1>1, <1>5, <1>6, SeqEqual
<1> QED
  BY <1>1, <1>3, <1>4, <1>7 DEF a, b

\* A concatenation taken apart again.
LEMMA Parted ==
    ASSUME NEW a \in Seq(Byte), NEW b \in Seq(Byte)
    PROVE  /\ a \o b \in Seq(Byte)
           /\ Len(a) \in Nat /\ Len(b) \in Nat /\ Len(a \o b) = Len(a) + Len(b)
           /\ SubSeq(a \o b, 1, Len(a)) = a
           /\ SubSeq(a \o b, Len(a) + 1, Len(a \o b)) = b
PROOF
<1>1. PICK n \in Nat : n = Len(a)
  BY LenProperties
<1>2. PICK k \in Nat : k = Len(b)
  BY LenProperties
<1> DEFINE c == a \o b
<1>3. /\ c \in Seq(Byte) /\ Len(c) = n + k
      /\ \A i \in 1 .. n + k : c[i] = IF i <= n THEN a[i] ELSE b[i - n]
  BY <1>1, <1>2, ConcatProperties
<1> HIDE DEF c
<1>4. \A i \in 1 .. n + k : c[i] \in Byte
  BY <1>3, ElementOfSeq
<1> DEFINE p == SubSeq(c, 1, n)
           q == SubSeq(c, n + 1, n + k)
<1>5. p = a
  <2>1. \A i \in 1 .. n : c[i] \in Byte
    BY <1>4
  <2>2. /\ p \in Seq(Byte) /\ Len(p) = IF 1 <= n THEN n - 1 + 1 ELSE 0
        /\ \A i \in 1 .. n - 1 + 1 : p[i] = c[1 + i - 1]
    BY <2>1, SubSeqProperties
  <2> HIDE DEF p
  <2>3. Len(p) = n /\ \A i \in 1 .. n : p[i] = a[i]
    BY <1>3, <2>2
  <2> QED
    BY <1>1, <2>2, <2>3, SeqEqual
<1>6. q = b
  <2>1. \A i \in n + 1 .. n + k : c[i] \in Byte
    BY <1>4
  <2>2. /\ q \in Seq(Byte) /\ Len(q) = IF n + 1 <= n + k THEN (n + k) - (n + 1) + 1 ELSE 0
        /\ \A i \in 1 .. (n + k) - (n + 1) + 1 : q[i] = c[(n + 1) + i - 1]
    BY <2>1, SubSeqProperties
  <2> HIDE DEF q
  <2>3. Len(q) = k /\ \A i \in 1 .. k : q[i] = b[i]
    <3>1. /\ (IF n + 1 <= n + k THEN (n + k) - (n + 1) + 1 ELSE 0) = k
          /\ (n + k) - (n + 1) + 1 = k
          /\ \A i \in 1 .. k : (n + 1) + i - 1 = n + i
      OBVIOUS
    <3>2. \A i \in 1 .. k : c[n + i] = b[i]
      <4> SUFFICES ASSUME NEW i \in 1 .. k PROVE c[n + i] = b[i]
        OBVIOUS
      <4>1. PICK j \in 1 .. n + k : j = n + i
        <5>1. n + i \in 1 .. n + k
          OBVIOUS
        <5> QED
          BY <5>1
      <4>2. ~(j <= n) /\ j - n = i
        BY <4>1
      <4>3. c[j] = b[j - n]
        BY <1>3, <4>2
      <4> QED
        BY <4>1, <4>2, <4>3, Zenon
    <3> QED
      BY <2>2, <3>1, <3>2, Zenon
  <2> QED
    BY <1>2, <2>2, <2>3, SeqEqual
<1> QED
  BY <1>1, <1>2, <1>3, <1>5, <1>6 DEF c, p, q

\* A buffer that is filled by what is at the head of the pipe.
LEMMA ReadsHead ==
    ASSUME TypeOK, NEW p \in Reads, Read(p),
           NEW a \in Seq(Byte), NEW b \in Seq(Byte), pipe = a \o b, Len(a) = Wanted(p)
    PROVE  Field = a /\ pipe' = b
PROOF
<1>1. pc = p /\ pipe' = SubSeq(pipe, Wanted(p) + 1, Len(pipe))
  BY DEF Read
<1>2. Field = SubSeq(a \o b, 1, Len(a)) /\ pipe' = SubSeq(a \o b, Len(a) + 1, Len(a \o b))
  BY <1>1, Zenon DEF Field
<1> QED
  BY <1>2, Parted, Zenon

LEMMA ReadsAll ==
    ASSUME TypeOK, NEW p \in Reads, Read(p), Len(pipe) = Wanted(p)
    PROVE  Field = pipe /\ pipe' = <<>>
PROOF
<1>1. pipe \in Seq(Byte) /\ <<>> \in Seq(Byte)
  BY DEF TypeOK
<1>2. pipe = pipe \o <<>>
  BY <1>1, ConcatEmptySeq
<1> QED
  BY <1>1, <1>2, ReadsHead

\* Nothing is read from an empty pipe.
LEMMA ReadsNothing ==
    ASSUME TypeOK, pipe = <<>>, NEW p \in {"greeting", "auth_ver", "header"}
    PROVE  ~Read(p)
PROOF
<1>1. arrived = 0
  <2>1. Len(pipe) = 0
    BY EmptySeq
  <2>2. arrived \in 0 .. 0
    BY <2>1, Zenon DEF TypeOK
  <2> QED
    BY <2>2
<1>2. Wanted(p) \in {1, 2, 4}
  BY DEF Wanted
<1>3. p \in Reads
  BY DEF Reads
<1> SUFFICES ASSUME Read(p) PROVE FALSE
  OBVIOUS
<1>4. pc = p /\ ~Blocked
  BY DEF Read
<1> QED
  BY <1>1, <1>2, <1>3, <1>4 DEF Blocked

LEMMA ClientTypes ==
    ASSUME client \in Client
    PROVE  /\ client.to.atyp \in {1, 3, 4} /\ client.to.addr \in Seq(Byte)
           /\ client.to.port \in Seq(Byte)
           /\ client.cred # NoCred => client.cred[1] \in Seq(Byte) /\ client.cred[2] \in Seq(Byte)
BY DEF Client

\* The two parts of what follows the header of a request.
LEMMA DestinationFacts ==
    ASSUME client.to \in Destination
    PROVE  /\ Announced \in Seq(Byte) /\ Following \in Seq(Byte)
           /\ Len(Announced) = AsU8(Len(client.to.addr)) /\ Len(Announced) \in Byte
           /\ Announced \o Following = client.to.addr \o client.to.port
           /\ client.to.atyp = 1 => Len(Announced) = 4
           /\ client.to.atyp = 4 => Len(Announced) = 16
           /\ Len(Following) \in Nat /\ Len(Following) >= 2
           /\ Len(client.to.addr) < 256 =>
                 Announced = client.to.addr /\ Following = client.to.port
PROOF
<1> DEFINE a == client.to.addr
           p == client.to.port
           n == AsU8(Len(a))
           f == SubSeq(a, n + 1, Len(a))
<1>1. /\ a \in Seq(Byte) /\ p \in Seq(Byte) /\ Len(p) = 2
      /\ client.to.atyp = 1 => Len(a) = 4
      /\ client.to.atyp = 4 => Len(a) = 16
  BY DEF Destination
<1> HIDE DEF a, p
<1>2. PICK l \in Nat : l = Len(a)
  BY <1>1, LenProperties
<1>3. AsU8(l) \in Nat /\ AsU8(l) <= l /\ (l < 256 => AsU8(l) = l)
  BY DEF AsU8
<1>4. AsU8(l) \in Byte
  BY ByteOfLength
<1>5. n \in Nat /\ n <= Len(a) /\ n \in Byte /\ (Len(a) < 256 => n = Len(a))
  BY <1>2, <1>3, <1>4, Zenon
<1> HIDE DEF n
<1>6. /\ Announced = SubSeq(a, 1, n)
      /\ Following = f \o p
  BY DEF Announced, Following, a, p, n
<1>7. /\ Announced \in Seq(Byte) /\ Len(Announced) = n
      /\ f \in Seq(Byte) /\ Len(f) = Len(a) - n
      /\ Announced \o f = a
  BY <1>1, <1>5, <1>6, Halves
<1> HIDE DEF f
<1>8. Following \in Seq(Byte) /\ Len(Following) = Len(f) + 2 /\ Len(f) \in Nat
  <2>1. f \o p \in Seq(Byte) /\ Len(f \o p) = Len(f) + Len(p) /\ Len(f) \in Nat
    BY <1>1, <1>7, Parted
  <2> QED
    BY <1>1, <1>6, <2>1, Zenon
<1>9. Announced \o Following = a \o p
  <2>1. (Announced \o f) \o p = Announced \o (f \o p)
    <3>1. Announced \in Seq(Byte) /\ f \in Seq(Byte) /\ p \in Seq(Byte)
      BY <1>1, <1>7
    <3> QED
      BY ONLY <3>1, Regrouped, Zenon
  <2> QED
    BY <1>6, <1>7, <2>1, Zenon
<1>10. ASSUME Len(a) < 256 PROVE Announced = a /\ Following = p
  <2>1. n = Len(a) /\ Len(a) - Len(a) = 0
    BY <1>2, <1>5, <1>10
  <2>2. Len(f) = 0
    BY <1>7, <2>1, Zenon
  <2>3. f = <<>>
    BY <1>7, <2>2, EmptySeq
  <2>4. Announced \o <<>> = a /\ Announced \o <<>> = Announced
    BY <1>7, <2>3, ConcatEmptySeq
  <2>5. Following = p
    BY <1>1, <1>6, <2>3, ConcatEmptySeq
  <2> QED
    BY <2>4, <2>5, Zenon
<1>11. ASSUME NEW k \in {4, 16}, Len(a) = k PROVE Len(Announced) = k
  BY <1>5, <1>7, <1>11
<1>12. Len(Following) \in Nat /\ Len(Following) >= 2
  BY <1>8
<1> QED
  BY <1>1, <1>5, <1>7, <1>8, <1>9, <1>10, <1>11, <1>12 DEF a, p, n

\* The messages of the connector, field by field.
LEMMA OfferFacts ==
    /\ Offer \in Seq(Byte) /\ Len(Offer) \in {1, 2} /\ Len(Offer) \in Byte
    /\ Greeting = <<5, Len(Offer)>> \o Offer
    /\ <<5, Len(Offer)>> \in Seq(Byte) /\ Len(<<5, Len(Offer)>>) = 2
PROOF
<1>1. 0 \in Byte /\ 1 \in Byte /\ 2 \in Byte /\ 5 \in Byte
  BY DEF Byte
<1>2. CASE client.cred = NoCred
  <2> DEFINE a == <<5, 1>>
             b == <<0>>
             c == <<5, 1, 0>>
  <2>1. /\ a \in Seq(Byte) /\ Len(a) = 2 /\ a[1] = 5 /\ a[2] = 1
        /\ b \in Seq(Byte) /\ Len(b) = 1 /\ b[1] = 0
        /\ c \in Seq(Byte) /\ Len(c) = 3 /\ c[1] = 5 /\ c[2] = 1 /\ c[3] = 0
    BY <1>1
  <2>2. Offer = b /\ Greeting = c
    BY <1>2 DEF Offer, Greeting
  <2>3. Len(b) = 1
    BY <2>1
  <2>4. <<5, Len(b)>> = a
    BY <2>3, Zenon
  <2> HIDE DEF a, b, c
  <2>5. /\ a \o b \in Seq(Byte) /\ Len(a \o b) = Len(a) + Len(b)
        /\ \A i \in 1 .. Len(a) + Len(b) : (a \o b)[i] = IF i <= Len(a) THEN a[i] ELSE b[i - Len(a)]
    BY <2>1, ConcatProperties
  <2>6. Len(a \o b) = Len(c) /\ \A i \in 1 .. Len(a \o b) : (a \o b)[i] = c[i]
    BY <2>1, <2>5
  <2>7. a \o b = c
    BY <2>1, <2>5, <2>6, SeqEqual
  <2> QED
    BY <1>1, <2>1, <2>2, <2>4, <2>7, Zenon
<1>3. CASE client.cred # NoCred
  <2> DEFINE b == <<0, 2>>
  <2>1. b \in Seq(Byte) /\ Len(b) = 2
    BY <1>1
  <2>2. <<5, 2>> \in Seq(Byte) /\ Len(<<5, 2>>) = 2
    BY <1>1
  <2>3. Offer = b /\ Greeting = <<5, 2, 0, 2>>
    BY <1>3 DEF Offer, Greeting
  <2>4. <<5, 2>> \o b = <<5, 2, 0, 2>>
    BY <1>1, Joined2
  <2> HIDE DEF b
  <2>5. <<5, Len(b)>> = <<5, 2>>
    BY <2>1, Zenon
  <2>6. Len(b) \in {1, 2} /\ Len(b) \in Byte
    BY <1>1, <2>1, Zenon
  <2> QED
    BY <2>1, <2>2, <2>3, <2>4, <2>5, <2>6, Zenon
<1> QED
  BY <1>2, <1>3

\* Concatenations of bytes, regrouped.
LEMMA Regroups ==
    /\ \A s, t \in Seq(Byte) : s \o t \in Seq(Byte)
    /\ \A h, s, t \in Seq(Byte) : (h \o s) \o t = h \o (s \o t)
PROOF
<1>1. \A s, t \in Seq(Byte) : s \o t \in Seq(Byte)
  BY ConcatProperties
<1>2. \A h, s, t \in Seq(Byte) : (h \o s) \o t = h \o (s \o t)
  BY Regrouped
<1> QED
  BY <1>1, <1>2

LEMMA UsernameFacts ==
    ASSUME client \in Client, client.cred # NoCred, CredFits
    PROVE  /\ client.cred[1] \in Seq(Byte) /\ Len(client.cred[1]) \in Byte
           /\ client.cred[2] \in Seq(Byte) /\ Len(client.cred[2]) \in Byte
           /\ <<1>> \in Seq(Byte) /\ <<Len(client.cred[1])>> \in Seq(Byte)
           /\ <<Len(client.cred[2])>> \in Seq(Byte)
           /\ Password \in Seq(Byte) /\ client.cred[1] \o Password \in Seq(Byte)
           /\ Username \in Seq(Byte)
           /\ AuthMessage = <<1>> \o Username
PROOF
<1>1. PICK u \in Seq(Byte), p \in Seq(Byte) : u = client.cred[1] /\ p = client.cred[2]
  BY ClientTypes
<1>2. Len(u) < 256 /\ Len(p) < 256
  BY <1>1 DEF CredFits
<1>3. u \in Short /\ p \in Short
  BY <1>2 DEF Short
<1>4. /\ Len(u) \in Byte /\ <<Len(u)>> \in Seq(Byte)
      /\ Len(p) \in Byte /\ <<Len(p)>> \in Seq(Byte)
  BY <1>3, ShortFacts
<1>5. AsU8(Len(u)) = Len(u) /\ AsU8(Len(p)) = Len(p)
  <2>1. ASSUME NEW n \in Nat, n < 256 PROVE AsU8(n) = n
    BY <2>1 DEF AsU8
  <2>2. Len(u) \in Nat /\ Len(p) \in Nat
    BY LenProperties
  <2> QED
    BY <1>2, <2>1, <2>2, Zenon
<1>6. 1 \in Byte /\ <<1>> \in Seq(Byte)
  BY DEF Byte
<1> DEFINE w == <<Len(p)>> \o p
           n == <<Len(u)>> \o (u \o w)
<1>7. Password = w /\ Username = n
  BY <1>1, Zenon DEF Password, Username
<1>8. AuthMessage = ((<<1, Len(u)>> \o u) \o <<Len(p)>>) \o p
  BY <1>1, <1>5, Zenon DEF AuthMessage
<1>9. <<1, Len(u)>> = <<1>> \o <<Len(u)>>
  BY <1>4, <1>6, Joined, Zenon
<1>10. /\ w \in Seq(Byte) /\ u \o w \in Seq(Byte) /\ n \in Seq(Byte)
       /\ (((<<1>> \o <<Len(u)>>) \o u) \o <<Len(p)>>) \o p = <<1>> \o n
  <2> DEFINE a == <<1>>
             b == <<Len(u)>>
             c == <<Len(p)>>
  <2>1. a \in Seq(Byte) /\ b \in Seq(Byte) /\ c \in Seq(Byte)
    BY <1>4, <1>6
  <2> HIDE DEF a, b, c
  <2> DEFINE Cat(s, t) == s \o t
  <2>2. /\ \A s, t \in Seq(Byte) : Cat(s, t) \in Seq(Byte)
        /\ \A h, s, t \in Seq(Byte) : Cat(Cat(h, s), t) = Cat(h, Cat(s, t))
    BY Regroups, Zenon
  <2> HIDE DEF Cat
  <2>3. /\ Cat(a, b) \in Seq(Byte) /\ Cat(Cat(a, b), u) \in Seq(Byte)
        /\ Cat(c, p) \in Seq(Byte) /\ Cat(u, Cat(c, p)) \in Seq(Byte)
        /\ Cat(b, Cat(u, Cat(c, p))) \in Seq(Byte)
    BY <2>1, <2>2
  <2>4. Cat(Cat(Cat(Cat(a, b), u), c), p) = Cat(Cat(Cat(a, b), u), Cat(c, p))
    BY <2>1, <2>2, <2>3
  <2>5. Cat(Cat(Cat(a, b), u), Cat(c, p)) = Cat(Cat(a, b), Cat(u, Cat(c, p)))
    BY <2>1, <2>2, <2>3
  <2>6. Cat(Cat(a, b), Cat(u, Cat(c, p))) = Cat(a, Cat(b, Cat(u, Cat(c, p))))
    BY <2>1, <2>2, <2>3
  <2>7. Cat(Cat(Cat(Cat(a, b), u), c), p) = Cat(a, Cat(b, Cat(u, Cat(c, p))))
    BY ONLY <2>4, <2>5, <2>6, Zenon
  <2> QED
    BY <2>3, <2>7, Zenon DEF a, b, c, Cat
<1> HIDE DEF n, w
<1>11. AuthMessage = <<1>> \o n
  BY ONLY <1>8, <1>9, <1>10, Zenon
<1> QED
  BY <1>1, <1>4, <1>6, <1>7, <1>10, <1>11, Zenon

LEMMA SiteFacts ==
    ASSUME client \in Client, client.to \in Destination
    PROVE  /\ Announced \o Following \in Seq(Byte)
           /\ Site \in Seq(Byte)
           /\ <<Len(Announced)>> \in Seq(Byte)
           /\ <<5, 1, 0, client.to.atyp>> \in Seq(Byte)
           /\ Len(<<5, 1, 0, client.to.atyp>>) = 4
           /\ ConnectMessage = <<5, 1, 0, client.to.atyp>> \o Site
PROOF
<1> DEFINE h == <<5, 1, 0, client.to.atyp>>
           l == <<Len(Announced)>>
           a == client.to.addr
           p == client.to.port
<1>1. client.to.atyp \in {1, 3, 4} /\ a \in Seq(Byte) /\ p \in Seq(Byte)
  BY ClientTypes
<1>2. /\ Announced \in Seq(Byte) /\ Following \in Seq(Byte)
      /\ Len(Announced) = AsU8(Len(a)) /\ Len(Announced) \in Byte
      /\ Announced \o Following = a \o p
  BY DestinationFacts
<1>3. h \in Seq(Byte) /\ Len(h) = 4
  <2>1. 0 \in Byte /\ 1 \in Byte /\ 5 \in Byte /\ client.to.atyp \in Byte
    BY <1>1 DEF Byte
  <2> QED
    BY <2>1
<1>4. l \in Seq(Byte) /\ Announced \o Following \in Seq(Byte)
  <2>1. Announced \o Following \in Seq(Byte)
    BY <1>2, ConcatProperties
  <2>2. l \in Seq(Byte)
    BY <1>2
  <2> QED
    BY <2>1, <2>2
<1> DEFINE x == IF client.to.atyp = 3 THEN <<AsU8(Len(a))>> ELSE <<>>
<1>5. ConnectMessage = ((h \o x) \o a) \o p
  BY DEF ConnectMessage
<1> HIDE DEF h, a, p
<1>6. CASE client.to.atyp = 3
  <2>1. x = l /\ Site = l \o (a \o p)
    BY <1>2, <1>6, Zenon DEF Site
  <2>2. h \o l \in Seq(Byte)
    BY <1>3, <1>4, ConcatProperties
  <2> HIDE DEF x, l
  <2>3. ((h \o l) \o a) \o p = (h \o l) \o (a \o p) /\ a \o p \in Seq(Byte)
    BY <1>1, <2>2, Regrouped, Zenon
  <2>4. (h \o l) \o (a \o p) = h \o (l \o (a \o p)) /\ l \o (a \o p) \in Seq(Byte)
    BY <1>3, <1>4, <2>3, Regrouped, Zenon
  <2> QED
    BY <1>3, <1>4, <1>5, <2>1, <2>3, <2>4, Zenon DEF h, l
<1>7. CASE client.to.atyp # 3
  <2>1. x = <<>> /\ Site = a \o p
    BY <1>2, <1>7, Zenon DEF Site
  <2>2. h \o <<>> = h
    BY <1>3, ConcatEmptySeq
  <2> HIDE DEF x, l
  <2>3. (h \o a) \o p = h \o (a \o p) /\ a \o p \in Seq(Byte)
    BY <1>1, <1>3, Regrouped, Zenon
  <2> QED
    BY <1>3, <1>4, <1>5, <2>1, <2>2, <2>3, Zenon DEF h, l
<1> QED
  BY <1>6, <1>7

-----------------------------------------------------------------------------
(* The session follows the connector                                       *)

\* Which action there is at which point.
LEMMA SessionByPoint ==
    ASSUME Session
    PROVE  \/ ReadTimeout
           \/ PeerGone
           \/ pc = "greeting" /\ ReadGreeting
           \/ pc = "methods" /\ ReadMethods
           \/ pc = "auth_ver" /\ ReadAuthVersion
           \/ pc \in {"ulen", "plen", "alen"} /\ ReadLength
           \/ pc = "uname" /\ ReadUsername
           \/ pc = "passwd" /\ ReadPassword
           \/ pc = "header" /\ ReadHeader
           \/ pc \in {"addr4", "addr6", "name"} /\ ReadAddress
           \/ pc = "port" /\ ReadPort
           \/ pc = "command" /\ Command
           \/ pc = "dial" /\ Dialled
PROOF
<1>1. ReadGreeting => pc = "greeting"
  BY DEF ReadGreeting, Read
<1>2. ReadMethods => pc = "methods"
  BY DEF ReadMethods, Read
<1>3. ReadAuthVersion => pc = "auth_ver"
  BY DEF ReadAuthVersion, Read
<1>4. ReadLength => pc \in {"ulen", "plen", "alen"}
  BY DEF ReadLength, Read
<1>5. ReadUsername => pc = "uname"
  BY DEF ReadUsername, Read
<1>6. ReadPassword => pc = "passwd"
  BY DEF ReadPassword, Read
<1>7. ReadHeader => pc = "header"
  BY DEF ReadHeader, Read
<1>8. ReadAddress => pc \in {"addr4", "addr6", "name"}
  BY DEF ReadAddress, Read
<1>9. ReadPort => pc = "port"
  BY DEF ReadPort, Read
<1>10. (Command => pc = "command") /\ (Dialled => pc = "dial")
  BY DEF Command, Dialled
<1> QED
  BY <1>1, <1>2, <1>3, <1>4, <1>5, <1>6, <1>7, <1>8, <1>9, <1>10 DEF Session

\* What the connector means does not change.
LEMMA ConnectorStays ==
    ASSUME client'.cred = client.cred, client'.to = client.to
    PROVE  /\ Announced' = Announced /\ Following' = Following /\ Surplus' = Surplus
           /\ Offer' = Offer /\ Greeting' = Greeting /\ Site' = Site
           /\ Password' = Password /\ Username' = Username
           /\ CredFits' = CredFits
PROOF
<1>1. Announced' = Announced /\ Following' = Following
  BY DEF Announced, Following
<1>2. Surplus' = Surplus /\ Site' = Site
  BY <1>1 DEF Surplus, Site
<1>3. Offer' = Offer /\ Greeting' = Greeting /\ Password' = Password
  BY DEF Offer, Greeting, Password
<1>4. Username' = Username
  BY <1>3 DEF Username
<1>5. CredFits' = CredFits
  BY DEF CredFits
<1> QED
  BY <1>1, <1>2, <1>3, <1>4, <1>5

\* A session that ends, with its request and its target as they are.
LEMMA EndCoupled ==
    ASSUME Coupled, pc' = "done", pc \notin {"command", "dial"},
           pc \in Reads => target = "none",
           UNCHANGED <<authRequired, pipe, req, target, down, client, took>>
    PROVE  Coupled'
PROOF
<1>1. /\ Announced' = Announced /\ Following' = Following /\ Surplus' = Surplus
      /\ Offer' = Offer /\ Greeting' = Greeting /\ Site' = Site
      /\ Password' = Password /\ Username' = Username
  BY ConnectorStays
<1>2. client.at = "method" => Greeted'
  BY DEF Greeted
<1>3. client.at = "auth" => LoggingIn'
  BY DEF Coupled, LoggingIn, AuthReads
<1>4. Placed' = Placed
  BY <1>1 DEF Placed
<1>5. client.at = "reply" => Requesting'
  BY <1>1, <1>4 DEF Coupled, Requesting
<1> QED
  BY <1>1, <1>2, <1>3, <1>4, <1>5 DEF Coupled

\* The read that gives up, or meets the end of the stream.
LEMMA StopCoupled ==
    ASSUME IInv, LSession, Coupled, ReadTimeout \/ PeerGone
    PROVE  Coupled'
PROOF
<1>1. /\ pc' = "done" /\ pc \in Reads \union {"relay", "udp"}
      /\ UNCHANGED <<authRequired, pipe, req, target, down, client, took>>
  BY DEF LSession, Session, ReadTimeout, PeerGone, Ends, Goto, Blocked
<1>2. pc \in Reads => target = "none"
  BY DEF IInv, Framing, ActingFramed
<1>3. pc \notin {"command", "dial"}
  BY <1>1 DEF Reads
<1> QED
  BY <1>1, <1>2, <1>3, EndCoupled

\* Nothing written yet: there is nothing to read.
LEMMA StartCoupled ==
    ASSUME IInv, LSession, Coupled, client.at = "start"
    PROVE  Coupled'
PROOF
<1>1. pc \in {"greeting", "done"} /\ pipe = <<>> /\ TypeOK /\ Session
  BY DEF Coupled, IInv, LinkTypes, LSession
<1>2. ~ReadGreeting
  BY <1>1, ReadsNothing DEF ReadGreeting
<1> QED
  BY <1>1, <1>2, SessionByPoint, StopCoupled

LEMMA GreetedCoupled ==
    ASSUME IInv, LSession, Coupled, client.at = "method"
    PROVE  Coupled'
PROOF
<1>1. Greeted /\ target = "none" /\ req.cmd \in {0, 1} /\ TypeOK /\ Session
  BY DEF Coupled, IInv, LinkTypes, LSession, Waits
<1>2. UNCHANGED <<authRequired, client, took>>
  BY DEF LSession, Session
<1>3. Offer' = Offer
  BY <1>2, ConnectorStays
<1>4. ASSUME Greeted', UNCHANGED <<target, req>> PROVE Coupled'
  BY <1>1, <1>2, <1>4 DEF Coupled, Waits
<1>5. CASE pc = "greeting" /\ ReadGreeting
  <2>1. Read("greeting") /\ "greeting" \in Reads /\ Wanted("greeting") = 2
    BY <1>5 DEF ReadGreeting, Reads, Wanted
  <2>2. pipe = <<5, Len(Offer)>> \o Offer
    BY <1>1, <1>5, OfferFacts DEF Greeted
  <2>3. Field = <<5, Len(Offer)>> /\ pipe' = Offer
    BY <1>1, <2>1, <2>2, OfferFacts, ReadsHead
  <2>4. pc' = "methods" /\ len' = Len(Offer) /\ UNCHANGED <<target, req>>
    BY <1>5, <2>3 DEF ReadGreeting, Goto
  <2>5. Greeted'
    BY <1>3, <2>3, <2>4 DEF Greeted
  <2> QED
    BY <1>4, <2>4, <2>5
<1>6. CASE pc = "methods" /\ ReadMethods
  <2>1. Read("methods") /\ "methods" \in Reads /\ Wanted("methods") = len
    BY <1>6 DEF ReadMethods, Reads, Wanted
  <2>2. Len(pipe) = len
    BY <1>1, <1>6 DEF Greeted
  <2>3. pipe' = <<>>
    BY <1>1, <2>1, <2>2, ReadsAll
  <2>4. UNCHANGED <<target, req>>
    BY <1>6 DEF ReadMethods
  <2>5. \/ pc' = "done"
        \/ pc' = "auth_ver"
        \/ pc' = "header" /\ Selected(Field) = 0
    <3>1. Selected(Field) \in {0, 2, 255}
      BY DEF Selected
    <3> QED
      BY <1>6, <3>1 DEF ReadMethods, Ends, Goto
  <2>6. Selected(Field) = 0 => ~authRequired
    BY DEF Selected
  <2>7. Greeted'
    BY <1>2, <2>3, <2>5, <2>6 DEF Greeted
  <2> QED
    BY <1>4, <2>4, <2>7
<1>7. ~(pc = "auth_ver" /\ ReadAuthVersion) /\ ~(pc = "header" /\ ReadHeader)
  BY <1>1, ReadsNothing DEF Greeted, ReadAuthVersion, ReadHeader
<1>8. pc \in {"greeting", "methods", "auth_ver", "header", "done"}
  BY <1>1 DEF Greeted
<1> QED
  BY <1>1, <1>5, <1>6, <1>7, <1>8, SessionByPoint, StopCoupled

LEMMA LoginCoupled ==
    ASSUME IInv, LSession, Coupled, CredFits, client.at = "auth"
    PROVE  Coupled'
PROOF
<1> DEFINE u == client.cred[1]
           p == client.cred[2]
<1>1. LoggingIn /\ target = "none" /\ req.cmd \in {0, 1} /\ TypeOK /\ Session /\ client \in Client
  BY DEF Coupled, IInv, LinkTypes, LSession, Waits
<1>2. UNCHANGED <<authRequired, client, took>>
  BY DEF LSession, Session
<1>3. Password' = Password /\ Username' = Username
  BY <1>2, ConnectorStays
<1>4. client.cred # NoCred
  BY <1>1 DEF LoggingIn
<1>5. /\ u \in Seq(Byte) /\ Len(u) \in Byte /\ <<Len(u)>> \in Seq(Byte)
      /\ p \in Seq(Byte) /\ Len(p) \in Byte /\ <<Len(p)>> \in Seq(Byte)
      /\ <<1>> \in Seq(Byte)
      /\ Password \in Seq(Byte) /\ u \o Password \in Seq(Byte) /\ Username \in Seq(Byte)
  BY <1>1, <1>4, UsernameFacts
<1>6. ASSUME LoggingIn', UNCHANGED <<target, req>> PROVE Coupled'
  BY <1>1, <1>2, <1>6 DEF Coupled, Waits
<1>7. ASSUME NEW x \in Byte
      PROVE  Len(<<x>>) = 1 /\ <<x>>[1] = x
  OBVIOUS
<1>8. CASE pc = "auth_ver" /\ ReadAuthVersion
  <2>1. Read("auth_ver") /\ "auth_ver" \in Reads /\ Wanted("auth_ver") = 1
    BY <1>8 DEF ReadAuthVersion, Reads, Wanted
  <2>2. pipe = <<1>> \o Username /\ Len(<<1>>) = 1
    BY <1>1, <1>8 DEF LoggingIn
  <2>3. Field = <<1>> /\ pipe' = Username
    BY <1>1, <1>5, <2>1, <2>2, ReadsHead
  <2>4. pc' \in {"ulen", "done"} /\ UNCHANGED <<target, req>>
    BY <1>8 DEF ReadAuthVersion, Goto, Ends
  <2>5. LoggingIn'
    BY <1>2, <1>3, <1>4, <2>3, <2>4 DEF LoggingIn, AuthReads
  <2> QED
    BY <1>6, <2>4, <2>5
<1>9. CASE pc = "ulen" /\ ReadLength
  <2>1. Read("ulen") /\ pc' = "uname" /\ UNCHANGED <<target, req>> /\ len' = Field[1]
    BY <1>9 DEF ReadLength, Read, Goto
  <2>2. "ulen" \in Reads /\ Wanted("ulen") = 1
    BY DEF Reads, Wanted
  <2>3. pipe = <<Len(u)>> \o (u \o Password)
    BY <1>1, <1>9 DEF LoggingIn, Username
  <2>4. Field = <<Len(u)>> /\ pipe' = u \o Password
    BY <1>1, <1>5, <1>7, <2>1, <2>2, <2>3, ReadsHead
  <2>5. len' = Len(u)
    BY <1>5, <1>7, <2>1, <2>4, Zenon
  <2>6. LoggingIn'
    BY <1>2, <1>3, <1>4, <2>1, <2>4, <2>5 DEF LoggingIn, AuthReads
  <2> QED
    BY <1>6, <2>1, <2>6
<1>10. CASE pc = "uname" /\ ReadUsername
  <2>1. Read("uname") /\ pc' = "plen" /\ UNCHANGED <<target, req>>
    BY <1>10 DEF ReadUsername, Goto
  <2>2. "uname" \in Reads /\ Wanted("uname") = len
    BY DEF Reads, Wanted
  <2>3. pipe = u \o Password /\ len = Len(u)
    BY <1>1, <1>10 DEF LoggingIn
  <2>4. pipe' = Password
    BY <1>1, <1>5, <2>1, <2>2, <2>3, ReadsHead
  <2>5. LoggingIn'
    BY <1>2, <1>3, <1>4, <2>1, <2>4 DEF LoggingIn, AuthReads
  <2> QED
    BY <1>6, <2>1, <2>5
<1>11. CASE pc = "plen" /\ ReadLength
  <2>1. Read("plen") /\ pc' = "passwd" /\ UNCHANGED <<target, req>> /\ len' = Field[1]
    BY <1>11 DEF ReadLength, Read, Goto
  <2>2. "plen" \in Reads /\ Wanted("plen") = 1
    BY DEF Reads, Wanted
  <2>3. pipe = <<Len(p)>> \o p
    BY <1>1, <1>11 DEF LoggingIn, Password
  <2>4. Field = <<Len(p)>> /\ pipe' = p
    BY <1>1, <1>5, <1>7, <2>1, <2>2, <2>3, ReadsHead
  <2>5. len' = Len(p)
    BY <1>5, <1>7, <2>1, <2>4, Zenon
  <2>6. LoggingIn'
    BY <1>2, <1>3, <1>4, <2>1, <2>4, <2>5 DEF LoggingIn, AuthReads
  <2> QED
    BY <1>6, <2>1, <2>6
<1>12. CASE pc = "passwd" /\ ReadPassword
  <2>1. Read("passwd") /\ pc' \in {"header", "done"} /\ UNCHANGED <<target, req>>
    BY <1>12 DEF ReadPassword, AnswerAuth, Goto, Ends
  <2>2. "passwd" \in Reads /\ Wanted("passwd") = len
    BY DEF Reads, Wanted
  <2>3. Len(pipe) = len
    BY <1>1, <1>12 DEF LoggingIn
  <2>4. pipe' = <<>>
    BY <1>1, <2>1, <2>2, <2>3, ReadsAll
  <2>5. LoggingIn'
    BY <1>2, <1>4, <2>1, <2>4 DEF LoggingIn, AuthReads
  <2> QED
    BY <1>6, <2>1, <2>5
<1>13. ~(pc = "header" /\ ReadHeader)
  BY <1>1, ReadsNothing DEF LoggingIn, ReadHeader
<1>14. pc \in {"auth_ver", "ulen", "uname", "plen", "passwd", "header", "done"}
  BY <1>1 DEF LoggingIn, AuthReads
<1> QED
  BY <1>1, <1>8, <1>9, <1>10, <1>11, <1>12, <1>13, <1>14, SessionByPoint, StopCoupled

\* The port ends the request: what is left is what the session was not told the length of.
LEMMA FollowingFacts ==
    ASSUME client.to \in Destination
    PROVE  /\ SubSeq(Following, 1, 2) \in Seq(Byte) /\ Len(SubSeq(Following, 1, 2)) = 2
           /\ Surplus \in Seq(Byte)
           /\ Following = SubSeq(Following, 1, 2) \o Surplus
           /\ Len(client.to.addr) < 256 =>
                 SubSeq(Following, 1, 2) = client.to.port /\ Surplus = <<>>
PROOF
<1>1. Following \in Seq(Byte) /\ 2 <= Len(Following) /\ Len(Following) \in Nat
  BY DestinationFacts
<1>2. /\ SubSeq(Following, 1, 2) \in Seq(Byte) /\ Len(SubSeq(Following, 1, 2)) = 2
      /\ SubSeq(Following, 2 + 1, Len(Following)) \in Seq(Byte)
      /\ Len(SubSeq(Following, 2 + 1, Len(Following))) = Len(Following) - 2
      /\ SubSeq(Following, 1, 2) \o SubSeq(Following, 2 + 1, Len(Following)) = Following
  BY <1>1, Halves
<1>3. Surplus = SubSeq(Following, 2 + 1, Len(Following))
  <2>1. 2 + 1 = 3
    OBVIOUS
  <2> QED
    BY <2>1, Zenon DEF Surplus
<1>4. ASSUME Len(client.to.addr) < 256
      PROVE  SubSeq(Following, 1, 2) = client.to.port /\ Surplus = <<>>
  <2> DEFINE p == client.to.port
  <2>1. Following = p /\ p \in Seq(Byte) /\ Len(p) = 2
    BY <1>4, DestinationFacts DEF Destination
  <2>2. Len(Surplus) = 0
    <3>1. Len(Surplus) = 2 - 2
      BY <1>2, <1>3, <2>1, Zenon
    <3> QED
      BY <3>1
  <2>3. Surplus = <<>>
    BY <1>2, <1>3, <2>2, EmptySeq
  <2>4. SubSeq(Following, 1, 2) \o <<>> = SubSeq(Following, 1, 2)
    BY <1>2, ConcatEmptySeq
  <2>5. SubSeq(Following, 1, 2) = Following
    BY <1>2, <1>3, <2>3, <2>4, Zenon
  <2> QED
    BY <2>1, <2>3, <2>5, Zenon
<1> QED
  BY <1>2, <1>3, <1>4, Zenon

\* The session reads the request of the connector, dials, and answers.
LEMMA RequestCoupled ==
    ASSUME IInv, LSession, Coupled, client.to \in Destination, client.at = "reply"
    PROVE  Coupled'
PROOF
<1> DEFINE t == client.to.atyp
           h == <<5, 1, 0, t>>
           r == Announced \o Following
<1>1. /\ Requesting /\ req.cmd \in {0, 1} /\ TypeOK /\ Session /\ client \in Client
      /\ t \in {1, 3, 4}
  BY ClientTypes DEF Coupled, IInv, LinkTypes, LSession, Waits
<1>2. UNCHANGED <<authRequired, client, took>>
  BY DEF LSession, Session
<1>3. Announced' = Announced /\ Following' = Following /\ Surplus' = Surplus /\ Site' = Site
  BY <1>2, ConnectorStays
<1>4. ASSUME Requesting', req'.cmd \in {0, 1} PROVE Coupled'
  BY <1>2, <1>4 DEF Coupled, Waits
<1>5. /\ Announced \in Seq(Byte) /\ Following \in Seq(Byte) /\ r \in Seq(Byte)
      /\ Site \in Seq(Byte) /\ h \in Seq(Byte) /\ Len(h) = 4 /\ h[2] = 1 /\ h[4] = t
      /\ Len(Announced) \in Byte /\ <<Len(Announced)>> \in Seq(Byte)
      /\ t = 1 => Len(Announced) = 4
      /\ t = 4 => Len(Announced) = 16
  BY <1>1, DestinationFacts, SiteFacts
<1>6. pc \in Reads \union {"command"} => target = "none"
  BY DEF IInv, Framing, ActingFramed
<1>7. req \in Request
  BY <1>1, TypeParts DEF OtherTypes
<1> HIDE DEF h, r
<1>8. CASE pc = "header" /\ ReadHeader
  <2>1. Read("header") /\ "header" \in Reads /\ Wanted("header") = 4 /\ target' = "none"
    BY <1>6, <1>8 DEF ReadHeader, Reads, Wanted
  <2>2. pipe = h \o Site
    BY <1>1, <1>8 DEF Requesting, h
  <2>3. Field = h /\ pipe' = Site
    BY <1>1, <1>5, <2>1, <2>2, ReadsHead
  <2>4. req' = [req EXCEPT !.cmd = 1, !.atyp = t]
    BY <1>5, <1>8, <2>3 DEF ReadHeader
  <2>5. req'.cmd = 1 /\ req'.atyp = t
    BY <1>7, <2>4 DEF Request
  <2>6. pc' = "done" \/ pc' = AddressRead[t]
    BY <1>5, <1>8, <2>3 DEF ReadHeader, Ends, Goto
  <2>7. AddressRead[t] \in {"addr4", "addr6", "alen"}
    BY <1>1 DEF AddressRead
  <2>8. Requesting'
    BY <1>2, <1>3, <2>1, <2>3, <2>5, <2>6, <2>7 DEF Requesting
  <2> QED
    BY <1>4, <2>5, <2>8
<1>9. CASE pc = "alen" /\ ReadLength
  <2>1. /\ Read("alen") /\ "alen" \in Reads /\ Wanted("alen") = 1 /\ target' = "none"
        /\ pc' = "name" /\ len' = Field[1] /\ req' = req
    BY <1>6, <1>9 DEF ReadLength, Read, Reads, Wanted, Goto
  <2>2. AddressRead[t] = "alen" => t = 3
    BY <1>1 DEF AddressRead
  <2>3. pipe = <<Len(Announced)>> \o r /\ req.cmd = 1 /\ req.atyp = t
    BY <1>1, <1>9, <2>2 DEF Requesting, Site, r
  <2>4. Len(<<Len(Announced)>>) = 1 /\ <<Len(Announced)>>[1] = Len(Announced)
    OBVIOUS
  <2>5. Field = <<Len(Announced)>> /\ pipe' = r
    BY <1>1, <1>5, <2>1, <2>3, <2>4, ReadsHead
  <2>6. len' = Len(Announced)
    BY <2>1, <2>4, <2>5, Zenon
  <2>7. Requesting'
    BY <1>2, <1>3, <2>1, <2>3, <2>5, <2>6 DEF Requesting, r
  <2> QED
    BY <1>1, <1>4, <2>1, <2>7
<1>10. CASE pc \in {"addr4", "addr6", "name"} /\ ReadAddress
  <2>1. /\ pc \in Reads /\ Read(pc) /\ target' = "none" /\ pc' = "port"
        /\ req' = [req EXCEPT !.addr = Field]
    BY <1>6, <1>10 DEF ReadAddress, Read, Reads, Goto
  <2>2. pipe = r /\ Len(Announced) = Wanted(pc) /\ req.cmd = 1 /\ req.atyp = t
    <3>1. req.cmd = 1 /\ req.atyp = t
      BY <1>1, <1>10 DEF Requesting
    <3>2. CASE pc = "name"
      BY <1>1, <3>1, <3>2 DEF Requesting, Wanted, r
    <3>3. CASE pc \in {"addr4", "addr6"}
      <4>1. pc = AddressRead[t] /\ pipe = Site
        BY <1>1, <3>3 DEF Requesting
      <4>2. (t = 1 /\ pc = "addr4") \/ (t = 4 /\ pc = "addr6")
        BY <1>1, <3>3, <4>1 DEF AddressRead
      <4>3. Site = r
        BY <4>2 DEF Site, r
      <4>4. Wanted("addr4") = 4 /\ Wanted("addr6") = 16
        BY DEF Wanted
      <4> QED
        BY <1>5, <3>1, <4>1, <4>2, <4>3, <4>4
    <3> QED
      BY <1>10, <3>2, <3>3
  <2>3. Field = Announced /\ pipe' = Following
    BY <1>1, <1>5, <2>1, <2>2, ReadsHead DEF r
  <2>4. req'.addr = Announced /\ req'.cmd = 1 /\ req'.atyp = t
    BY <1>5, <1>7, <2>1, <2>2, <2>3, AddressUpdate
  <2>5. Requesting'
    BY <1>2, <1>3, <2>1, <2>3, <2>4 DEF Requesting
  <2> QED
    BY <1>4, <2>4, <2>5
<1>11. CASE pc = "port" /\ ReadPort
  <2> DEFINE p == SubSeq(Following, 1, 2)
  <2>1. /\ Read("port") /\ "port" \in Reads /\ Wanted("port") = 2 /\ target' = "none"
        /\ req' = [req EXCEPT !.port = Field] /\ pc' \in {"command", "done"}
    BY <1>6, <1>11 DEF ReadPort, Reads, Wanted, Goto, Ends
  <2>2. pipe = Following /\ req.addr = Announced /\ req.cmd = 1 /\ req.atyp = t
    BY <1>1, <1>11 DEF Requesting
  <2>3. p \in Seq(Byte) /\ Len(p) = 2 /\ Surplus \in Seq(Byte) /\ Following = p \o Surplus
    BY FollowingFacts
  <2> HIDE DEF p
  <2>4. Field = p /\ pipe' = Surplus
    BY <1>1, <2>1, <2>2, <2>3, ReadsHead
  <2>5. req'.port = p /\ req'.addr = Announced /\ req'.cmd = 1 /\ req'.atyp = t
    BY <1>7, <2>1, <2>2, <2>3, <2>4, PortUpdate
  <2>6. Placed'
    BY <1>2, <1>3, <2>5 DEF Placed, p
  <2>7. Requesting'
    BY <1>2, <1>3, <2>1, <2>4, <2>5, <2>6 DEF Requesting
  <2> QED
    BY <1>4, <2>5, <2>7
<1>12. CASE pc = "command" /\ Command
  <2>1. Placed /\ pipe = Surplus /\ req.cmd = 1
    BY <1>1, <1>12 DEF Requesting, Placed
  <2>2. pc' = "dial" /\ req' = req /\ pipe' = pipe
    BY <1>12, <2>1 DEF Command, Goto
  <2>3. Placed' /\ pipe' = Surplus'
    BY <1>2, <1>3, <2>1, <2>2 DEF Placed
  <2>4. Requesting'
    BY <2>2, <2>3 DEF Requesting
  <2> QED
    BY <1>1, <1>4, <2>2, <2>4
<1>13. CASE pc = "dial" /\ Dialled
  <2>1. Placed /\ pipe = Surplus
    BY <1>1, <1>13 DEF Requesting
  <2>2. pc' \in {"relay", "done"} /\ req' = req /\ pipe' = pipe
    BY <1>13 DEF Dialled, AnswerConnect, Goto, Ends
  <2>3. Placed' /\ pipe' = Surplus'
    BY <1>2, <1>3, <2>1, <2>2 DEF Placed
  <2>4. Requesting'
    BY <2>2, <2>3 DEF Requesting
  <2> QED
    BY <1>1, <1>4, <2>2, <2>4
<1>14. pc \in {"header", "addr4", "addr6", "alen", "name", "port", "command", "dial", "relay",
               "done"}
  BY <1>1 DEF Requesting
<1>15. CASE ReadTimeout \/ PeerGone
  BY <1>15, StopCoupled
<1> QED
  BY <1>1, <1>8, <1>9, <1>10, <1>11, <1>12, <1>13, <1>14, <1>15, SessionByPoint

\* After its reply the session only ends.
LEMMA AnsweredCoupled ==
    ASSUME IInv, LSession, Coupled, client.at \in {"bind", "ok"}
    PROVE  Coupled'
PROOF
<1>1. pc \in {"relay", "done"} /\ Session
  BY DEF Coupled, LSession
<1> QED
  BY <1>1, SessionByPoint, StopCoupled

LEMMA SessionLinked == ASSUME JInv, LSession PROVE Linked'
PROOF
<1>1. UNCHANGED client /\ client \in Client
  BY DEF LSession, JInv, IInv, LinkTypes
<1>2. CredFits' = CredFits
  BY <1>1, ConnectorStays
<1> SUFFICES ASSUME client.at # "scripted", CredFits PROVE Coupled'
  BY <1>1, <1>2 DEF JInv, Linked
<1>3. IInv /\ Coupled /\ client.to \in Destination
  BY DEF JInv, Linked
<1>4. CASE client.at = "failed"
  BY <1>1, <1>4 DEF Coupled, Waits
<1>5. client.at \in {"start", "method", "auth", "reply", "bind", "ok", "failed"}
  BY <1>1 DEF Client, Waits, Settled
<1> QED
  BY <1>3, <1>4, <1>5, StartCoupled, GreetedCoupled, LoginCoupled, RequestCoupled, AnsweredCoupled

-----------------------------------------------------------------------------
(* The connector follows the session                                       *)

\* The message goes on top of what the session has still to read.
LEMMA Written ==
    ASSUME IInv, NEW message \in Seq(Byte), NEW next \in Waits \union Settled,
           Send(message, next)
    PROVE  /\ pipe = <<>> => pipe' = message
           /\ message = <<>> => pipe' = pipe
           /\ client'.at = next /\ client'.cred = client.cred /\ client'.to = client.to
PROOF
<1>1. pipe \in Seq(Byte) /\ client \in Client
  BY DEF IInv, LinkTypes, TypeOK
<1>2. pipe' = pipe \o message
  BY DEF Send
<1>3. client'.at = next /\ client'.cred = client.cred /\ client'.to = client.to
  BY <1>1, ClientMoves DEF Send
<1>4. <<>> \o message = message /\ pipe \o <<>> = pipe
  BY <1>1, ConcatEmptySeq
<1> QED
  BY <1>2, <1>3, <1>4, Zenon

LEMMA GreetCouples ==
    ASSUME IInv, Coupled, Greet, client.at = "start",
           UNCHANGED <<authRequired, pc, len, req, target, down, took>>
    PROVE  Coupled'
PROOF
<1>1. target = "none" /\ req.cmd \in {0, 1} /\ pc \in {"greeting", "done"} /\ pipe = <<>>
  BY DEF Coupled
<1>2. Greeting \in Seq(Byte)
  BY ConnectorMessages DEF IInv, LinkTypes
<1>3. /\ pipe' = Greeting
      /\ client'.at = "method" /\ client'.cred = client.cred /\ client'.to = client.to
  BY <1>1, <1>2, Written DEF Greet, Waits
<1>4. Greeting' = Greeting
  BY <1>3, ConnectorStays
<1>5. Greeted'
  BY <1>1, <1>3, <1>4 DEF Greeted
<1> QED
  BY <1>1, <1>3, <1>5 DEF Coupled, Waits

\* The request is written when the session waits for it, or is over.
LEMMA RequestCouples ==
    ASSUME IInv, client.to \in Destination, Send(ConnectMessage, "reply"),
           pc \in {"header", "done"}, pc = "header" => pipe = <<>>,
           target = "none", req.cmd \in {0, 1},
           UNCHANGED <<authRequired, pc, len, req, target, down>>
    PROVE  Coupled'
PROOF
<1>1. client \in Client
  BY DEF IInv, LinkTypes
<1>2. ConnectMessage \in Seq(Byte) /\ ConnectMessage = <<5, 1, 0, client.to.atyp>> \o Site
  BY <1>1, ConnectorMessages, SiteFacts
<1>3. /\ pc = "header" => pipe' = ConnectMessage
      /\ client'.at = "reply" /\ client'.cred = client.cred /\ client'.to = client.to
  BY <1>2, Written DEF Waits
<1>4. Site' = Site
  BY <1>3, ConnectorStays
<1>5. Requesting'
  BY <1>2, <1>3, <1>4 DEF Requesting
<1> QED
  BY <1>3, <1>5 DEF Coupled, Waits

LEMMA MethodCouples ==
    ASSUME IInv, Coupled, CredFits, client.to \in Destination, client.at = "method", ~Hungry,
           \/ Answer = <<5, 0>> /\ Send(ConnectMessage, "reply")
           \/ Answer = <<5, 2>> /\ client.cred # NoCred /\ Send(AuthMessage, "auth"),
           UNCHANGED <<authRequired, pc, len, req, target, down>>
    PROVE  Coupled'
PROOF
<1>1. /\ Greeted /\ target = "none" /\ req.cmd \in {0, 1} /\ TypeOK /\ Told
      /\ client \in Client /\ took = 0 /\ authRequired \in BOOLEAN
  BY DEF Coupled, IInv, LinkTypes, TypeOK, Heard, Waits
<1>2. Needs = 2
  BY NeedsValue DEF Waits
<1>3. Len(down) >= 2 /\ Answer[2] = down[2]
  BY <1>1, <1>2, AnswerFacts DEF Waits
<1>4. pc \in {"auth_ver", "header", "done"}
  <2>1. ASSUME down = <<>> PROVE FALSE
    <3>1. Len(down) = 0
      BY <2>1, EmptySeq
    <3> QED
      BY <1>3, <3>1
  <2> QED
    BY <1>1, <2>1 DEF Greeted, Told
<1>5. pc = "auth_ver" => authRequired
  BY <1>1 DEF Told, AuthReads
<1>6. pc = "header" => ~authRequired /\ pipe = <<>>
  BY <1>1 DEF Greeted
<1>7. (down[2] = 0 => ~authRequired) /\ (down[2] = 2 => authRequired)
  BY <1>1, <1>3, MethodTold
<1>8. CASE Answer = <<5, 0>> /\ Send(ConnectMessage, "reply")
  <2>1. ~authRequired
    BY <1>3, <1>7, <1>8
  <2>2. pc \in {"header", "done"}
    BY <1>4, <1>5, <2>1
  <2> QED
    BY <1>1, <1>6, <1>8, <2>2, RequestCouples
<1>9. CASE Answer = <<5, 2>> /\ client.cred # NoCred /\ Send(AuthMessage, "auth")
  <2>1. authRequired
    BY <1>3, <1>7, <1>9
  <2>2. pc \in {"auth_ver", "done"}
    BY <1>4, <1>6, <2>1
  <2>3. pc = "auth_ver" => pipe = <<>>
    BY <1>1 DEF Greeted
  <2>4. AuthMessage \in Seq(Byte) /\ AuthMessage = <<1>> \o Username
    BY <1>1, <1>9, ConnectorMessages, UsernameFacts
  <2>5. /\ pc = "auth_ver" => pipe' = AuthMessage
        /\ client'.at = "auth" /\ client'.cred = client.cred /\ client'.to = client.to
    BY <1>9, <2>3, <2>4, Written DEF Waits
  <2>6. Username' = Username
    BY <2>5, ConnectorStays
  <2>7. LoggingIn'
    BY <1>9, <2>2, <2>4, <2>5, <2>6 DEF LoggingIn, AuthReads
  <2> QED
    BY <1>1, <2>5, <2>7 DEF Coupled, Waits
<1> QED
  BY <1>8, <1>9

LEMMA AuthCouples ==
    ASSUME IInv, Coupled, client.to \in Destination, client.at = "auth", ~Hungry,
           Send(ConnectMessage, "reply"),
           UNCHANGED <<authRequired, pc, len, req, target, down>>
    PROVE  Coupled'
PROOF
<1>1. LoggingIn /\ target = "none" /\ req.cmd \in {0, 1} /\ Told /\ took = 2
  BY DEF Coupled, IInv, Heard, Waits
<1>2. Needs = 2
  BY NeedsValue DEF Waits
<1>3. 4 <= Len(down)
  BY <1>1, <1>2, AnswerFacts DEF Waits
<1>4. ASSUME down = <<5, 2>> PROVE FALSE
  <2>1. Len(<<5, 2>>) = 2
    OBVIOUS
  <2>2. Len(down) = 2
    BY <1>4, <2>1, Zenon
  <2> QED
    BY <1>3, <2>2
<1>5. pc \in {"header", "done"}
  BY <1>1, <1>4 DEF LoggingIn, Told
<1>6. pc = "header" => pipe = <<>>
  BY <1>1 DEF LoggingIn
<1> QED
  BY <1>1, <1>5, <1>6, RequestCouples

\* A success is told after the target is connected, and after no other request.
LEMMA ReplyCouples ==
    ASSUME IInv, Coupled, client.at = "reply", ~Hungry, Answer[2] = 0, Send(<<>>, "bind"),
           UNCHANGED <<authRequired, pc, len, req, target, down>>
    PROVE  Coupled'
PROOF
<1>1. /\ Requesting /\ req.cmd \in {0, 1} /\ TypeOK /\ Told /\ took = Len(Opening)
      /\ authRequired \in BOOLEAN
  BY DEF Coupled, IInv, LinkTypes, TypeOK, Heard, Waits
<1>2. Needs = 4
  BY NeedsValue DEF Waits
<1>3. Len(down) > Len(Opening) /\ down[Len(Opening) + 2] = 0
  <2>1. took \in Nat /\ took + 4 <= Len(down) /\ down[took + 2] = 0 /\ Len(down) \in Nat
    BY <1>1, <1>2, AnswerFacts, LenProperties DEF Waits, TypeOK
  <2> QED
    BY <1>1, <2>1
<1>4. Replied
  BY <1>1, <1>3, RepliesLast
<1>5. PICK rep \in {0, 5, 7} : /\ down = Opening \o Reply(rep)
                               /\ rep = 0 => target = "open" \/ req.cmd = 3
  BY <1>4 DEF Replied
<1>6. rep = 0
  <2>1. rep \in Byte
    BY DEF Byte
  <2> QED
    BY <1>1, <1>3, <1>5, <2>1, AllAnswers
<1>7. target = "open"
  BY <1>1, <1>5, <1>6
<1>8. Placed /\ pipe = Surplus /\ pc \in {"relay", "done"}
  BY <1>1, <1>4, <1>7 DEF Requesting, Replied
<1>9. /\ pipe' = pipe
      /\ client'.at = "bind" /\ client'.cred = client.cred /\ client'.to = client.to
  <2>1. <<>> \in Seq(Byte)
    OBVIOUS
  <2> QED
    BY <2>1, Written DEF Waits
<1>10. Announced' = Announced /\ Following' = Following /\ Surplus' = Surplus
  BY <1>9, ConnectorStays
<1>11. Placed'
  BY <1>8, <1>9, <1>10 DEF Placed
<1> QED
  BY <1>1, <1>7, <1>8, <1>9, <1>10, <1>11 DEF Coupled, Waits

LEMMA BindCouples ==
    ASSUME IInv, Coupled, client.at = "bind", Send(<<>>, "ok"), took' = took + Needs,
           UNCHANGED <<authRequired, pc, len, req, target, down>>
    PROVE  Coupled'
PROOF
<1>1. /\ target = "open" /\ Placed /\ pc \in {"relay", "done"} /\ req.cmd \in {0, 1}
      /\ pipe = Surplus /\ Len(down) = took + 6
  BY DEF Coupled, IInv, Heard, Waits
<1>2. took' = Len(down)
  BY <1>1, NeedsValue DEF Waits
<1>3. /\ pipe' = pipe
      /\ client'.at = "ok" /\ client'.cred = client.cred /\ client'.to = client.to
  <2>1. <<>> \in Seq(Byte)
    OBVIOUS
  <2> QED
    BY <2>1, Written DEF Settled
<1>4. Announced' = Announced /\ Following' = Following /\ Surplus' = Surplus
  BY <1>3, ConnectorStays
<1>5. Placed'
  BY <1>1, <1>3, <1>4 DEF Placed
<1> QED
  BY <1>1, <1>2, <1>3, <1>4, <1>5 DEF Coupled, Waits

LEMMA ConnectsLinked == ASSUME JInv, Connects PROVE Linked'
PROOF
<1>1. UNCHANGED <<authRequired, pc, len, req, target, down>> /\ client \in Client /\ IInv
  BY DEF Connects, JInv, IInv, LinkTypes
<1>2. client.at # "scripted"
  BY DEF Connects, Waits
<1>3. client'.cred = client.cred /\ client'.to = client.to
  <2>1. ASSUME NEW next \in {"start"} \union Waits \union Settled,
               client' = [client EXCEPT !.at = next]
        PROVE  client'.cred = client.cred /\ client'.to = client.to
    BY <1>1, <2>1, ClientMoves
  <2>2. CASE Greet
    BY <2>1, <2>2 DEF Greet, Send, Waits
  <2>3. CASE GiveUp
    BY <2>1, <2>3 DEF GiveUp, Settled
  <2>4. CASE client.at \in Waits /\ TakeAnswer
    BY <2>1, <2>3, <2>4, AnswerArms DEF Send, Waits, Settled
  <2> QED
    BY <2>2, <2>3, <2>4 DEF Connects, EndOfFile
<1>4. CredFits' = CredFits
  BY <1>3, ConnectorStays
<1>5. client.to \in Destination
  BY <1>2 DEF JInv, Linked
<1> SUFFICES ASSUME CredFits PROVE Coupled'
  BY <1>3, <1>4, <1>5 DEF Linked
<1>6. Coupled
  BY <1>2 DEF JInv, Linked
<1>7. CASE GiveUp
  <2>1. client'.at = "failed"
    BY <1>1, <1>7, ClientMoves DEF GiveUp, Settled
  <2> QED
    BY <2>1 DEF Coupled, Waits
<1>8. CASE client.at = "start" /\ Greet /\ UNCHANGED took
  BY <1>1, <1>6, <1>8, GreetCouples
<1>9. CASE client.at \in Waits /\ TakeAnswer
  <2>1. ~Hungry /\ took' = took + Needs
    BY <1>9 DEF TakeAnswer
  <2> QED
    BY <1>1, <1>5, <1>6, <1>7, <1>9, <2>1, AnswerArms, MethodCouples, AuthCouples,
       ReplyCouples, BindCouples
<1> QED
  BY <1>7, <1>8, <1>9 DEF Connects, EndOfFile

\* What is no step of either leaves what they have to do with each other.
LEMMA LinkStays ==
    ASSUME Linked, UNCHANGED <<authRequired, pc, len, pipe, req, target, down, client, took>>
    PROVE  Linked'
PROOF
<1>1. /\ Announced' = Announced /\ Following' = Following /\ Surplus' = Surplus
      /\ Offer' = Offer /\ Greeting' = Greeting /\ Site' = Site
      /\ Password' = Password /\ Username' = Username
      /\ CredFits' = CredFits
  BY ConnectorStays
<1>2. Placed' = Placed
  BY <1>1 DEF Placed
<1>3. Greeted' = Greeted /\ LoggingIn' = LoggingIn
  BY <1>1 DEF Greeted, LoggingIn
<1>4. Requesting' = Requesting
  BY <1>1, <1>2 DEF Requesting
<1>5. Coupled' = Coupled
  BY <1>1, <1>2, <1>3, <1>4 DEF Coupled
<1> QED
  BY <1>1, <1>5 DEF Linked

LEMMA NetworkLinked == ASSUME JInv, Network PROVE Linked'
PROOF
<1>1. /\ client \in Client /\ TypeOK /\ Linked
      /\ UNCHANGED <<authRequired, pc, len, req, target, down, took>>
  BY DEF JInv, IInv, LinkTypes, Network, Deliver, ClientCloses
<1>2. CASE Deliver /\ UNCHANGED client
  BY <1>1, <1>2, LinkStays DEF Deliver
<1>3. CASE /\ ClientCloses
           /\ client' = [client EXCEPT !.at = IF @ \in Settled THEN @ ELSE "failed"]
  <2>1. /\ client'.cred = client.cred /\ client'.to = client.to
        /\ client'.at = IF client.at \in Settled THEN client.at ELSE "failed"
    BY <1>1, <1>3 DEF Client
  <2>2. CASE client.at \notin Settled \/ client.at = "failed"
    <3>1. client'.at = "failed" /\ client.at # "scripted"
      BY <2>1, <2>2 DEF Settled
    <3>2. Coupled'
      BY <3>1 DEF Coupled, Waits
    <3> QED
      BY <1>1, <2>1, <3>1, <3>2 DEF Linked
  <2>3. CASE client.at = "scripted"
    BY <2>1, <2>3 DEF Linked, Settled
  <2>4. CASE client.at = "ok"
    <3>1. client'.at = "ok" /\ client.to \in Destination
      BY <1>1, <2>1, <2>4 DEF Settled, Linked
    <3>2. Announced' = Announced /\ Following' = Following /\ Surplus' = Surplus
          /\ CredFits' = CredFits
      BY <2>1, ConnectorStays
    <3>3. pipe = <<>> => pipe' = <<>>
      <4> SUFFICES ASSUME pipe = <<>>, pipe' = SubSeq(pipe, 1, arrived) PROVE pipe' = <<>>
        BY <1>3 DEF ClientCloses
      <4>1. arrived = 0
        <5>1. Len(pipe) = 0
          BY EmptySeq
        <5>2. arrived \in 0 .. 0
          BY <1>1, <5>1, Zenon DEF TypeOK
        <5> QED
          BY <5>2
      <4>2. pipe \in Seq(Byte) /\ arrived \in 0 .. Len(pipe) /\ pipe \in Seq(Byte)
        BY <1>1 DEF TypeOK
      <4>3. pipe' \in Seq(Byte) /\ Len(pipe') = arrived
        BY <4>2, PrefixGrows
      <4> QED
        BY <4>1, <4>3, EmptySeq
    <3>4. ASSUME Coupled PROVE Coupled'
      <4>1. /\ target = "open" /\ Placed /\ pc \in {"relay", "done"} /\ req.cmd \in {0, 1}
            /\ took = Len(down) /\ (Surplus = <<>> => pipe = <<>>)
        BY <2>4, <3>4 DEF Coupled
      <4>2. Placed'
        BY <1>1, <2>1, <3>2, <4>1 DEF Placed
      <4> QED
        BY <1>1, <3>1, <3>2, <3>3, <4>1, <4>2 DEF Coupled, Waits
    <3> QED
      BY <1>1, <2>1, <2>4, <3>1, <3>2, <3>4 DEF Linked
  <2> QED
    BY <2>2, <2>3, <2>4 DEF Settled
<1> QED
  BY <1>2, <1>3 DEF Network

LEMMA RelayLinked == ASSUME JInv, Relay PROVE Linked'
PROOF
<1>1. /\ pc' = "done" /\ pc \in {"relay", "udp"} /\ Linked
      /\ UNCHANGED <<authRequired, pipe, req, target, down, client, took>>
  BY DEF JInv, Relay, RelayEnds, Ends, Goto
<1>2. pc \notin Reads /\ pc \notin {"command", "dial"}
  BY <1>1 DEF Reads
<1>3. Coupled => Coupled'
  BY <1>1, <1>2, EndCoupled
<1>4. CredFits' = CredFits
  BY <1>1, ConnectorStays
<1> QED
  BY <1>1, <1>3, <1>4 DEF Linked

LEMMA InitLinked == LInit => Linked
PROOF
<1> SUFFICES ASSUME LInit, client.at # "scripted" PROVE Linked
  BY DEF Linked
<1>1. /\ InitFrom(<<>>)
      /\ \E c \in Connectors : client = [at |-> "start", cred |-> c.cred, to |-> c.to]
  BY DEF LInit, Scripted
<1>2. PICK c \in Connector : client = [at |-> "start", cred |-> c.cred, to |-> c.to]
  BY <1>1, ConnectorsAssumption
<1>3. client.at = "start" /\ client.to \in Destination
  BY <1>2 DEF Connector
<1>4. target = "none" /\ pc = "greeting" /\ pipe = <<>> /\ req.cmd = 0
  BY <1>1 DEF InitFrom, NoRequest
<1>5. Coupled
  BY <1>3, <1>4 DEF Coupled, Waits
<1> QED
  BY <1>3, <1>5 DEF Linked

LEMMA LinkSteps == JInv /\ [LNext]_lvars => JInv'
PROOF
<1> SUFFICES ASSUME JInv, [LNext]_lvars PROVE JInv'
  OBVIOUS
<1>1. IInv'
  BY Steps DEF JInv
<1> SUFFICES Linked'
  BY <1>1 DEF JInv
<1>2. Linked
  BY DEF JInv
<1>3. CASE UNCHANGED <<vars, client, took>>
  BY <1>2, <1>3, LinkStays DEF vars
<1>4. CASE UNCHANGED lvars
  BY <1>3, <1>4 DEF lvars
<1>5. CASE Peek \/ AssumeHttp \/ Terminated
  BY <1>3, <1>4, <1>5 DEF Peek, AssumeHttp, Terminated
<1> QED
  BY <1>4, <1>5, ConnectsLinked, NetworkLinked, SessionLinked, RelayLinked DEF LNext

LEMMA JInvHolds == LSafeSpec => []JInv
PROOF
<1>1. LInit => JInv
  BY InitHolds, InitLinked DEF JInv
<1> QED
  BY <1>1, LinkSteps, PTL DEF LSafeSpec

-----------------------------------------------------------------------------
(* What each of the two can count on                                       *)

\* A connector that has its stream has it to the target it was asked for, and neither of the two
\* has left the other a byte of the handshake (socks5_proxy.rs:67-146 against
\* handshake.rs:136-223).
THEOREM ConnectorsAlwaysReach == LSafeSpec => []LinkConnects
PROOF
<1>1. JInv => LinkConnects
  <2> SUFFICES ASSUME JInv, client.at = "ok", CredFits, Len(client.to.addr) < 256
               PROVE  /\ target = "open" /\ req.cmd = 1
                      /\ [atyp |-> req.atyp, addr |-> req.addr, port |-> req.port] = client.to
                      /\ took = Len(down) /\ pipe = <<>>
    BY DEF LinkConnects
  <2>1. client.to \in Destination /\ Coupled
    BY DEF JInv, Linked
  <2>2. target = "open" /\ Placed /\ took = Len(down) /\ (Surplus = <<>> => pipe = <<>>)
    BY <2>1 DEF Coupled
  <2>3. Announced = client.to.addr /\ SubSeq(Following, 1, 2) = client.to.port /\ Surplus = <<>>
    BY <2>1, DestinationFacts, FollowingFacts
  <2>4. /\ req.cmd = 1 /\ req.atyp = client.to.atyp /\ req.addr = client.to.addr
        /\ req.port = client.to.port
    BY <2>2, <2>3 DEF Placed
  <2>5. client.to = [atyp |-> client.to.atyp, addr |-> client.to.addr, port |-> client.to.port]
    BY <2>1 DEF Destination
  <2> QED
    BY <2>2, <2>3, <2>4, <2>5
<1> QED
  BY <1>1, JInvHolds, PTL

\* A session that waits for bytes of a connector which waits for its answer has them under way:
\* what the connector has written is as long as the read (socks5_proxy.rs:49-146,
\* handshake.rs:29-210).
LEMMA NeverBoth == ASSUME JInv PROVE NeverBothWait
PROOF
<1> SUFFICES ASSUME CredFits, Hungry, Blocked, arrived = Len(pipe) PROVE FALSE
  BY DEF NeverBothWait
<1>1. /\ client \in Client /\ client.at \in Waits /\ pc \in Reads /\ Told
      /\ took + Needs > Len(down) /\ Len(pipe) < Wanted(pc) /\ authRequired \in BOOLEAN
  BY DEF JInv, IInv, LinkTypes, TypeOK, Hungry, Blocked
<1>2. Coupled /\ client.to \in Destination
  BY <1>1 DEF JInv, Linked, Waits
<1>3. pc \notin {"command", "dial", "udp", "relay", "done"}
  BY <1>1 DEF Reads
<1>4. ~(Len(pipe) >= Wanted(pc))
  <2>1. PICK l \in Nat : l = Len(pipe)
    BY LenProperties DEF JInv, IInv, LinkTypes, TypeOK
  <2>2. PICK w \in Nat : w = Wanted(pc)
    BY <1>1, WantedType DEF JInv, IInv, LinkTypes
  <2>3. l < w
    BY <1>1, <2>1, <2>2, Zenon
  <2>4. ~(l >= w)
    BY <2>3
  <2> QED
    BY <2>1, <2>2, <2>4, Zenon
<1>5. CASE client.at = "method"
  <2>1. Greeted /\ took = 0 /\ Needs = 2
    BY <1>1, <1>2, <1>5, NeedsValue DEF Coupled, JInv, IInv, Heard
  <2>2. down # <<5, 2>> /\ down # <<5, 0>>
    <3>1. Len(<<5, 2>>) = 2 /\ Len(<<5, 0>>) = 2
      OBVIOUS
    <3>2. PICK d \in Nat : d = Len(down)
      BY LenProperties DEF JInv, IInv, LinkTypes, TypeOK
    <3>3. 0 + 2 > d
      BY <1>1, <2>1, <3>2, Zenon
    <3>4. d # 2
      BY <3>3
    <3> QED
      BY <3>1, <3>2, <3>4, Zenon
  <2>3. pc \in {"greeting", "methods"}
    BY <1>1, <1>3, <2>1, <2>2 DEF Greeted, Told, Opening, AuthReads
  <2>4. CASE pc = "greeting"
    <3>1. pipe = <<5, Len(Offer)>> \o Offer
      BY <2>1, <2>4, OfferFacts DEF Greeted
    <3>2. Len(pipe) = Len(<<5, Len(Offer)>>) + Len(Offer)
      BY <3>1, OfferFacts, Parted, Zenon
    <3>3. Len(pipe) >= 2 /\ Wanted(pc) = 2
      BY <2>4, <3>2, OfferFacts DEF Wanted
    <3> QED
      BY <1>4, <3>3
  <2>5. CASE pc = "methods"
    <3>1. Len(pipe) = Wanted(pc) /\ Len(pipe) \in {1, 2}
      BY <2>1, <2>5, OfferFacts DEF Greeted, Wanted
    <3> QED
      BY <1>4, <3>1
  <2> QED
    BY <2>3, <2>4, <2>5
<1>6. CASE client.at = "auth"
  <2> DEFINE u == client.cred[1]
             p == client.cred[2]
  <2>1. LoggingIn /\ took = 2 /\ Needs = 2 /\ authRequired
    BY <1>1, <1>2, <1>6, NeedsValue DEF Coupled, JInv, IInv, Heard
  <2>2. /\ u \in Seq(Byte) /\ Len(u) \in Byte /\ <<Len(u)>> \in Seq(Byte)
        /\ p \in Seq(Byte) /\ Len(p) \in Byte /\ <<Len(p)>> \in Seq(Byte)
        /\ <<1>> \in Seq(Byte) /\ Password \in Seq(Byte) /\ u \o Password \in Seq(Byte)
        /\ Username \in Seq(Byte)
    BY <1>1, <2>1, UsernameFacts DEF LoggingIn
  <2>3. pc # "header"
    <3> SUFFICES ASSUME pc = "header" PROVE FALSE
      OBVIOUS
    <3>1. Len(down) = 4
      BY <1>1, <2>1, OpeningFacts DEF Told
    <3> QED
      BY <1>1, <2>1, <3>1
  <2>4. pc \in AuthReads
    BY <1>3, <2>1, <2>3 DEF LoggingIn
  <2>5. Len(pipe) \in Nat /\ Len(pipe) >= Wanted(pc)
    <3> HIDE DEF u, p
    <3>1. ASSUME NEW a \in Seq(Byte), NEW b \in Seq(Byte), pipe = a \o b, Len(a) = Wanted(pc)
          PROVE  Len(pipe) \in Nat /\ Len(pipe) >= Wanted(pc)
      <4>1. Len(a \o b) = Len(a) + Len(b) /\ Len(a) \in Nat /\ Len(b) \in Nat
        BY Parted
      <4> QED
        BY <3>1, <4>1
    <3>2. CASE pc = "auth_ver"
      <4>1. pipe = <<1>> \o Username
        BY <2>1, <3>2 DEF LoggingIn
      <4>2. Len(<<1>>) = 1 /\ Wanted(pc) = 1
        BY <3>2 DEF Wanted
      <4> QED
        BY <2>2, <3>1, <4>1, <4>2
    <3>3. CASE pc = "ulen"
      <4>1. pipe = <<Len(u)>> \o (u \o Password)
        BY <2>1, <3>3 DEF LoggingIn, Username, u
      <4>2. Len(<<Len(u)>>) = 1 /\ Wanted(pc) = 1
        BY <3>3 DEF Wanted
      <4> QED
        BY <2>2, <3>1, <4>1, <4>2
    <3>4. CASE pc = "uname"
      <4>1. pipe = u \o Password /\ Len(u) = Wanted(pc)
        BY <2>1, <3>4 DEF LoggingIn, Wanted, u
      <4> QED
        BY <2>2, <3>1, <4>1
    <3>5. CASE pc = "plen"
      <4>1. pipe = <<Len(p)>> \o p
        BY <2>1, <3>5 DEF LoggingIn, Password, p
      <4>2. Len(<<Len(p)>>) = 1 /\ Wanted(pc) = 1
        BY <3>5 DEF Wanted
      <4> QED
        BY <2>2, <3>1, <4>1, <4>2
    <3>6. CASE pc = "passwd"
      <4>1. Len(pipe) = Wanted(pc) /\ Len(pipe) \in Byte
        BY <2>1, <2>2, <3>6 DEF LoggingIn, Wanted, p
      <4> QED
        BY <4>1 DEF Byte
    <3> QED
      BY <2>4, <3>2, <3>3, <3>4, <3>5, <3>6 DEF AuthReads
  <2> QED
    BY <1>4, <2>5
<1>7. CASE client.at = "reply"
  <2> DEFINE r == Announced \o Following
             n == <<Len(Announced)>>
             h == <<5, 1, 0, client.to.atyp>>
  <2>1. Requesting
    BY <1>2, <1>7 DEF Coupled
  <2>2. /\ Announced \in Seq(Byte) /\ Following \in Seq(Byte) /\ r \in Seq(Byte)
        /\ Site \in Seq(Byte) /\ h \in Seq(Byte) /\ Len(h) = 4 /\ n \in Seq(Byte)
        /\ client.to.atyp = 1 => Len(Announced) = 4
        /\ client.to.atyp = 4 => Len(Announced) = 16
        /\ Len(Following) \in Nat /\ Len(Following) >= 2
        /\ client.to.atyp \in {1, 3, 4}
    BY <1>1, <1>2, ClientTypes, DestinationFacts, SiteFacts
  <2>3. Len(n) = 1
    OBVIOUS
  <2> HIDE DEF n, h
  <2>4. ASSUME NEW a \in Seq(Byte), NEW b \in Seq(Byte), pipe = a \o b, Len(a) = Wanted(pc)
        PROVE  Len(pipe) \in Nat /\ Len(pipe) >= Wanted(pc)
    <3>1. Len(a \o b) = Len(a) + Len(b) /\ Len(a) \in Nat /\ Len(b) \in Nat
      BY Parted
    <3> QED
      BY <2>4, <3>1
  <2>5. pc \in {"header", "addr4", "addr6", "alen", "name", "port"}
    BY <1>3, <2>1 DEF Requesting
  <2>6. CASE pc = "header"
    <3>1. pipe = h \o Site /\ Wanted(pc) = 4
      BY <2>1, <2>6 DEF Requesting, Wanted, h
    <3> QED
      BY <1>4, <2>2, <2>4, <3>1, Zenon
  <2>7. CASE pc = "alen"
    <3>1. pc = AddressRead[client.to.atyp] /\ pipe = Site
      BY <2>1, <2>7 DEF Requesting
    <3>2. client.to.atyp = 3
      BY <2>2, <2>7, <3>1 DEF AddressRead
    <3>3. pipe = n \o r
      BY <3>1, <3>2 DEF Site, n
    <3>4. Wanted(pc) = 1
      BY <2>7 DEF Wanted
    <3> QED
      BY <1>4, <2>2, <2>3, <2>4, <3>3, <3>4
  <2>8. CASE pc \in {"addr4", "addr6"}
    <3>1. pc = AddressRead[client.to.atyp] /\ pipe = Site
      BY <2>1, <2>8 DEF Requesting
    <3>2. (client.to.atyp = 1 /\ pc = "addr4") \/ (client.to.atyp = 4 /\ pc = "addr6")
      BY <2>2, <2>8, <3>1 DEF AddressRead
    <3>3. pipe = r
      BY <3>1, <3>2 DEF Site
    <3>4. Wanted("addr4") = 4 /\ Wanted("addr6") = 16
      BY DEF Wanted
    <3>5. Len(Announced) = Wanted(pc)
      BY <2>2, <3>2, <3>4
    <3> QED
      BY <1>4, <2>2, <2>4, <3>3, <3>5
  <2>9. CASE pc = "name"
    <3>1. pipe = r /\ Len(Announced) = Wanted(pc)
      BY <2>1, <2>9 DEF Requesting, Wanted
    <3> QED
      BY <1>4, <2>2, <2>4, <3>1
  <2>10. CASE pc = "port"
    <3>1. pipe = Following /\ Wanted(pc) = 2
      BY <2>1, <2>10 DEF Requesting, Wanted
    <3> QED
      BY <1>4, <2>2, <3>1
  <2> QED
    BY <2>5, <2>6, <2>7, <2>8, <2>9, <2>10
<1>8. CASE client.at = "bind"
  BY <1>2, <1>3, <1>8 DEF Coupled
<1> QED
  BY <1>1, <1>5, <1>6, <1>7, <1>8 DEF Waits

\* The two handshakes never wait for each other (socks5_proxy.rs:49-146, handshake.rs:29-210).
THEOREM NeverBothAlwaysWait == LSafeSpec => []NeverBothWait
PROOF
<1>1. JInv => NeverBothWait
  BY NeverBoth
<1> QED
  BY <1>1, JInvHolds, PTL
=============================================================================
