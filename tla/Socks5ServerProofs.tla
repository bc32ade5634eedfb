------------------------- MODULE Socks5ServerProofs -------------------------
(***************************************************************************)
(* What every step of a session preserves: the types, the shape of what    *)
(* has been read, and the shape of what has been written.                  *)
(***************************************************************************)
EXTENDS Socks5Server, SequenceTheorems, TLAPS

-----------------------------------------------------------------------------
(* Types                                                                   *)

\* A state with a length byte in `len` asks for a natural number of bytes.
LEMMA WantedType ==
    ASSUME TypeOK, NEW p \in Reads
    PROVE  Wanted(p) \in Nat
PROOF
<1>1. len \in Nat
  BY DEF TypeOK, Byte
<1>2. CASE p \in {"auth_ver", "ulen", "plen", "alen"}
  BY <1>2 DEF Wanted
<1>3. CASE p \in {"greeting", "port"}
  BY <1>3 DEF Wanted
<1>4. CASE p \in {"header", "addr4", "addr6"}
  BY <1>4 DEF Wanted
<1>5. CASE p \in {"methods", "uname", "passwd", "name"}
  BY <1>1, <1>5 DEF Wanted
<1> QED
  BY <1>2, <1>3, <1>4, <1>5 DEF Reads

\* read_exact: the bytes at the head of the pipe, as many as wanted, move to what is consumed.
LEMMA ReadFacts ==
    ASSUME TypeOK, NEW p \in Reads, Read(p)
    PROVE  /\ pc = p
           /\ Field \in Seq(Byte)
           /\ Len(Field) = Wanted(p)
           /\ pipe' \in Seq(Byte)
           /\ arrived' \in 0 .. Len(pipe')
           /\ consumed' = consumed \o Field
           /\ consumed' \in Seq(Byte)
           /\ gone' \in BOOLEAN
PROOF
<1>1. pc = p /\ Wanted(p) \in Nat /\ ~(arrived < Wanted(p))
  BY WantedType DEF Read, Blocked
<1>2. pipe \in Seq(Byte) /\ Len(pipe) \in Nat /\ arrived \in 0 .. Len(pipe)
      /\ \A i \in 1 .. Len(pipe) : pipe[i] \in Byte
  BY LenProperties, ElementOfSeq DEF TypeOK
<1>3. Wanted(p) <= Len(pipe)
  BY <1>1, <1>2
<1> DEFINE w == Wanted(p)
<1>4. \A i \in 1 .. w : pipe[i] \in Byte
  BY <1>1, <1>2, <1>3
<1>5. \A i \in w + 1 .. Len(pipe) : pipe[i] \in Byte
  BY <1>1, <1>2, <1>3
<1>6. w \in Nat
  BY <1>1
<1> HIDE DEF w
<1>7. SubSeq(pipe, 1, w) \in Seq(Byte) /\ Len(SubSeq(pipe, 1, w)) = w
  BY <1>4, <1>6, SubSeqProperties
<1>8. SubSeq(pipe, w + 1, Len(pipe)) \in Seq(Byte)
      /\ Len(SubSeq(pipe, w + 1, Len(pipe))) = Len(pipe) - w
  <2>1. /\ SubSeq(pipe, w + 1, Len(pipe)) \in Seq(Byte)
        /\ Len(SubSeq(pipe, w + 1, Len(pipe)))
              = IF w + 1 <= Len(pipe) THEN Len(pipe) - (w + 1) + 1 ELSE 0
    BY <1>2, <1>5, <1>6, SubSeqProperties
  <2>2. w <= Len(pipe)
    BY <1>3 DEF w
  <2> QED
    BY <2>1, <2>2, <1>2, <1>6
<1>9. /\ pipe' = SubSeq(pipe, w + 1, Len(pipe)) /\ arrived' = arrived - w
      /\ Field = SubSeq(pipe, 1, w) /\ consumed' = consumed \o Field /\ gone' = gone
  BY <1>1 DEF Read, Field, w
<1>10. arrived - w \in 0 .. Len(pipe) - w
  BY <1>1, <1>2, <1>6 DEF w
<1>11. consumed \in Seq(Byte) /\ gone \in BOOLEAN
  BY DEF TypeOK
<1>12. consumed \o Field \in Seq(Byte)
  BY <1>7, <1>9, <1>11, ConcatProperties
<1>13. arrived' \in 0 .. Len(pipe')
  BY <1>8, <1>9, <1>10
<1>14. Len(Field) = Wanted(p)
  BY <1>7, <1>9 DEF w
<1> QED
  BY <1>1, <1>7, <1>8, <1>9, <1>11, <1>12, <1>13, <1>14

Request == [cmd : Byte, atyp : Byte, addr : Seq(Byte), port : Seq(Byte)]

\* What the three assignments to the request leave in it.
LEMMA HeaderUpdate ==
    ASSUME NEW r \in Request, NEW a \in Byte, NEW b \in Byte
    PROVE  [r EXCEPT !.cmd = a, !.atyp = b] \in Request
BY DEF Request

LEMMA AddressUpdate ==
    ASSUME NEW r \in Request, NEW s \in Seq(Byte)
    PROVE  /\ [r EXCEPT !.addr = s] \in Request
           /\ [r EXCEPT !.addr = s].addr = s
           /\ [r EXCEPT !.addr = s].cmd = r.cmd
           /\ [r EXCEPT !.addr = s].atyp = r.atyp
BY DEF Request

LEMMA PortUpdate ==
    ASSUME NEW r \in Request, NEW s \in Seq(Byte)
    PROVE  /\ [r EXCEPT !.port = s] \in Request
           /\ [r EXCEPT !.port = s].port = s
           /\ [r EXCEPT !.port = s].addr = r.addr
           /\ [r EXCEPT !.port = s].cmd = r.cmd
           /\ [r EXCEPT !.port = s].atyp = r.atyp
BY DEF Request

\* The messages of the session are byte strings.
LEMMA MessageTypes ==
    /\ \A a, b \in Byte : <<a, b>> \in Seq(Byte)
    /\ \A rep \in Byte : Reply(rep) \in Seq(Byte)
PROOF
<1>1. \A a, b \in Byte : <<a, b>> \in Seq(Byte)
  OBVIOUS
<1>2. ASSUME NEW rep \in Byte PROVE Reply(rep) \in Seq(Byte)
  <2>1. 0 \in Byte /\ 1 \in Byte /\ 5 \in Byte
    BY DEF Byte
  <2> QED
    BY <2>1 DEF Reply
<1> QED
  BY <1>1, <1>2

LEMMA WritesType ==
    ASSUME TypeOK, NEW b \in Seq(Byte), Writes(b)
    PROVE  down' \in Seq(Byte)
BY ConcatProperties DEF TypeOK, Writes

\* What a step of the session on the client's bytes leaves of the types.
PipeTypes == /\ pipe \in Seq(Byte) /\ consumed \in Seq(Byte)
             /\ arrived \in 0 .. Len(pipe)
             /\ gone \in BOOLEAN

\* The types of what the session makes of them.
OtherTypes == /\ pc \in Phases
              /\ down \in Seq(Byte)
              /\ verified \in BOOLEAN
              /\ len \in Byte
              /\ user \in Seq(Byte)
              /\ req \in Request
              /\ target \in {"none", "dialing", "open", "refused"}

LEMMA TypeParts == TypeOK <=> authRequired \in BOOLEAN /\ PipeTypes /\ OtherTypes
BY DEF TypeOK, PipeTypes, OtherTypes, Request

LEMMA PipeSteps == ASSUME TypeOK, Session PROVE PipeTypes'
PROOF
<1>1. CASE \E p \in Reads : Read(p)
  <2>1. PICK p \in Reads : Read(p)
    BY <1>1
  <2> QED
    BY <2>1, ReadFacts DEF PipeTypes
<1>2. CASE UNCHANGED <<pipe, arrived, gone, consumed>>
  BY <1>2 DEF TypeOK, PipeTypes
<1>3. \/ \E p \in Reads : Read(p)
      \/ UNCHANGED <<pipe, arrived, gone, consumed>>
  BY DEF Session, ReadGreeting, ReadMethods, ReadAuthVersion, ReadLength, ReadUsername,
         ReadPassword, ReadHeader, ReadAddress, ReadPort, Command, Dialled, ReadTimeout,
         PeerGone, Reads
<1> QED
  BY <1>1, <1>2, <1>3

LEMMA SelectedType ==
    ASSUME NEW methods PROVE Selected(methods) \in {0, 2, 255}
BY DEF Selected

\* A byte of a field.
LEMMA FieldByte ==
    ASSUME TypeOK, NEW p \in Reads, Read(p), NEW i \in Nat \ {0}, i <= Wanted(p)
    PROVE  Field[i] \in Byte
PROOF
<1>1. Field \in Seq(Byte) /\ Len(Field) = Wanted(p) /\ Wanted(p) \in Nat
  BY ReadFacts, WantedType
<1>2. i \in 1 .. Len(Field)
  BY <1>1
<1> QED
  BY <1>1, <1>2, ElementOfSeq

LEMMA OtherSteps == ASSUME TypeOK, Session PROVE OtherTypes'
PROOF
<1> USE DEF OtherTypes
<1>t. OtherTypes
  BY TypeParts
<1>p. Reads \subseteq Phases /\ {"command", "dial", "udp", "relay", "done"} \subseteq Phases
  BY DEF Phases
<1>b. 0 \in Byte /\ 1 \in Byte /\ 2 \in Byte /\ 5 \in Byte /\ 7 \in Byte /\ 255 \in Byte
  BY DEF Byte
<1>1. CASE ReadGreeting
  <2>1. "greeting" \in Reads /\ "methods" \in Reads /\ Wanted("greeting") = 2
    BY DEF Reads, Wanted
  <2>2. Field[2] \in Byte
    BY <1>1, <2>1, FieldByte DEF ReadGreeting
  <2> QED
    BY <1>1, <1>t, <1>p, <2>1, <2>2 DEF ReadGreeting, Goto, Ends
<1>2. CASE ReadMethods
  <2>1. {"auth_ver", "header"} \subseteq Reads
    BY DEF Reads
  <2>2. Selected(Field) \in {0, 2, 255}
    BY SelectedType
  <2>3. down' \in Seq(Byte)
    <3>1. <<5, Selected(Field)>> \in Seq(Byte) /\ Writes(<<5, Selected(Field)>>)
      BY <1>2, <1>b, <2>2, MessageTypes DEF ReadMethods
    <3> QED
      BY <3>1, WritesType
  <2>4. pc' \in {"auth_ver", "header", "done"}
    BY <1>2, <2>2 DEF ReadMethods, Goto, Ends
  <2> QED
    BY <1>2, <1>t, <1>p, <2>1, <2>3, <2>4 DEF ReadMethods
<1>3. CASE ReadAuthVersion
  <2>1. "ulen" \in Reads
    BY DEF Reads
  <2> QED
    BY <1>3, <1>t, <1>p, <2>1 DEF ReadAuthVersion, Goto, Ends
<1>4. CASE ReadLength
  <2>1. /\ {"ulen", "plen", "alen", "uname", "passwd", "name"} \subseteq Reads
        /\ Wanted("ulen") = 1 /\ Wanted("plen") = 1 /\ Wanted("alen") = 1
    BY DEF Reads, Wanted
  <2>2. Field[1] \in Byte
    BY <1>4, <2>1, FieldByte DEF ReadLength
  <2> QED
    BY <1>4, <1>t, <1>p, <2>1, <2>2 DEF ReadLength, Goto
<1>5. CASE ReadUsername
  <2>1. {"uname", "plen"} \subseteq Reads
    BY DEF Reads
  <2>2. Field \in Seq(Byte)
    BY <1>5, <2>1, ReadFacts DEF ReadUsername
  <2> QED
    BY <1>5, <1>t, <1>p, <2>1, <2>2 DEF ReadUsername, Goto
<1>6. CASE ReadPassword
  <2>1. "header" \in Reads
    BY DEF Reads
  <2>2. CASE Text(user) /\ Text(Field)
    <3>1. PICK ok \in BOOLEAN : AnswerAuth(ok) /\ verified' = ok
      <4>0. verified' = (<<user, Field>> \in Users)
        BY <1>6, <2>2 DEF ReadPassword
      <4>1. AnswerAuth(verified')
        BY <1>6, <2>2 DEF ReadPassword
      <4>2. CASE <<user, Field>> \in Users
        BY <4>0, <4>1, <4>2, Zenon DEF AnswerAuth
      <4>3. CASE <<user, Field>> \notin Users
        <5>1. verified' = FALSE
          <6>1. (<<user, Field>> \in Users) = FALSE
            BY <4>3, SMT
          <6> QED
            BY <4>0, <6>1, Zenon
        <5>2. AnswerAuth(FALSE)
          BY <4>1, <5>1 DEF AnswerAuth
        <5> QED
          BY <5>1, <5>2
      <4> QED
        BY <4>2, <4>3
    <3>2. down' \in Seq(Byte)
      BY <3>1, <1>b, MessageTypes, WritesType DEF AnswerAuth
    <3> QED
      BY <1>6, <1>t, <1>p, <2>1, <3>1, <3>2 DEF ReadPassword, AnswerAuth, Goto, Ends
  <2>3. CASE ~(Text(user) /\ Text(Field))
    BY <1>6, <1>t, <1>p, <2>3 DEF ReadPassword, Ends, Goto
  <2> QED
    BY <2>2, <2>3
<1>7. CASE ReadHeader
  <2>1. /\ "header" \in Reads /\ Wanted("header") = 4
        /\ {"addr4", "addr6", "alen"} \subseteq Reads
    BY DEF Reads, Wanted
  <2>2. Field[2] \in Byte /\ Field[4] \in Byte
    BY <1>7, <2>1, FieldByte DEF ReadHeader
  <2>3. req' \in Request
    BY <1>7, <1>t, <2>2, HeaderUpdate DEF ReadHeader
  <2>4. pc' \in {"addr4", "addr6", "alen", "done"}
    BY <1>7 DEF ReadHeader, AddressRead, Goto, Ends
  <2> QED
    BY <1>7, <1>t, <1>p, <2>1, <2>3, <2>4 DEF ReadHeader
<1>8. CASE ReadAddress
  <2>1. {"addr4", "addr6", "name", "port"} \subseteq Reads
    BY DEF Reads
  <2>2. Field \in Seq(Byte)
    BY <1>8, <2>1, ReadFacts DEF ReadAddress
  <2>3. req' \in Request
    BY <1>8, <1>t, <2>2, AddressUpdate DEF ReadAddress
  <2> QED
    BY <1>8, <1>t, <1>p, <2>1, <2>3 DEF ReadAddress, Goto
<1>9. CASE ReadPort
  <2>1. "port" \in Reads
    BY DEF Reads
  <2>2. Field \in Seq(Byte)
    BY <1>9, <2>1, ReadFacts DEF ReadPort
  <2>3. req' \in Request
    BY <1>9, <1>t, <2>2, PortUpdate DEF ReadPort
  <2> QED
    BY <1>9, <1>t, <1>p, <2>3 DEF ReadPort, Goto, Ends
<1>10. CASE Command
  <2>1. down' \in Seq(Byte)
    BY <1>10, <1>t, <1>b, MessageTypes, WritesType DEF Command
  <2> QED
    BY <1>10, <1>t, <1>p, <2>1 DEF Command, Goto, Ends
<1>11. CASE Dialled
  <2>1. CASE \E ok \in BOOLEAN : AnswerConnect(ok)
    <3>1. PICK ok \in BOOLEAN : AnswerConnect(ok)
      BY <2>1
    <3>2. down' \in Seq(Byte)
      BY <3>1, <1>b, MessageTypes, WritesType DEF AnswerConnect
    <3> QED
      BY <1>11, <1>t, <1>p, <3>1, <3>2 DEF Dialled, AnswerConnect, Goto, Ends
  <2>2. CASE Ends /\ UNCHANGED <<target, down>>
    BY <1>11, <1>t, <1>p, <2>2 DEF Dialled, Goto, Ends
  <2> QED
    BY <1>11, <2>1, <2>2 DEF Dialled
<1>12. CASE ReadTimeout \/ PeerGone
  BY <1>12, <1>t, <1>p DEF ReadTimeout, PeerGone, Goto, Ends
<1> QED
  BY <1>1, <1>2, <1>3, <1>4, <1>5, <1>6, <1>7, <1>8, <1>9, <1>10, <1>11, <1>12 DEF Session

\* A step of the session, whatever the client has sent.
LEMMA SessionTypes == ASSUME TypeOK, Session PROVE TypeOK'
PROOF
<1>1. authRequired' \in BOOLEAN
  BY DEF Session, TypeOK
<1>2. PipeTypes' /\ OtherTypes'
  BY PipeSteps, OtherSteps
<1> QED
  BY <1>1, <1>2 DEF TypeOK, PipeTypes, OtherTypes, Request

-----------------------------------------------------------------------------
(* What has been read                                                      *)

\* A method selection; one with a user name; and what lets a client in.
Hello(m)     == <<5, Len(m)>> \o m
Hellos       == {Hello(m) : m \in Short}
Named(h, u)  == ((h \o <<1>>) \o <<Len(u)>>) \o u
Logged(h, x) == (Named(h, x[1]) \o <<Len(x[2])>>) \o x[2]
Entrances    == IF authRequired THEN {Logged(h, x) : h \in Hellos, x \in Users \cap (Short \X Short)}
                                ELSE Hellos

\* After an entrance e: the header of request r, its address, its port.
Asked(e, v, r) == e \o <<5, r.cmd, v, r.atyp>>
Sized(e, v, r) == IF r.atyp = 3 THEN Asked(e, v, r) \o <<Len(r.addr)>> ELSE Asked(e, v, r)
Sited(e, v, r) == Sized(e, v, r) \o r.addr

GoodSize(r) == /\ r.atyp \in {1, 3, 4} /\ r.cmd \in Commands
               /\ r.addr \in Short
               /\ r.atyp = 1 => Len(r.addr) = 4
               /\ r.atyp = 4 => Len(r.addr) = 16

AuthReads == {"auth_ver", "ulen", "uname", "plen", "passwd"}

\* What is consumed is a prefix of one session, up to the read the session is at.
LoginFramed ==
    /\ pc = "greeting" => consumed = <<>>
    /\ pc = "methods"  => consumed = <<5, len>>
    /\ pc \in AuthReads => authRequired
    /\ pc = "auth_ver" => consumed \in Hellos
    /\ pc = "ulen"     => \E h \in Hellos : consumed = h \o <<1>>
    /\ pc = "uname"    => \E h \in Hellos : consumed = (h \o <<1>>) \o <<len>>
    /\ pc \in {"plen", "passwd"} => user \in Short
    /\ pc = "plen"     => \E h \in Hellos : consumed = Named(h, user)
    /\ pc = "passwd"   => \E h \in Hellos : consumed = Named(h, user) \o <<len>>

AskingFramed ==
    /\ pc = "header"   => consumed \in Entrances
    /\ pc \in {"addr4", "addr6", "alen", "name"} => req.cmd \in Commands
    /\ pc = "addr4"    => req.atyp = 1
    /\ pc = "addr6"    => req.atyp = 4
    /\ pc \in {"alen", "name"} => req.atyp = 3
    /\ pc \in {"addr4", "addr6", "alen"} =>
          \E e \in Entrances, v \in Byte : consumed = Asked(e, v, req)
    /\ pc = "name" => \E e \in Entrances, v \in Byte : consumed = Asked(e, v, req) \o <<len>>

ActingFramed ==
    /\ pc = "port" => /\ GoodSize(req)
                      /\ \E e \in Entrances, v \in Byte : consumed = Sited(e, v, req)
    /\ pc \in Reads \union {"command"} => target = "none"
    /\ Acted => /\ GoodSize(req) /\ req.port \in Seq(Byte) /\ Len(req.port) = 2
                /\ \E e \in Entrances, v \in Byte : consumed = Sited(e, v, req) \o req.port

Framing == LoginFramed /\ AskingFramed /\ ActingFramed

\* Short strings spelt out.
LEMMA Spelling ==
    ASSUME NEW s \in Seq(Byte)
    PROVE  /\ Len(s) = 1 => s = <<s[1]>>
           /\ Len(s) = 2 => s = <<s[1], s[2]>>
           /\ Len(s) = 4 => s = <<s[1], s[2], s[3], s[4]>>
PROOF
<1>1. ASSUME Len(s) = 1 PROVE s = <<s[1]>>
  BY <1>1
<1>2. ASSUME Len(s) = 2 PROVE s = <<s[1], s[2]>>
  BY <1>2
<1>3. ASSUME Len(s) = 4 PROVE s = <<s[1], s[2], s[3], s[4]>>
  BY <1>3
<1> QED
  BY <1>1, <1>2, <1>3

\* A field as long as the length byte before it is a short string.
LEMMA ShortField ==
    ASSUME TypeOK, NEW p \in {"methods", "uname", "passwd", "name"}, Read(p)
    PROVE  Field \in Short /\ Len(Field) = len
PROOF
<1>1. p \in Reads
  BY DEF Reads
<1>2. Wanted(p) = len
  BY DEF Wanted
<1>3. Field \in Seq(Byte) /\ Len(Field) = len /\ len \in Byte
  BY <1>1, <1>2, ReadFacts DEF TypeOK
<1> QED
  BY <1>3 DEF Short, Byte

\* A step that reads nothing and decides nothing.
LEMMA FramingStays ==
    ASSUME Framing,
           UNCHANGED <<authRequired, pc, len, user, req, target, consumed>>
    PROVE  Framing'
PROOF
<1>1. Entrances' = Entrances
  BY DEF Entrances
<1>2. LoginFramed'
  BY DEF Framing, LoginFramed
<1>3. AskingFramed'
  BY <1>1 DEF Framing, AskingFramed
<1>4. ActingFramed'
  BY <1>1 DEF Framing, ActingFramed, Acted
<1> QED
  BY <1>2, <1>3, <1>4 DEF Framing

\* The end of the session, from wherever it was.
LEMMA FramingEnds ==
    ASSUME Framing, Ends, UNCHANGED <<authRequired, req, target, consumed>>
    PROVE  Framing'
PROOF
<1>1. Entrances' = Entrances
  BY DEF Entrances
<1>2. pc' = "done"
  BY DEF Ends, Goto
<1>3. Acted' => Acted
  BY <1>2 DEF Acted
<1> QED
  BY <1>1, <1>2, <1>3 DEF Framing, LoginFramed, AskingFramed, ActingFramed, Reads, AuthReads

\* The reads of the method selection.
LEMMA GreetingFrames == ASSUME TypeOK, Framing, Session, ReadGreeting PROVE Framing'
PROOF
<1> USE DEF ReadGreeting
<1>1. /\ "greeting" \in Reads /\ Wanted("greeting") = 2
      /\ "greeting" \notin {"relay", "udp", "dial", "command"}
  BY DEF Reads, Wanted
<1>2. /\ consumed' = consumed \o Field /\ Field \in Seq(Byte) /\ Len(Field) = 2
      /\ pc = "greeting"
  BY <1>1, ReadFacts
<1>3. authRequired' = authRequired
  BY DEF Session
<1>4. CASE Field[1] = 5
  <2>1. Field = <<5, Field[2]>>
    BY <1>2, <1>4, Spelling
  <2>2. consumed = <<>>
    BY <1>2 DEF Framing, LoginFramed
  <2>3. consumed' = Field
    BY <1>2, <2>2, ConcatEmptySeq
  <2>4. consumed' = <<5, len'>>
    BY <2>1, <2>3
  <2>5. pc' = "methods" /\ target' = "none"
    BY <1>1, <1>2, <1>4 DEF Goto, Framing, AskingFramed, ActingFramed
  <2> QED
    BY <2>4, <2>5 DEF Framing, LoginFramed, AskingFramed, ActingFramed, Acted, AuthReads
<1>5. CASE Field[1] # 5
  <2>1. pc' = "done" /\ target' = "none"
    BY <1>1, <1>2, <1>5 DEF Ends, Goto, Framing, AskingFramed, ActingFramed
  <2> QED
    BY <2>1 DEF Framing, LoginFramed, AskingFramed, ActingFramed, Acted, AuthReads, Reads
<1> QED
  BY <1>4, <1>5

LEMMA MethodsFrames == ASSUME TypeOK, Framing, Session, ReadMethods PROVE Framing'
PROOF
<1> USE DEF ReadMethods
<1>1. "methods" \in Reads
  BY DEF Reads
<1>2. consumed' = consumed \o Field /\ pc = "methods"
  BY <1>1, ReadFacts
<1>3. Field \in Short /\ Len(Field) = len
  BY ShortField
<1>4. consumed' = Hello(Field)
  BY <1>2, <1>3 DEF Framing, LoginFramed, Hello
<1>5. consumed' \in Hellos
  BY <1>3, <1>4 DEF Hellos
<1>6. authRequired' = authRequired
  BY DEF Session
<1>7. target' = "none"
  BY <1>1, <1>2 DEF Framing, ActingFramed
<1>8. \/ pc' = "done"
      \/ pc' = "auth_ver" /\ authRequired
      \/ pc' = "header" /\ ~authRequired
  <2>1. Selected(Field) \in {0, 2, 255}
    BY SelectedType
  <2>2. Selected(Field) = 2 => authRequired
    BY DEF Selected
  <2>3. Selected(Field) = 0 => ~authRequired
    BY DEF Selected
  <2> QED
    BY <2>1, <2>2, <2>3 DEF Goto, Ends
<1>9. pc' = "header" => consumed' \in Entrances'
  BY <1>5, <1>6, <1>8 DEF Entrances, Hellos
<1> QED
  BY <1>5, <1>6, <1>7, <1>8, <1>9
  DEF Framing, LoginFramed, AskingFramed, ActingFramed, Acted, AuthReads, Reads

\* The reads of the authentication.
LEMMA AuthVersionFrames == ASSUME TypeOK, Framing, Session, ReadAuthVersion PROVE Framing'
PROOF
<1> USE DEF ReadAuthVersion
<1>1. "auth_ver" \in Reads /\ Wanted("auth_ver") = 1 /\ "auth_ver" \in AuthReads
  BY DEF Reads, AuthReads, Wanted
<1>2. /\ consumed' = consumed \o Field /\ Field \in Seq(Byte) /\ Len(Field) = 1
      /\ pc = "auth_ver"
  BY <1>1, ReadFacts
<1>3. Field = <<Field[1]>>
  BY <1>2, Spelling
<1>4. consumed \in Hellos /\ authRequired /\ target = "none"
  BY <1>1, <1>2 DEF Framing, LoginFramed, ActingFramed
<1>5. authRequired'
  BY <1>4 DEF Session
<1>6. \/ pc' = "done"
      \/ pc' = "ulen" /\ consumed' = consumed \o <<1>>
  BY <1>2, <1>3 DEF Goto, Ends
<1> QED
  BY <1>4, <1>5, <1>6
  DEF Framing, LoginFramed, AskingFramed, ActingFramed, Acted, AuthReads, Reads

LEMMA UsernameFrames == ASSUME TypeOK, Framing, Session, ReadUsername PROVE Framing'
PROOF
<1> USE DEF ReadUsername
<1>1. "uname" \in Reads /\ "uname" \in AuthReads
  BY DEF Reads, AuthReads
<1>2. /\ consumed' = consumed \o Field /\ pc = "uname" /\ Field \in Short /\ Len(Field) = len
  BY <1>1, ReadFacts, ShortField
<1>3. PICK h \in Hellos : consumed = (h \o <<1>>) \o <<len>>
  BY <1>2 DEF Framing, LoginFramed
<1>4. consumed' = Named(h, Field)
  BY <1>2, <1>3 DEF Named
<1>5. pc' = "plen" /\ user' = Field /\ user' \in Short /\ target' = "none" /\ authRequired'
  BY <1>1, <1>2 DEF Goto, Session, Framing, LoginFramed, ActingFramed
<1>6. consumed' = Named(h, user')
  BY <1>4, <1>5
<1>7. LoginFramed'
  BY <1>5, <1>6 DEF LoginFramed, AuthReads
<1> QED
  BY <1>5, <1>7 DEF Framing, AskingFramed, ActingFramed, Acted, Reads

\* A length byte, in front of a user name, a password or a host name.
LEMMA LengthFrames == ASSUME TypeOK, Framing, Session, ReadLength PROVE Framing'
PROOF
<1> USE DEF ReadLength
<1>1. /\ {"ulen", "plen", "alen"} \subseteq Reads
      /\ Wanted("ulen") = 1 /\ Wanted("plen") = 1 /\ Wanted("alen") = 1
  BY DEF Reads, Wanted
<1>2. /\ consumed' = consumed \o Field /\ Field \in Seq(Byte) /\ Len(Field) = 1
      /\ pc \in {"ulen", "plen", "alen"}
  BY <1>1, ReadFacts
<1>3. Field = <<len'>>
  BY <1>2, Spelling
<1>4. consumed' = consumed \o <<len'>>
  BY <1>2, <1>3
<1>5. /\ target = "none" /\ target' = "none"
      /\ authRequired' = authRequired
      /\ user' = user /\ req' = req
  BY <1>1, <1>2 DEF Framing, ActingFramed, Session
<1>6. Entrances' = Entrances
  BY <1>5 DEF Entrances
<1>7. CASE Read("ulen") /\ Goto("uname")
  <2>1. pc = "ulen" /\ pc' = "uname"
    BY <1>7 DEF Read, Goto
  <2>2. authRequired' /\ \E h \in Hellos : consumed = h \o <<1>>
    BY <2>1, <1>5 DEF Framing, LoginFramed, AuthReads
  <2>3. LoginFramed'
    BY <1>4, <2>1, <2>2 DEF LoginFramed
  <2> QED
    BY <1>5, <2>1, <2>3 DEF Framing, AskingFramed, ActingFramed, Acted
<1>8. CASE Read("plen") /\ Goto("passwd")
  <2>1. pc = "plen" /\ pc' = "passwd"
    BY <1>8 DEF Read, Goto
  <2>2. authRequired' /\ user' \in Short /\ \E h \in Hellos : consumed = Named(h, user')
    BY <2>1, <1>5 DEF Framing, LoginFramed, AuthReads
  <2>3. LoginFramed'
    BY <1>4, <2>1, <2>2 DEF LoginFramed
  <2> QED
    BY <1>5, <2>1, <2>3 DEF Framing, AskingFramed, ActingFramed, Acted
<1>9. CASE Read("alen") /\ Goto("name")
  <2>1. pc = "alen" /\ pc' = "name"
    BY <1>9 DEF Read, Goto
  <2>2. /\ req'.cmd \in Commands /\ req'.atyp = 3
        /\ \E e \in Entrances, v \in Byte : consumed = Asked(e, v, req)
    BY <2>1, <1>5 DEF Framing, AskingFramed
  <2>3. AskingFramed'
    BY <1>4, <1>5, <1>6, <2>1, <2>2 DEF AskingFramed
  <2> QED
    BY <1>5, <2>1, <2>3 DEF Framing, LoginFramed, ActingFramed, Acted, AuthReads
<1> QED
  BY <1>7, <1>8, <1>9

LEMMA PasswordFrames == ASSUME TypeOK, Framing, Session, ReadPassword PROVE Framing'
PROOF
<1> USE DEF ReadPassword
<1>1. "passwd" \in Reads /\ "passwd" \in AuthReads
  BY DEF Reads, AuthReads
<1>2. /\ consumed' = consumed \o Field /\ pc = "passwd" /\ Field \in Short /\ Len(Field) = len
  BY <1>1, ReadFacts, ShortField
<1>3. PICK h \in Hellos : consumed = Named(h, user) \o <<len>>
  BY <1>2 DEF Framing, LoginFramed
<1>4. user \in Short /\ authRequired /\ target' = "none" /\ authRequired'
  BY <1>1, <1>2 DEF Session, Framing, LoginFramed, ActingFramed
<1>5. \/ pc' = "done"
      \/ pc' = "header" /\ <<user, Field>> \in Users
  BY DEF AnswerAuth, Goto, Ends
<1>6. CASE <<user, Field>> \in Users
  <2> DEFINE x == <<user, Field>>
  <2>1. x \in Users \cap (Short \X Short) /\ x[1] = user /\ x[2] = Field
    BY <1>2, <1>4, <1>6
  <2>2. consumed' = Logged(h, x)
    BY <1>2, <1>3, <2>1 DEF Logged
  <2> HIDE DEF x
  <2>3. consumed' \in Entrances'
    BY <1>4, <2>1, <2>2 DEF Entrances, Hellos
  <2> QED
    BY <1>4, <1>5, <2>3
    DEF Framing, LoginFramed, AskingFramed, ActingFramed, Acted, AuthReads, Reads
<1>7. CASE <<user, Field>> \notin Users
  <2>1. pc' = "done"
    BY <1>5, <1>7
  <2> QED
    BY <1>4, <2>1 DEF Framing, LoginFramed, AskingFramed, ActingFramed, Acted, AuthReads, Reads
<1> QED
  BY <1>6, <1>7

\* The reads of the request.
LEMMA HeaderFrames == ASSUME TypeOK, Framing, Session, ReadHeader PROVE Framing'
PROOF
<1> USE DEF ReadHeader
<1>1. "header" \in Reads /\ Wanted("header") = 4
  BY DEF Reads, Wanted
<1>2. /\ consumed' = consumed \o Field /\ Field \in Seq(Byte) /\ Len(Field) = 4
      /\ pc = "header"
  BY <1>1, ReadFacts
<1>3. Field[2] \in Byte /\ Field[3] \in Byte /\ Field[4] \in Byte
  BY <1>1, FieldByte
<1>4. req'.cmd = Field[2] /\ req'.atyp = Field[4]
  <2>1. req \in Request
    BY TypeParts DEF OtherTypes
  <2>2. PICK a \in Byte, b \in Byte : a = Field[2] /\ b = Field[4]
    BY <1>3
  <2>3. req' = [req EXCEPT !.cmd = a, !.atyp = b]
    BY <2>2
  <2>4. req'.cmd = a /\ req'.atyp = b
    BY <2>1, <2>2, <2>3 DEF Request
  <2> QED
    BY <2>2, <2>4
<1>5. target' = "none" /\ authRequired' = authRequired /\ consumed \in Entrances
  BY <1>1, <1>2 DEF Session, Framing, AskingFramed, ActingFramed
<1>6. Entrances' = Entrances
  BY <1>5 DEF Entrances
<1>7. CASE Field[1] = 5 /\ Field[2] \in Commands /\ Field[4] \in DOMAIN AddressRead
  <2>1. Field = <<5, req'.cmd, Field[3], req'.atyp>>
    BY <1>2, <1>4, <1>7, Spelling
  <2>2. consumed' = Asked(consumed, Field[3], req')
    BY <1>2, <2>1 DEF Asked
  <2>3. \E e \in Entrances', v \in Byte : consumed' = Asked(e, v, req')
    BY <1>3, <1>5, <1>6, <2>2
  <2>4. /\ pc' = AddressRead[Field[4]] /\ req'.cmd \in Commands
        /\ \/ req'.atyp = 1 /\ pc' = "addr4"
           \/ req'.atyp = 3 /\ pc' = "alen"
           \/ req'.atyp = 4 /\ pc' = "addr6"
    BY <1>4, <1>7 DEF Goto, AddressRead
  <2>5. AskingFramed'
    BY <2>3, <2>4 DEF AskingFramed
  <2> QED
    BY <1>5, <2>4, <2>5 DEF Framing, LoginFramed, ActingFramed, Acted, AuthReads
<1>8. CASE ~(Field[1] = 5 /\ Field[2] \in Commands /\ Field[4] \in DOMAIN AddressRead)
  <2>1. pc' = "done"
    BY <1>8 DEF Ends, Goto
  <2> QED
    BY <1>5, <2>1 DEF Framing, LoginFramed, AskingFramed, ActingFramed, Acted, AuthReads, Reads
<1> QED
  BY <1>7, <1>8

LEMMA AddressFrames == ASSUME TypeOK, Framing, Session, ReadAddress PROVE Framing'
PROOF
<1> USE DEF ReadAddress
<1>1. /\ {"addr4", "addr6", "name"} \subseteq Reads
      /\ Wanted("addr4") = 4 /\ Wanted("addr6") = 16 /\ Wanted("name") = len
  BY DEF Reads, Wanted
<1>2. /\ consumed' = consumed \o Field /\ Field \in Seq(Byte)
      /\ \/ pc = "addr4" /\ Len(Field) = 4
         \/ pc = "addr6" /\ Len(Field) = 16
         \/ pc = "name" /\ Len(Field) = len
      /\ Len(Field) < 256
  <2>1. len < 256
    <3>1. len \in Byte
      BY DEF TypeOK
    <3> QED
      BY <3>1 DEF Byte
  <2>2. CASE Read("addr4")
    <3>1. /\ consumed' = consumed \o Field /\ Field \in Seq(Byte)
          /\ pc = "addr4" /\ Len(Field) = 4
      BY <1>1, <2>2, ReadFacts
    <3> QED
      BY <3>1
  <2>3. CASE Read("addr6")
    <3>1. /\ consumed' = consumed \o Field /\ Field \in Seq(Byte)
          /\ pc = "addr6" /\ Len(Field) = 16
      BY <1>1, <2>3, ReadFacts
    <3> QED
      BY <3>1
  <2>4. CASE Read("name")
    BY <1>1, <2>1, <2>4, ReadFacts
  <2> QED
    BY <2>2, <2>3, <2>4
<1>3. Field \in Short
  BY <1>2 DEF Short
<1>4. req'.addr = Field /\ req'.cmd = req.cmd /\ req'.atyp = req.atyp
  <2>1. req \in Request
    BY TypeParts DEF OtherTypes
  <2> QED
    BY <1>2, <2>1, AddressUpdate
<1>5. target' = "none" /\ authRequired' = authRequired /\ pc' = "port"
  BY <1>1, <1>2 DEF Session, Goto, Framing, ActingFramed
<1>6. Entrances' = Entrances
  BY <1>5 DEF Entrances
<1>7. GoodSize(req')
  <2>1. req.cmd \in Commands
    BY <1>2 DEF Framing, AskingFramed
  <2>2. \/ req.atyp = 1 /\ Len(Field) = 4
        \/ req.atyp = 4 /\ Len(Field) = 16
        \/ req.atyp = 3
    BY <1>2 DEF Framing, AskingFramed
  <2> QED
    BY <1>3, <1>4, <2>1, <2>2 DEF GoodSize
<1>8. PICK e \in Entrances, v \in Byte : consumed = Sized(e, v, req')
  <2>1. \A e, v : Asked(e, v, req') = Asked(e, v, req)
    BY <1>4 DEF Asked
  <2>2. CASE pc = "name"
    <3>1. req.atyp = 3 /\ Len(req'.addr) = len
      BY <1>2, <1>4, <2>2 DEF Framing, AskingFramed
    <3>2. \E e \in Entrances, v \in Byte : consumed = Asked(e, v, req) \o <<len>>
      BY <2>2 DEF Framing, AskingFramed
    <3> QED
      BY <1>4, <2>1, <3>1, <3>2 DEF Sized
  <2>3. CASE pc \in {"addr4", "addr6"}
    <3>1. req.atyp # 3
      BY <2>3 DEF Framing, AskingFramed
    <3>2. \E e \in Entrances, v \in Byte : consumed = Asked(e, v, req)
      BY <2>3 DEF Framing, AskingFramed
    <3> QED
      BY <1>4, <2>1, <3>1, <3>2 DEF Sized
  <2> QED
    BY <1>2, <2>2, <2>3
<1>9. consumed' = Sited(e, v, req')
  BY <1>2, <1>4, <1>8 DEF Sited
<1>10. ActingFramed'
  BY <1>5, <1>6, <1>7, <1>9 DEF ActingFramed, Acted
<1> QED
  BY <1>5, <1>10 DEF Framing, LoginFramed, AskingFramed, AuthReads

LEMMA PortFrames == ASSUME TypeOK, Framing, Session, ReadPort PROVE Framing'
PROOF
<1> USE DEF ReadPort
<1>1. "port" \in Reads /\ Wanted("port") = 2
  BY DEF Reads, Wanted
<1>2. /\ consumed' = consumed \o Field /\ Field \in Seq(Byte) /\ Len(Field) = 2
      /\ pc = "port"
  BY <1>1, ReadFacts
<1>3. /\ req'.port = Field /\ req'.addr = req.addr
      /\ req'.cmd = req.cmd /\ req'.atyp = req.atyp
  <2>1. req \in Request
    BY TypeParts DEF OtherTypes
  <2> QED
    BY <1>2, <2>1, PortUpdate
<1>4. /\ target' = "none" /\ authRequired' = authRequired
      /\ pc' \in {"command", "done"}
  BY <1>1, <1>2 DEF Session, Goto, Ends, Framing, ActingFramed
<1>5. Entrances' = Entrances
  BY <1>4 DEF Entrances
<1>6. PICK e \in Entrances, v \in Byte : consumed = Sited(e, v, req)
  BY <1>2 DEF Framing, ActingFramed
<1>7. Sited(e, v, req') = Sited(e, v, req)
  <2>1. Asked(e, v, req') = Asked(e, v, req)
    BY <1>3 DEF Asked
  <2>2. Sized(e, v, req') = Sized(e, v, req)
    BY <1>3, <2>1 DEF Sized
  <2> QED
    BY <1>3, <2>2 DEF Sited
<1>8. consumed' = Sited(e, v, req') \o req'.port
  BY <1>2, <1>3, <1>6, <1>7
<1>9. GoodSize(req')
  BY <1>2, <1>3 DEF GoodSize, Framing, ActingFramed
<1>10. req'.port \in Seq(Byte) /\ Len(req'.port) = 2
  BY <1>2, <1>3
<1>11. ActingFramed'
  BY <1>4, <1>5, <1>8, <1>9, <1>10 DEF ActingFramed
<1> QED
  BY <1>4, <1>11 DEF Framing, LoginFramed, AskingFramed, AuthReads

\* The steps after the request, which read nothing more.
LEMMA ActingStays ==
    ASSUME Framing, Acted, pc' \in {"dial", "udp", "relay", "done"},
           UNCHANGED <<authRequired, req, consumed>>
    PROVE  Framing'
PROOF
<1>1. Entrances' = Entrances
  BY DEF Entrances
<1>2. ActingFramed'
  BY <1>1 DEF Framing, ActingFramed, Reads
<1> QED
  BY <1>2 DEF Framing, LoginFramed, AskingFramed, AuthReads

LEMMA SessionFrames == ASSUME TypeOK, Framing, Session PROVE Framing'
PROOF
<1>1. UNCHANGED authRequired
  BY DEF Session
<1>2. CASE Command
  BY <1>1, <1>2, ActingStays DEF Command, Acted, Goto, Ends
<1>3. CASE Dialled
  BY <1>1, <1>3, ActingStays DEF Dialled, AnswerConnect, Acted, Goto, Ends
<1>4. CASE ReadTimeout \/ PeerGone
  BY <1>1, <1>4, FramingEnds DEF ReadTimeout, PeerGone
<1> QED
  BY <1>2, <1>3, <1>4, GreetingFrames, MethodsFrames, AuthVersionFrames, LengthFrames,
     UsernameFrames, PasswordFrames, HeaderFrames, AddressFrames, PortFrames DEF Session

-----------------------------------------------------------------------------
(* What has been read is what a client would write                         *)

LEMMA FitsByte == ASSUME NEW n \in Nat, n < 256 PROVE n \in Byte
BY DEF Byte

LEMMA ShortFacts ==
    ASSUME NEW s \in Short
    PROVE  s \in Seq(Byte) /\ Len(s) \in Byte /\ <<Len(s)>> \in Seq(Byte)
PROOF
<1>1. s \in Seq(Byte)
  BY DEF Short
<1>2. Len(s) \in Nat /\ Len(s) < 256
  BY <1>1, LenProperties DEF Short
<1>3. Len(s) \in Byte
  BY <1>2, FitsByte
<1> QED
  BY <1>1, <1>3

LEMMA Joined ==
    ASSUME NEW S, NEW x \in S, NEW y \in S
    PROVE  <<x>> \o <<y>> = <<x, y>>
PROOF
<1> DEFINE a == <<x>>
           b == <<y>>
           c == <<x, y>>
<1>1. /\ a \in Seq(S) /\ Len(a) = 1
      /\ b \in Seq(S) /\ Len(b) = 1
      /\ c \in Seq(S) /\ Len(c) = 2
  OBVIOUS
<1>2. a[1] = x /\ b[1] = y /\ c[1] = x /\ c[2] = y
  OBVIOUS
<1> HIDE DEF a, b, c
<1>3. /\ a \o b \in Seq(S) /\ Len(a \o b) = Len(a) + Len(b)
      /\ \A i \in 1 .. Len(a) + Len(b) :
            (a \o b)[i] = IF i <= Len(a) THEN a[i] ELSE b[i - Len(a)]
  BY <1>1, ConcatProperties
<1>4. Len(a \o b) = Len(c) /\ \A i \in 1 .. Len(a \o b) : (a \o b)[i] = c[i]
  BY <1>1, <1>2, <1>3
<1>5. a \o b = c
  BY <1>1, <1>3, <1>4, SeqEqual
<1> QED
  BY <1>5 DEF a, b, c

LEMMA Regrouped ==
    ASSUME NEW h \in Seq(Byte), NEW s \in Seq(Byte), NEW t \in Seq(Byte)
    PROVE  s \o t \in Seq(Byte) /\ (h \o s) \o t = h \o (s \o t)
PROOF
<1>1. s \o t \in Seq(Byte)
  BY ConcatProperties
<1>2. (h \o s) \o t = h \o (s \o t)
  BY ConcatAssociative
<1> QED
  BY <1>1, <1>2

\* Read piece by piece, or written at once.
LEMMA LoggedIsWritten ==
    ASSUME NEW h \in Seq(Byte), NEW u \in Short, NEW p \in Short
    PROVE  /\ Logged(h, <<u, p>>) = h \o (<<1, Len(u)>> \o u \o <<Len(p)>> \o p)
           /\ <<1, Len(u)>> \o u \o <<Len(p)>> \o p \in Seq(Byte)
PROOF
<1>1. /\ u \in Seq(Byte) /\ p \in Seq(Byte)
      /\ Len(u) \in Byte /\ Len(p) \in Byte
      /\ <<Len(u)>> \in Seq(Byte) /\ <<Len(p)>> \in Seq(Byte)
  BY ShortFacts
<1>2. 1 \in Byte /\ <<1>> \in Seq(Byte)
  BY DEF Byte
<1> DEFINE a == <<1, Len(u)>>
<1>3. a \in Seq(Byte)
  BY <1>1, <1>2
<1>4. (h \o <<1>>) \o <<Len(u)>> = h \o a
  <2>1. <<1>> \o <<Len(u)>> = a
    BY <1>1, <1>2, Joined
  <2>2. (h \o <<1>>) \o <<Len(u)>> = h \o (<<1>> \o <<Len(u)>>)
    BY <1>1, <1>2, ConcatAssociative
  <2> QED
    BY <2>1, <2>2
<1> HIDE DEF a
<1>5. a \o u \in Seq(Byte) /\ (h \o a) \o u = h \o (a \o u)
  BY <1>1, <1>3, Regrouped
<1>6. /\ (a \o u) \o <<Len(p)>> \in Seq(Byte)
      /\ (h \o (a \o u)) \o <<Len(p)>> = h \o ((a \o u) \o <<Len(p)>>)
  BY <1>1, <1>5, Regrouped
<1>7. /\ ((a \o u) \o <<Len(p)>>) \o p \in Seq(Byte)
      /\ (h \o ((a \o u) \o <<Len(p)>>)) \o p = h \o (((a \o u) \o <<Len(p)>>) \o p)
  BY <1>1, <1>6, Regrouped
<1>8. Logged(h, <<u, p>>) = ((((h \o <<1>>) \o <<Len(u)>>) \o u) \o <<Len(p)>>) \o p
  BY DEF Logged, Named
<1>9. Logged(h, <<u, p>>) = h \o (((a \o u) \o <<Len(p)>>) \o p)
  BY <1>4, <1>5, <1>6, <1>7, <1>8
<1> QED
  BY <1>7, <1>9 DEF a

LEMMA HelloType == ASSUME NEW m \in Short PROVE Hello(m) \in Seq(Byte)
PROOF
<1>1. m \in Seq(Byte) /\ Len(m) \in Byte /\ 5 \in Byte
  BY ShortFacts DEF Byte
<1>2. <<5, Len(m)>> \in Seq(Byte)
  BY <1>1
<1> QED
  BY <1>1, <1>2, ConcatProperties DEF Hello

\* What is acted on, as the session that a client has written.
LEMMA FramingMeans ==
    ASSUME TypeOK, Framing, Acted
    PROVE  \E r \in WellFormed : /\ consumed = Encode(authRequired, r)
                                 /\ req = [cmd |-> r.cmd, atyp |-> r.atyp,
                                           addr |-> r.addr, port |-> r.port]
                                 /\ authRequired => <<r.user, r.pass>> \in Users
PROOF
<1>1. PICK e \in Entrances, v \in Byte : consumed = Sited(e, v, req) \o req.port
  BY DEF Framing, ActingFramed
<1>2. GoodSize(req) /\ req.port \in Seq(Byte) /\ Len(req.port) = 2
  BY DEF Framing, ActingFramed
<1>3. PICK m \in Short, u \in Short, p \in Short :
          /\ authRequired => e = Logged(Hello(m), <<u, p>>) /\ <<u, p>> \in Users
          /\ ~authRequired => e = Hello(m)
  <2>1. CASE authRequired
    <3>1. PICK h \in Hellos, x \in Users \cap (Short \X Short) : e = Logged(h, x)
      BY <2>1 DEF Entrances
    <3>2. PICK m \in Short : h = Hello(m)
      BY DEF Hellos
    <3>3. x = <<x[1], x[2]>> /\ x[1] \in Short /\ x[2] \in Short /\ x \in Users
      OBVIOUS
    <3> QED
      BY <2>1, <3>1, <3>2, <3>3
  <2>2. CASE ~authRequired
    <3>1. <<>> \in Short
      BY DEF Short
    <3>2. PICK m \in Short : e = Hello(m)
      BY <2>2 DEF Entrances, Hellos
    <3> QED
      BY <2>2, <3>1, <3>2
  <2> QED
    BY <2>1, <2>2
<1> DEFINE r == [methods |-> m, user |-> u, pass |-> p, cmd |-> req.cmd, rsv |-> v,
                 atyp |-> req.atyp, addr |-> req.addr, port |-> req.port]
<1>4. r \in WellFormed
  BY <1>2 DEF WellFormed, GoodSize
<1>5. req = [cmd |-> r.cmd, atyp |-> r.atyp, addr |-> r.addr, port |-> r.port]
  BY TypeParts DEF OtherTypes, Request
<1>6. authRequired => <<r.user, r.pass>> \in Users
  BY <1>3
<1>7. e = Hello(m) \o (IF authRequired THEN <<1, Len(u)>> \o u \o <<Len(p)>> \o p ELSE <<>>)
  <2>1. Hello(m) \in Seq(Byte)
    BY HelloType
  <2>2. Logged(Hello(m), <<u, p>>) = Hello(m) \o (<<1, Len(u)>> \o u \o <<Len(p)>> \o p)
    BY <2>1, LoggedIsWritten
  <2>3. Hello(m) \o <<>> = Hello(m)
    BY <2>1, ConcatEmptySeq
  <2> QED
    BY <1>3, <2>2, <2>3
<1>8. e \in Seq(Byte)
  <2>1. Hello(m) \in Seq(Byte)
    BY HelloType
  <2>2. Hello(m) \o (<<1, Len(u)>> \o u \o <<Len(p)>> \o p) \in Seq(Byte)
    BY <2>1, LoggedIsWritten, ConcatProperties
  <2> QED
    BY <1>7, <2>1, <2>2, ConcatEmptySeq
<1>9. Sized(e, v, req) = Asked(e, v, req)
                           \o (IF req.atyp = 3 THEN <<Len(req.addr)>> ELSE <<>>)
  <2>1. 5 \in Byte /\ req.cmd \in Byte /\ req.atyp \in Byte
    BY TypeParts DEF OtherTypes, Request, Byte
  <2>2. <<5, req.cmd, v, req.atyp>> \in Seq(Byte)
    BY <2>1
  <2>3. Asked(e, v, req) \in Seq(Byte)
    BY <1>8, <2>2, ConcatProperties DEF Asked
  <2>4. Asked(e, v, req) \o <<>> = Asked(e, v, req)
    BY <2>3, ConcatEmptySeq
  <2> QED
    BY <2>4 DEF Sized
<1>10. consumed = ((((Hello(m)
           \o (IF authRequired THEN <<1, Len(u)>> \o u \o <<Len(p)>> \o p ELSE <<>>))
           \o <<5, req.cmd, v, req.atyp>>)
           \o (IF req.atyp = 3 THEN <<Len(req.addr)>> ELSE <<>>))
           \o req.addr) \o req.port
  BY <1>1, <1>7, <1>9, Zenon DEF Sited, Asked
<1>11. consumed = Encode(authRequired, r)
  BY <1>10 DEF Encode, Hello
<1> QED
  BY <1>4, <1>5, <1>6, <1>11

-----------------------------------------------------------------------------
(* What the client has been told                                           *)

\* The answers up to the request.
Opening == IF authRequired THEN <<5, 2, 1, 0>> ELSE <<5, 0>>

\* The answers so far, by the point the session is at; when it is over, they stopped anywhere.
Told ==
    /\ pc \in {"greeting", "methods"} => down = <<>>
    /\ pc \in AuthReads => authRequired /\ down = <<5, 2>>
    /\ pc \in {"header", "addr4", "addr6", "alen", "name", "port", "command", "dial"} =>
          down = Opening
    /\ pc = "relay" => target = "open" /\ down = Opening \o Reply(0)
    /\ pc = "udp" => req.cmd = 3 /\ down = Opening \o Reply(0)
    /\ pc = "done" => \/ down \in {<<>>, <<5, 255>>, Opening}
                      \/ authRequired /\ down \in {<<5, 2>>, <<5, 2, 1, 1>>}
                      \/ down = Opening \o Reply(0) /\ (target = "open" \/ req.cmd = 3)
                      \/ down = Opening \o Reply(5)
                      \/ down = Opening \o Reply(7)
    /\ target = "refused" => pc = "done" /\ down = Opening \o Reply(5)

LEMMA ReplyFacts ==
    ASSUME NEW rep \in Byte
    PROVE  /\ Reply(rep) \in Seq(Byte)
           /\ Len(Reply(rep)) = 10
           /\ Reply(rep)[2] = rep
           /\ Reply(rep)[4] = 1
PROOF
<1>1. Reply(rep) \in Seq(Byte)
  BY MessageTypes
<1> QED
  BY <1>1 DEF Reply

LEMMA OpeningFacts ==
    ASSUME authRequired \in BOOLEAN
    PROVE  /\ Opening \in Seq(Byte)
           /\ authRequired => Len(Opening) = 4 /\ Opening[2] = 2
           /\ ~authRequired => Len(Opening) = 2 /\ Opening[2] = 0
PROOF
<1>1. 0 \in Byte /\ 1 \in Byte /\ 2 \in Byte /\ 5 \in Byte
  BY DEF Byte
<1>2. <<5, 2, 1, 0>> \in Seq(Byte) /\ <<5, 0>> \in Seq(Byte)
  BY <1>1
<1> QED
  BY <1>2 DEF Opening

\* Two answers of two bytes.
LEMMA Joined2 ==
    ASSUME NEW S, NEW x1 \in S, NEW x2 \in S, NEW y1 \in S, NEW y2 \in S
    PROVE  <<x1, x2>> \o <<y1, y2>> = <<x1, x2, y1, y2>>
PROOF
<1> DEFINE a == <<x1, x2>>
           b == <<y1, y2>>
           c == <<x1, x2, y1, y2>>
<1>1. /\ a \in Seq(S) /\ Len(a) = 2
      /\ b \in Seq(S) /\ Len(b) = 2
      /\ c \in Seq(S) /\ Len(c) = 4
  OBVIOUS
<1>2. /\ a[1] = x1 /\ a[2] = x2 /\ b[1] = y1 /\ b[2] = y2
      /\ c[1] = x1 /\ c[2] = x2 /\ c[3] = y1 /\ c[4] = y2
  OBVIOUS
<1> HIDE DEF a, b, c
<1>3. /\ a \o b \in Seq(S) /\ Len(a \o b) = Len(a) + Len(b)
      /\ \A i \in 1 .. Len(a) + Len(b) :
            (a \o b)[i] = IF i <= Len(a) THEN a[i] ELSE b[i - Len(a)]
  BY <1>1, ConcatProperties
<1>4. Len(a \o b) = Len(c) /\ \A i \in 1 .. Len(a \o b) : (a \o b)[i] = c[i]
  BY <1>1, <1>2, <1>3
<1>5. a \o b = c
  BY <1>1, <1>3, <1>4, SeqEqual
<1> QED
  BY <1>5 DEF a, b, c

\* All the answers together.
LEMMA AllAnswers ==
    ASSUME authRequired \in BOOLEAN, NEW rep \in Byte, NEW other \in Byte
    PROVE  /\ Opening \o Reply(rep) \in Seq(Byte)
           /\ Len(Opening \o Reply(rep)) = Len(Opening) + 10
           /\ (Opening \o Reply(rep))[2] = Opening[2]
           /\ (Opening \o Reply(rep))[Len(Opening) + 2] = rep
           /\ (Opening \o Reply(rep))[Len(Opening) + 4] = 1
           /\ EndsWith(Opening \o Reply(rep), Reply(other)) <=> rep = other
PROOF
<1> DEFINE o == Opening
           r == Reply(rep)
           d == o \o r
           n == Len(o)
<1>1. o \in Seq(Byte) /\ n \in {2, 4} /\ Len(o) = n
  BY OpeningFacts
<1>2. r \in Seq(Byte) /\ Len(r) = 10 /\ r[2] = rep /\ r[4] = 1
  BY ReplyFacts
<1>3. EndsWith(d, Reply(other))
         <=> Len(d) >= 10 /\ SubSeq(d, Len(d) - 10 + 1, Len(d)) = Reply(other)
  BY ReplyFacts DEF EndsWith
<1> HIDE DEF o, r, d, n
<1>4. /\ d \in Seq(Byte) /\ Len(d) = Len(o) + Len(r)
      /\ \A i \in 1 .. Len(o) + Len(r) : d[i] = IF i <= Len(o) THEN o[i] ELSE r[i - Len(o)]
  BY <1>1, <1>2, ConcatProperties DEF d
<1>5. Len(d) = n + 10 /\ d[2] = o[2] /\ d[n + 2] = rep /\ d[n + 4] = 1
  BY <1>1, <1>2, <1>4
<1>6. SubSeq(d, n + 1, n + 10) = r
  <2>1. \A i \in n + 1 .. n + 10 : d[i] \in Byte
    BY <1>1, <1>4, <1>5, ElementOfSeq
  <2>2. /\ SubSeq(d, n + 1, n + 10) \in Seq(Byte)
        /\ Len(SubSeq(d, n + 1, n + 10)) = IF n + 1 <= n + 10 THEN (n + 10) - (n + 1) + 1 ELSE 0
        /\ \A i \in 1 .. (n + 10) - (n + 1) + 1 : SubSeq(d, n + 1, n + 10)[i] = d[(n + 1) + i - 1]
    BY <1>1, <2>1, SubSeqProperties
  <2>3. Len(SubSeq(d, n + 1, n + 10)) = 10
    BY <1>1, <2>2
  <2>4. \A i \in 1 .. 10 : SubSeq(d, n + 1, n + 10)[i] = r[i]
    BY <1>1, <1>2, <1>4, <2>2
  <2> QED
    BY <1>2, <2>2, <2>3, <2>4, SeqEqual
<1>7. Len(d) - 10 + 1 = n + 1 /\ Len(d) >= 10 /\ Len(d) = n + 10
  BY <1>1, <1>5
<1>8. EndsWith(d, Reply(other)) <=> r = Reply(other)
  BY <1>3, <1>6, <1>7
<1>9. r = Reply(other) <=> rep = other
  BY <1>2, ReplyFacts DEF r
<1> QED
  BY <1>4, <1>5, <1>8, <1>9 DEF d, r, o, n

\* A client that has not been answered has not been told of a success or a refusal.
LEMMA ShortAnswers ==
    ASSUME NEW d \in Seq(Byte), NEW rep \in Byte, Len(d) < 10
    PROVE  ~EndsWith(d, Reply(rep))
PROOF
<1>1. Len(Reply(rep)) = 10
  BY ReplyFacts
<1>2. ~(Len(d) >= 10)
  BY LenProperties
<1> QED
  BY <1>1, <1>2 DEF EndsWith

\* The answers before the reply to the request, and with it.
Brief   == \/ Len(down) = 0
           \/ Len(down) = 2 /\ (down[2] = 0 => ~authRequired) /\ (down[2] = 2 => authRequired)
           \/ Len(down) = 4 /\ down[2] = 2 /\ authRequired
Replied == /\ pc \in {"relay", "udp", "done"}
           /\ \E rep \in {0, 5, 7} : /\ down = Opening \o Reply(rep)
                                     /\ rep = 0 => target = "open" \/ req.cmd = 3

LEMMA ToldShape == ASSUME TypeOK, Told PROVE Brief \/ Replied
PROOF
<1> USE DEF Brief, Replied
<1>1. authRequired \in BOOLEAN
  BY DEF TypeOK
<1>2. /\ Len(<<>>) = 0 /\ Len(<<5, 255>>) = 2 /\ Len(<<5, 2>>) = 2 /\ Len(<<5, 2, 1, 1>>) = 4
      /\ <<5, 255>>[2] = 255 /\ <<5, 2>>[2] = 2 /\ <<5, 2, 1, 1>>[2] = 2
      /\ Len(Opening) = IF authRequired THEN 4 ELSE 2
      /\ Opening[2] = IF authRequired THEN 2 ELSE 0
  BY <1>1, OpeningFacts
<1>3. CASE pc \in {"greeting", "methods"} \union AuthReads
  <2>1. down = <<>> \/ (down = <<5, 2>> /\ authRequired)
    BY <1>3 DEF Told
  <2> QED
    BY <1>2, <2>1
<1>4. CASE pc \in {"header", "addr4", "addr6", "alen", "name", "port", "command", "dial"}
  <2>1. down = Opening
    BY <1>4 DEF Told
  <2> QED
    BY <1>1, <1>2, <2>1
<1>5. CASE pc \in {"relay", "udp"}
  BY <1>5 DEF Told
<1>6. CASE pc = "done"
  <2>1. CASE down \in {<<>>, <<5, 255>>, Opening}
    BY <1>1, <1>2, <2>1
  <2>2. CASE authRequired /\ down \in {<<5, 2>>, <<5, 2, 1, 1>>}
    BY <1>2, <2>2
  <2>3. CASE down = Opening \o Reply(0) /\ (target = "open" \/ req.cmd = 3)
    BY <1>6, <2>3
  <2>4. CASE down = Opening \o Reply(5)
    BY <1>6, <2>4
  <2>5. CASE down = Opening \o Reply(7)
    BY <1>6, <2>5
  <2> QED
    BY <1>6, <2>1, <2>2, <2>3, <2>4, <2>5 DEF Told
<1> QED
  BY <1>3, <1>4, <1>5, <1>6 DEF TypeOK, Phases, Reads, AuthReads

LEMMA ToldMeans == ASSUME TypeOK, Told PROVE RepliesTruthful
PROOF
<1>1. authRequired \in BOOLEAN /\ 0 \in Byte /\ 5 \in Byte /\ 7 \in Byte
  BY DEF TypeOK, Byte
<1>2. Len(Opening) = IF authRequired THEN 4 ELSE 2
  BY <1>1, OpeningFacts
<1>3. pc \in {"relay", "udp"} => EndsWith(down, Reply(0))
  <2>1. pc \in {"relay", "udp"} => down = Opening \o Reply(0)
    BY DEF Told
  <2>2. EndsWith(Opening \o Reply(0), Reply(0))
    BY <1>1, AllAnswers
  <2> QED
    BY <2>1, <2>2
<1>4. target = "refused" => EndsWith(down, Reply(5))
  <2>1. target = "refused" => down = Opening \o Reply(5)
    BY DEF Told
  <2>2. EndsWith(Opening \o Reply(5), Reply(5))
    BY <1>1, AllAnswers
  <2> QED
    BY <2>1, <2>2
<1>5. CASE Brief
  <2>1. PICK n \in {0, 2, 4} : n = Len(down) /\ (n = 4 => authRequired)
    BY <1>5 DEF Brief
  <2>2. ~EndsWith(down, Reply(0))
    <3>1. n < 10
      OBVIOUS
    <3>2. n = Len(down)
      BY <2>1
    <3>3. Len(down) < 10
      BY <3>1, <3>2, Zenon
    <3>4. down \in Seq(Byte)
      BY DEF TypeOK
    <3> QED
      BY <1>1, <3>3, <3>4, ShortAnswers
  <2>3. Len(down) <= (IF authRequired THEN 4 ELSE 2) + (IF Acted \/ pc = "done" THEN 10 ELSE 0)
    <3>1. n = 4 => authRequired
      BY <2>1
    <3>2. n <= (IF authRequired THEN 4 ELSE 2) + (IF Acted \/ pc = "done" THEN 10 ELSE 0)
      BY <1>1, <3>1
    <3>3. n = Len(down)
      BY <2>1
    <3> QED
      BY <3>2, <3>3, Zenon
  <2> QED
    BY <1>3, <1>4, <2>2, <2>3 DEF RepliesTruthful
<1>6. CASE Replied
  <2>1. PICK rep \in {0, 5, 7} : /\ down = Opening \o Reply(rep)
                                 /\ rep = 0 => target = "open" \/ req.cmd = 3
    BY <1>6 DEF Replied
  <2>2. EndsWith(down, Reply(0)) <=> rep = 0
    BY <1>1, <2>1, AllAnswers
  <2>3. Len(down) = Len(Opening) + 10
    BY <1>1, <2>1, AllAnswers
  <2>4. Acted \/ pc = "done"
    BY <1>6 DEF Acted, Replied
  <2> QED
    BY <1>2, <1>3, <1>4, <2>1, <2>2, <2>3, <2>4 DEF RepliesTruthful
<1> QED
  BY <1>5, <1>6, ToldShape

\* A step that answers nothing: one read after another, or the end.
LEMMA ToldStays ==
    ASSUME Told, UNCHANGED <<authRequired, pc, req, target, down>>
    PROVE  Told'
PROOF
<1>1. Opening' = Opening
  BY DEF Opening
<1> QED
  BY <1>1 DEF Told

LEMMA ToldSilently ==
    ASSUME Told, target = "none", UNCHANGED <<authRequired, target, down>>,
           \/ pc = "greeting" /\ pc' = "methods"
           \/ pc \in AuthReads /\ pc' \in AuthReads
           \/ /\ pc \in {"header", "addr4", "addr6", "alen", "name", "port"}
              /\ pc' \in {"addr4", "addr6", "alen", "name", "port", "command"}
    PROVE  Told'
PROOF
<1>1. Opening' = Opening
  BY DEF Opening
<1>2. CASE pc = "greeting" /\ pc' = "methods"
  BY <1>2 DEF Told, AuthReads
<1>3. CASE pc \in AuthReads /\ pc' \in AuthReads
  BY <1>3 DEF Told, AuthReads
<1>4. CASE /\ pc \in {"header", "addr4", "addr6", "alen", "name", "port"}
           /\ pc' \in {"addr4", "addr6", "alen", "name", "port", "command"}
  BY <1>1, <1>4 DEF Told, AuthReads
<1> QED
  BY <1>2, <1>3, <1>4

LEMMA ToldEnds ==
    ASSUME TypeOK, Told, Ends, UNCHANGED <<authRequired, req, target, down>>
    PROVE  Told'
PROOF
<1>1. Opening' = Opening
  BY DEF Opening
<1>2. pc' = "done"
  BY DEF Ends, Goto
<1>3. CASE pc \in {"greeting", "methods"} \union AuthReads
  BY <1>1, <1>2, <1>3 DEF Told, AuthReads
<1>4. CASE pc \in {"header", "addr4", "addr6", "alen", "name", "port", "command", "dial"}
  BY <1>1, <1>2, <1>4 DEF Told, AuthReads
<1>5. CASE pc \in {"relay", "udp"}
  BY <1>1, <1>2, <1>5 DEF Told, AuthReads
<1>6. CASE pc = "done"
  BY <1>2, <1>6, ToldStays
<1> QED
  BY <1>3, <1>4, <1>5, <1>6 DEF TypeOK, Phases, Reads, AuthReads

LEMMA MethodsTell == ASSUME TypeOK, Framing, Told, Session, ReadMethods PROVE Told'
PROOF
<1>1. pc = "methods" /\ "methods" \in Reads
  BY DEF ReadMethods, Read, Reads
<1>2. target' = "none" /\ authRequired' = authRequired /\ authRequired \in BOOLEAN
  BY <1>1 DEF ReadMethods, Session, Framing, ActingFramed, TypeOK
<1>3. PICK s \in {0, 2, 255} : s = Selected(Field)
  BY SelectedType
<1>4. down' = <<5, s>>
  <2>1. 5 \in Byte /\ s \in Byte
    BY DEF Byte
  <2>2. <<5, s>> \in Seq(Byte)
    BY <2>1
  <2>3. down = <<>> /\ down' = down \o <<5, s>>
    BY <1>1, <1>3 DEF ReadMethods, Writes, Told
  <2> QED
    BY <2>2, <2>3, ConcatEmptySeq
<1>5. \/ s = 255 /\ pc' = "done"
      \/ s = 2 /\ authRequired /\ pc' = "auth_ver"
      \/ s = 0 /\ ~authRequired /\ pc' = "header"
  <2>1. s = 2 => authRequired
    BY <1>3 DEF Selected
  <2>2. s = 0 => ~authRequired
    BY <1>3 DEF Selected
  <2>3. CASE s = 255
    BY <1>3, <2>3 DEF ReadMethods, Goto, Ends
  <2>4. CASE s = 2
    BY <1>3, <2>1, <2>4 DEF ReadMethods, Goto
  <2>5. CASE s = 0
    BY <1>3, <2>2, <2>5 DEF ReadMethods, Goto
  <2> QED
    BY <2>3, <2>4, <2>5
<1>6. s = 0 => down' = Opening'
  BY <1>2, <1>4, <1>5 DEF Opening
<1> QED
  BY <1>2, <1>4, <1>5, <1>6 DEF Told, AuthReads

LEMMA PasswordTells == ASSUME TypeOK, Framing, Told, Session, ReadPassword PROVE Told'
PROOF
<1>1. pc = "passwd" /\ "passwd" \in Reads /\ "passwd" \in AuthReads
  BY DEF ReadPassword, Read, Reads, AuthReads
<1>2. /\ target' = "none" /\ target = "none" /\ authRequired' = authRequired /\ authRequired
      /\ down = <<5, 2>>
  BY <1>1 DEF ReadPassword, Session, Framing, ActingFramed, Told
<1>3. CASE Ends /\ UNCHANGED down
  BY <1>2, <1>3, ToldEnds DEF ReadPassword
<1>4. ASSUME NEW ok \in BOOLEAN, AnswerAuth(ok)
      PROVE  Told'
  <2> DEFINE status == IF ok THEN 0 ELSE 1
  <2>1. status \in {0, 1} /\ (status = 0 <=> ok)
    OBVIOUS
  <2>2. down' = <<5, 2>> \o <<1, status>>
    BY <1>2, <1>4 DEF AnswerAuth, Writes
  <2> HIDE DEF status
  <2>3. down' = <<5, 2, 1, status>>
    <3>1. 5 \in Byte /\ 2 \in Byte /\ 1 \in Byte /\ status \in Byte
      BY <2>1 DEF Byte
    <3> QED
      BY <2>2, <3>1, Joined2
  <2>4. CASE ok
    <3>1. down' = Opening' /\ pc' = "header"
      BY <1>2, <1>4, <2>1, <2>3, <2>4 DEF Opening, AnswerAuth, Goto
    <3> QED
      BY <1>2, <3>1 DEF Told, AuthReads
  <2>5. CASE ~ok
    <3>1. down' = <<5, 2, 1, 1>> /\ pc' = "done"
      BY <1>4, <2>1, <2>3, <2>5 DEF AnswerAuth, Goto, Ends
    <3> QED
      BY <1>2, <3>1 DEF Told, AuthReads
  <2> QED
    BY <2>4, <2>5
<1>5. \/ Ends /\ UNCHANGED down
      \/ AnswerAuth(TRUE) \/ AnswerAuth(FALSE)
  BY DEF ReadPassword, AnswerAuth
<1> QED
  BY <1>3, <1>4, <1>5

LEMMA CommandTells == ASSUME TypeOK, Framing, Told, Session, Command PROVE Told'
PROOF
<1>1. /\ down = Opening /\ target = "none" /\ req' = req
      /\ authRequired' = authRequired
  BY DEF Command, Session, Framing, ActingFramed, Told
<1>2. Opening' = Opening
  BY <1>1 DEF Opening
<1>3. CASE req.cmd = 1 /\ Goto("dial") /\ target' = "dialing" /\ UNCHANGED down
  BY <1>1, <1>2, <1>3 DEF Told, Goto, AuthReads
<1>4. CASE req.cmd = 2 /\ Ends /\ Writes(Reply(7)) /\ UNCHANGED target
  BY <1>1, <1>2, <1>4 DEF Told, Goto, Ends, Writes, AuthReads
<1>5. CASE req.cmd = 3 /\ Goto("udp") /\ Writes(Reply(0)) /\ UNCHANGED target
  BY <1>1, <1>2, <1>5 DEF Told, Goto, Writes, AuthReads
<1>6. CASE req.cmd = 3 /\ Ends /\ UNCHANGED <<target, down>>
  BY <1>1, <1>6, ToldEnds
<1> QED
  BY <1>3, <1>4, <1>5, <1>6 DEF Command

LEMMA DialTells == ASSUME TypeOK, Framing, Told, Session, Dialled PROVE Told'
PROOF
<1>1. down = Opening /\ req' = req /\ authRequired' = authRequired
  BY DEF Dialled, Session, Told
<1>2. Opening' = Opening
  BY <1>1 DEF Opening
<1>3. CASE Ends /\ UNCHANGED <<target, down>>
  BY <1>1, <1>3, ToldEnds
<1>4. CASE AnswerConnect(TRUE)
  <2>1. pc' = "relay" /\ target' = "open" /\ down' = Opening' \o Reply(0)
    BY <1>1, <1>2, <1>4 DEF AnswerConnect, Goto, Writes
  <2> QED
    BY <2>1 DEF Told, AuthReads
<1>5. CASE AnswerConnect(FALSE)
  <2>1. pc' = "done" /\ target' = "refused" /\ down' = Opening' \o Reply(5)
    BY <1>1, <1>2, <1>5 DEF AnswerConnect, Ends, Goto, Writes
  <2> QED
    BY <2>1 DEF Told, AuthReads
<1> QED
  BY <1>3, <1>4, <1>5 DEF Dialled

LEMMA SessionTells == ASSUME TypeOK, Framing, Told, Session PROVE Told'
PROOF
<1>1. UNCHANGED authRequired
  BY DEF Session
<1>2. ASSUME NEW p \in Reads, Read(p) PROVE pc = p /\ target = "none"
  BY <1>2 DEF Read, Framing, ActingFramed
<1>3. CASE ReadGreeting
  <2>1. target = "none" /\ pc = "greeting" /\ UNCHANGED <<req, target, down>>
    BY <1>2, <1>3 DEF ReadGreeting, Reads
  <2>2. CASE Goto("methods")
    BY <1>1, <2>1, <2>2, ToldSilently DEF Goto
  <2>3. CASE Ends
    BY <1>1, <2>1, <2>3, ToldEnds
  <2> QED
    BY <1>3, <2>2, <2>3 DEF ReadGreeting
<1>4. CASE ReadAuthVersion
  <2>1. target = "none" /\ pc = "auth_ver" /\ UNCHANGED <<req, target, down>>
    BY <1>2, <1>4 DEF ReadAuthVersion, Reads
  <2>2. CASE Goto("ulen")
    BY <1>1, <2>1, <2>2, ToldSilently DEF Goto, AuthReads
  <2>3. CASE Ends
    BY <1>1, <2>1, <2>3, ToldEnds
  <2> QED
    BY <1>4, <2>2, <2>3 DEF ReadAuthVersion
<1>5. CASE ReadLength
  <2>1. UNCHANGED <<req, target, down>>
    BY <1>5 DEF ReadLength
  <2>2. CASE Read("ulen") /\ Goto("uname")
    <3>1. pc = "ulen" /\ pc' = "uname" /\ target = "none"
      BY <1>2, <2>2 DEF Goto, Reads
    <3> QED
      BY <1>1, <2>1, <3>1, ToldSilently DEF AuthReads
  <2>3. CASE Read("plen") /\ Goto("passwd")
    <3>1. pc = "plen" /\ pc' = "passwd" /\ target = "none"
      BY <1>2, <2>3 DEF Goto, Reads
    <3> QED
      BY <1>1, <2>1, <3>1, ToldSilently DEF AuthReads
  <2>4. CASE Read("alen") /\ Goto("name")
    <3>1. pc = "alen" /\ pc' = "name" /\ target = "none"
      BY <1>2, <2>4 DEF Goto, Reads
    <3> QED
      BY <1>1, <2>1, <3>1, ToldSilently
  <2> QED
    BY <1>5, <2>2, <2>3, <2>4 DEF ReadLength
<1>6. CASE ReadUsername
  <2>1. /\ pc = "uname" /\ pc' = "plen" /\ target = "none"
        /\ UNCHANGED <<req, target, down>>
    BY <1>2, <1>6 DEF ReadUsername, Goto, Reads
  <2> QED
    BY <1>1, <2>1, ToldSilently DEF AuthReads
<1>7. CASE ReadHeader \/ ReadAddress \/ ReadPort
  <2>1. /\ pc \in {"header", "addr4", "addr6", "name", "port"} /\ target = "none"
        /\ UNCHANGED <<target, down>>
    BY <1>2, <1>7 DEF ReadHeader, ReadAddress, ReadPort, Reads
  <2>2. \/ pc' \in {"addr4", "addr6", "alen", "port", "command"}
        \/ pc' = "done"
    BY <1>7 DEF ReadHeader, ReadAddress, ReadPort, AddressRead, Goto, Ends
  <2>3. CASE pc' \in {"addr4", "addr6", "alen", "port", "command"}
    BY <1>1, <2>1, <2>3, ToldSilently
  <2>4. CASE pc' = "done"
    <3>1. Opening' = Opening
      BY <1>1 DEF Opening
    <3> QED
      BY <2>1, <2>4, <3>1 DEF Told, AuthReads
  <2> QED
    BY <2>2, <2>3, <2>4
<1>8. CASE ReadTimeout \/ PeerGone
  BY <1>1, <1>8, ToldEnds DEF ReadTimeout, PeerGone
<1> QED
  BY <1>3, <1>4, <1>5, <1>6, <1>7, <1>8, MethodsTell, PasswordTells, CommandTells, DialTells
  DEF Session

\* What the client is told only grows, and not after the reply.
LEMMA SessionAppends ==
    ASSUME TypeOK, Session
    PROVE  \/ down' = down
           \/ /\ pc \in {"methods", "passwd", "command", "dial"}
              /\ \E b \in Seq(Byte) : down' = down \o b
PROOF
<1>1. 0 \in Byte /\ 1 \in Byte /\ 5 \in Byte /\ 7 \in Byte
  BY DEF Byte
<1>2. CASE ReadMethods
  <2>1. Selected(Field) \in Byte
    BY SelectedType DEF Byte
  <2>2. <<5, Selected(Field)>> \in Seq(Byte)
    BY <1>1, <2>1
  <2> QED
    BY <1>2, <2>2 DEF ReadMethods, Read, Writes
<1>3. CASE ReadPassword
  <2>1. ASSUME NEW ok \in BOOLEAN, AnswerAuth(ok)
        PROVE  \E b \in Seq(Byte) : down' = down \o b
    <3>1. <<1, IF ok THEN 0 ELSE 1>> \in Seq(Byte)
      BY <1>1
    <3> QED
      BY <2>1, <3>1 DEF AnswerAuth, Writes
  <2>2. \/ UNCHANGED down
        \/ AnswerAuth(TRUE) \/ AnswerAuth(FALSE)
    BY <1>3 DEF ReadPassword, AnswerAuth
  <2> QED
    BY <1>3, <2>1, <2>2 DEF ReadPassword, Read
<1>4. CASE Command
  <2>1. Reply(0) \in Seq(Byte) /\ Reply(7) \in Seq(Byte)
    BY <1>1, MessageTypes
  <2> QED
    BY <1>4, <2>1 DEF Command, Writes
<1>5. CASE Dialled
  <2>1. Reply(0) \in Seq(Byte) /\ Reply(5) \in Seq(Byte)
    BY <1>1, MessageTypes
  <2> QED
    BY <1>5, <2>1 DEF Dialled, AnswerConnect, Writes
<1>6. CASE UNCHANGED down
  BY <1>6
<1> QED
  BY <1>2, <1>3, <1>4, <1>5, <1>6
  DEF Session, ReadGreeting, ReadAuthVersion, ReadLength, ReadUsername, ReadHeader,
      ReadAddress, ReadPort, ReadTimeout, PeerGone

\* The reply to the request is the last answer.
LEMMA RepliesLast ==
    ASSUME TypeOK, Told, Len(down) > Len(Opening)
    PROVE  Replied
PROOF
<1>1. authRequired \in BOOLEAN
  BY DEF TypeOK
<1>2. PICK n \in {2, 4} : n = Len(Opening) /\ (n = 2 <=> ~authRequired)
  BY <1>1, OpeningFacts
<1>3. ASSUME Brief PROVE FALSE
  <2>1. PICK k \in {0, 2, 4} : k = Len(down) /\ (k = 4 => authRequired)
    BY <1>3 DEF Brief
  <2>2. k <= n
    <3>1. n = 4 \/ ~authRequired
      BY <1>2
    <3>2. k = 4 => authRequired
      BY <2>1
    <3> QED
      BY <3>1, <3>2
  <2>3. k > n
    BY <1>2, <2>1, Zenon
  <2> QED
    BY <2>2, <2>3
<1> QED
  BY <1>3, ToldShape

\* The method that the client is told is the one the session goes on with.
LEMMA MethodTold ==
    ASSUME TypeOK, Told, Len(down) >= 2
    PROVE  (down[2] = 0 => ~authRequired) /\ (down[2] = 2 => authRequired)
PROOF
<1>1. authRequired \in BOOLEAN
  BY DEF TypeOK
<1>2. CASE Brief
  BY <1>2 DEF Brief
<1>3. CASE Replied
  <2>0. PICK rep \in {0, 5, 7} : down = Opening \o Reply(rep)
    BY <1>3 DEF Replied
  <2>1. rep \in Byte
    BY DEF Byte
  <2>2. down[2] = Opening[2]
    BY <1>1, <2>0, <2>1, AllAnswers
  <2> QED
    BY <1>1, <2>2, OpeningFacts
<1> QED
  BY <1>2, <1>3, ToldShape
=============================================================================
