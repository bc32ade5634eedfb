-------------------------- MODULE ProxyChainProofs --------------------------
(***************************************************************************)
(* Theorems about ProxyChain for configurations with any number of hops,   *)
(* and however much the target says on its own.                            *)
(***************************************************************************)
EXTENDS ProxyChain, SequenceTheorems, TLAPS

\* What may be left in the stream when a handshake is over: some of the target's n pieces, or
\* all of them behind the rest of an HTTP answer.
IsRest(pieces, n) ==
    /\ Len(pieces) <= n + 1
    /\ \A i \in 1 .. Len(pieces) :
          pieces[i] = IF i = 1 /\ Len(pieces) = n + 1 THEN "head" ELSE "data"

\* The states in which a handshake is under way.
Underway == {"tls", "handshake"} \union Reads

\* Who is spoken to when the turn of hop i comes.
Here(i) == IF Hops[i].kind = "direct" THEN Target ELSE i

\* Where connect() is tells which hop's turn it is, and who can be reached; only a target
\* speaks unasked.
Places ==
    /\ at = "start" => /\ far = 0 /\ request = "none" /\ data = 0 /\ creds = {}
                       /\ down = <<>>
    /\ at \in Underway => hop > 0 /\ far > 0 /\ HasAddress(Hops[1])
    /\ request # "none" => far > 0
    /\ request \in {"http", "connect"} => asked[far] > 0
    /\ far # Target => data = 0
    /\ at = "http" => Hops[hop].kind = "http" /\ request \in {"none", "http"}
    /\ at \in {"method", "auth", "reply"} => Hops[hop].kind = "socks5"

\* A single proxy with `tls` is spoken to inside TLS only.
Wrapping == /\ at \in {"handshake"} \union Reads /\ WantsTls(config) => wrapped
            /\ CredentialsInTls

\* The hops before the present one have been asked for their successors.
AskedUpTo(n) == \A k \in Proxies : k <= n => asked[k] = NextTarget(k)

\* Is the last proxy an HTTP proxy?
HttpLast == \E k \in Proxies : Hops[k].kind = "http" /\ k + 1 \notin Proxies

\* The turn of a hop: it is at the far end, and nothing is under way but what the previous hop
\* may have left.
AtHop ==
    at \in {"tls", "handshake"} =>
        /\ far = Here(hop) /\ request = "none"
        /\ IsRest(down, data)
        /\ Hops[hop].kind = "direct" /\ ~HttpLast => Len(down) = data
        /\ AskedUpTo(hop - 1)

\* An answer that begins as it should is the answer to what was asked, and is all that is under
\* way, but for what the target says behind it.
AtHttp ==
    at = "http" =>
        /\ AskedUpTo(hop)
        /\ request = "http" => far = hop /\ IsRest(down, data)
        /\ request = "none" =>
              /\ down # <<>>
              /\ down[1] = "status1" =>
                    /\ far = NextTarget(hop)
                    /\ Len(down) = data + 3
                    /\ down[2] = "status2" /\ down[3] = "head"
                    /\ \A i \in 4 .. Len(down) : down[i] = "data"

AtSocks ==
    /\ at = "method" =>
          /\ far = hop /\ AskedUpTo(hop - 1) /\ request \in {"none", "methods"}
          /\ request = "methods" => IsRest(down, data)
          /\ request = "none" => Len(down) = 1 \/ down[1] = "head"
    /\ at = "auth" =>
          /\ far = hop /\ AskedUpTo(hop - 1) /\ request \in {"none", "auth"}
          /\ Len(down) = IF request = "auth" THEN 0 ELSE 1
    /\ at = "reply" =>
          /\ AskedUpTo(hop) /\ request \in {"none", "connect"}
          /\ request = "connect" => far = hop /\ down = <<>>
          /\ request = "none" =>
                /\ down # <<>>
                /\ down[1] = "rep0" =>
                      /\ far = NextTarget(hop)
                      /\ Len(down) = data + 2
                      /\ down[2] = "bind"
                      /\ \A i \in 3 .. Len(down) : down[i] = "data"

\* A stream that has been returned.
AtEnd ==
    at = "ok" =>
        /\ far = Target /\ request = "none"
        /\ AskedUpTo(Len(Hops))
        /\ IsRest(down, data)
        /\ ~HttpLast => Len(down) = data

\* What holds of the handshakes in a sensible configuration.
Handshakes == AtHop /\ AtHttp /\ AtSocks /\ AtEnd /\ CredentialsStayHome

IInv == TypeOK /\ Places /\ Wrapping /\ (Sensible => Handshakes)

-----------------------------------------------------------------------------
(* Configurations                                                          *)

\* The hops are a sequence of hops, and each hop, like the target, is a party.
LEMMA HopFacts ==
  ASSUME TypeOK
  PROVE  /\ Hops \in Seq(Hop) /\ Len(Hops) \in Nat /\ MaxHops \in Nat /\ Len(Hops) <= MaxHops
         /\ Target \in Parties /\ Target = Len(Hops) + 1
         /\ \A i \in 1 .. Len(Hops) : /\ i \in Parties /\ Hops[i] \in Hop
                                      /\ NextTarget(i) \in i + 1 .. Len(Hops) + 1
                                      /\ NextTarget(i) \in Parties
<1>1. config \in Config /\ Len(Hops) <= MaxHops /\ MaxHops \in Nat
  BY ConfigsAssumption DEF TypeOK, Hops
<1>2. Hops \in Seq(Hop)
  BY <1>1 DEF Config, Hops
<1>3. Len(Hops) \in Nat /\ \A i \in 1 .. Len(Hops) : Hops[i] \in Hop
  BY <1>2, LenProperties, ElementOfSeq
<1> QED BY <1>1, <1>2, <1>3 DEF Target, Parties, NextTarget

\* The configuration never changes, nor what depends on it alone.
LEMMA SameHops ==
  ASSUME config' = config
  PROVE  /\ Hops' = Hops /\ Target' = Target /\ Proxies' = Proxies
         /\ Sensible' <=> Sensible
         /\ HttpLast' <=> HttpLast
         /\ WantsTls(config)' <=> WantsTls(config)
         /\ \A i : NextTarget(i)' = NextTarget(i) /\ Here(i)' = Here(i)
<1>1. Hops' = Hops
  BY DEF Hops
<1> QED BY <1>1 DEF Target, Proxies, Sensible, HttpLast, WantsTls, NextTarget, Here

\* In a sensible configuration only the last hop may be a Direct.
LEMMA SensibleFacts ==
  ASSUME TypeOK, Sensible
  PROVE  /\ \A k \in Proxies : k \in 1 .. Len(Hops) /\ Hops[k].kind # "direct"
         /\ \A k \in Proxies : k + 1 \in Proxies <=> k < Len(Hops) /\ Hops[k + 1].kind # "direct"
         /\ \A k \in Proxies : NextTarget(k) = IF k + 1 \in Proxies THEN k + 1 ELSE Target
         /\ \A k \in 1 .. Len(Hops) : k < Len(Hops) => k \in Proxies /\ NextTarget(k) = Here(k + 1)
         /\ \A k \in 1 .. Len(Hops) : Hops[k].kind # "direct" => k \in Proxies
         /\ \A k \in Proxies : HttpLast /\ k + 1 \notin Proxies => Hops[k].kind = "http"
<1>1. Len(Hops) \in Nat
  BY HopFacts
<1>2. ASSUME NEW k \in Proxies
      PROVE  /\ k \in 1 .. Len(Hops) /\ Hops[k].kind # "direct"
             /\ k + 1 \in Proxies <=> k < Len(Hops) /\ Hops[k + 1].kind # "direct"
  BY <1>1 DEF Proxies
<1>3. ASSUME NEW k \in 1 .. Len(Hops), k < Len(Hops) PROVE k \in Proxies
  BY <1>1, <1>3 DEF Sensible, Proxies
<1>4. ASSUME NEW k \in 1 .. Len(Hops), k < Len(Hops) PROVE NextTarget(k) = Here(k + 1)
  BY <1>1, <1>4 DEF NextTarget, Here
<1>5. ASSUME NEW k \in Proxies, NEW j \in Proxies, k + 1 \notin Proxies, j + 1 \notin Proxies
      PROVE  k = j
  BY <1>1, <1>2, <1>3, <1>5 DEF Sensible
<1> QED BY <1>1, <1>2, <1>3, <1>4, <1>5 DEF NextTarget, Proxies, HttpLast

-----------------------------------------------------------------------------
(* Pieces                                                                  *)

\* What is emitted comes behind what is under way.
LEMMA Emitted ==
  ASSUME TypeOK, NEW pieces \in Seq(Pieces), Emit(pieces)
  PROVE  /\ down' \in Seq(Pieces) /\ Len(down) \in Nat
         /\ Len(down') = Len(down) + Len(pieces)
         /\ \A i \in 1 .. Len(down) : down'[i] = down[i]
         /\ \A i \in 1 .. Len(pieces) : down'[Len(down) + i] = pieces[i]
<1>1. down \in Seq(Pieces) /\ down' = down \o pieces
  BY DEF TypeOK, Emit
<1>2. Len(down) \in Nat /\ Len(pieces) \in Nat
  BY <1>1, LenProperties
<1>3. /\ down' \in Seq(Pieces) /\ Len(down') = Len(down) + Len(pieces)
      /\ \A i \in 1 .. Len(down) + Len(pieces) :
            down'[i] = IF i <= Len(down) THEN down[i] ELSE pieces[i - Len(down)]
  BY <1>1, ConcatProperties
<1>4. ASSUME NEW i \in 1 .. Len(pieces)
      PROVE  Len(down) + i \in 1 .. Len(down) + Len(pieces) /\ (Len(down) + i) - Len(down) = i
  BY <1>2
<1>5. \A i \in 1 .. Len(down) : i \in 1 .. Len(down) + Len(pieces) /\ i <= Len(down)
  BY <1>2
<1>6. \A i \in 1 .. Len(down) : down'[i] = down[i]
  BY <1>3, <1>5
<1>7. ASSUME NEW i \in 1 .. Len(pieces) PROVE down'[Len(down) + i] = pieces[i]
  <2>1. ~(Len(down) + i <= Len(down))
    BY <1>2
  <2> QED BY <1>3, <1>4, <2>1
<1> QED BY <1>2, <1>3, <1>6, <1>7

\* What is left when n pieces have been taken.
LEMMA Taken ==
  ASSUME TypeOK, NEW n \in Nat, n <= Len(down), down' = SubSeq(down, n + 1, Len(down))
  PROVE  /\ down' \in Seq(Pieces) /\ Len(down') = Len(down) - n
         /\ \A i \in 1 .. Len(down) - n : down'[i] = down[n + i]
<1>1. Len(down) \in Nat /\ \A i \in 1 .. Len(down) : down[i] \in Pieces
  BY LenProperties, ElementOfSeq DEF TypeOK
<1>2. n + 1 \in Int /\ Len(down) \in Int /\ \A i \in n + 1 .. Len(down) : down[i] \in Pieces
  BY <1>1
<1>3. /\ SubSeq(down, n + 1, Len(down)) \in Seq(Pieces)
      /\ Len(SubSeq(down, n + 1, Len(down))) =
            IF n + 1 <= Len(down) THEN Len(down) - (n + 1) + 1 ELSE 0
      /\ \A i \in 1 .. Len(down) - (n + 1) + 1 :
            SubSeq(down, n + 1, Len(down))[i] = down[(n + 1) + i - 1]
  BY <1>2, SubSeqProperties
<1>4. Len(down') = Len(down) - n
  BY <1>1, <1>3
<1>5. ASSUME NEW i \in 1 .. Len(down) - n PROVE down'[i] = down[n + i]
  <2>1. i \in 1 .. Len(down) - (n + 1) + 1 /\ (n + 1) + i - 1 = n + i
    BY <1>1
  <2>2. SubSeq(down, n + 1, Len(down))[i] = down[(n + 1) + i - 1]
    BY <2>1, <1>3
  <2> QED BY <2>1, <2>2
<1> QED BY <1>3, <1>4, <1>5

\* A read that finds the beginning of a good answer has read two pieces.
LEMMA StatusRead ==
  ASSUME TypeOK, NEW n \in 1 .. Len(down), IsPrefix(<<"status1", "status2">>, SubSeq(down, 1, n))
  PROVE  n >= 2 /\ down[1] = "status1"
<1>1. Len(down) \in Nat /\ \A i \in 1 .. Len(down) : down[i] \in Pieces
  BY LenProperties, ElementOfSeq DEF TypeOK
<1> DEFINE s == SubSeq(down, 1, n)
           t == <<"status1", "status2">>
<1>2. s \in Seq(Pieces) /\ Len(s) = n /\ \A i \in 1 .. n : s[i] = down[i]
  <2>1. 1 \in Int /\ n \in Int /\ \A i \in 1 .. n : down[i] \in Pieces
    BY <1>1
  <2>2. /\ s \in Seq(Pieces) /\ Len(s) = IF 1 <= n THEN n - 1 + 1 ELSE 0
        /\ \A i \in 1 .. n - 1 + 1 : s[i] = down[1 + i - 1]
    BY <2>1, SubSeqProperties
  <2> QED BY <2>2
<1>3. Len(t) = 2 /\ t[1] = "status1"
  OBVIOUS
<1>4. 2 <= Len(s) /\ SubSeq(t, 1, 2) = SubSeq(s, 1, 2)
  BY <1>3 DEF IsPrefix
<1>5. SubSeq(t, 1, 2)[1] = t[1] /\ SubSeq(s, 1, 2)[1] = s[1]
  BY <1>2, <1>4
<1> QED BY <1>2, <1>3, <1>4, <1>5

\* read_exact finds the pieces at the head of what is under way.
LEMMA TakesOne ==
  ASSUME TypeOK, NEW a \in Pieces, Takes(<<a>>)
  PROVE  /\ Len(down) \in Nat /\ Len(down) >= 1 /\ down[1] = a
         /\ down' \in Seq(Pieces) /\ Len(down') = Len(down) - 1
<1>1. Len(down) \in Nat /\ Len(<<a>>) = 1
  BY LenProperties DEF TypeOK
<1>2. Len(down) >= 1 /\ SubSeq(<<a>>, 1, 1) = SubSeq(down, 1, 1)
  BY <1>1 DEF Takes, IsPrefix
<1>3. SubSeq(<<a>>, 1, 1)[1] = a /\ SubSeq(down, 1, 1)[1] = down[1]
  BY <1>2 DEF TypeOK
<1>4. down' = SubSeq(down, 1 + 1, Len(down))
  BY <1>1 DEF Takes
<1> QED BY <1>1, <1>2, <1>3, <1>4, Taken

LEMMA TakesTwo ==
  ASSUME TypeOK, NEW a \in Pieces, NEW b \in Pieces, Takes(<<a, b>>)
  PROVE  /\ Len(down) \in Nat /\ Len(down) >= 2 /\ down[1] = a
         /\ down' \in Seq(Pieces) /\ Len(down') = Len(down) - 2
         /\ \A i \in 1 .. Len(down) - 2 : down'[i] = down[2 + i]
<1> DEFINE t == <<a, b>>
<1>1. Len(down) \in Nat /\ Len(t) = 2 /\ t[1] = a
  BY LenProperties DEF TypeOK
<1>2. Len(down) >= 2 /\ SubSeq(t, 1, 2) = SubSeq(down, 1, 2)
  BY <1>1 DEF Takes, IsPrefix
<1>3. SubSeq(t, 1, 2)[1] = t[1] /\ SubSeq(down, 1, 2)[1] = down[1]
  BY <1>2 DEF TypeOK
<1>4. down' = SubSeq(down, 2 + 1, Len(down))
  BY <1>1 DEF Takes
<1> QED BY <1>1, <1>2, <1>3, <1>4, Taken

\* What the far end answers with.
LEMMA Answers ==
  ASSUME TypeOK
  PROVE  /\ Refuse => \/ request = "http" /\ Emit(<<"refused">>)
                      \/ request = "methods" /\ Emit(<<"mFF">>)
                      \/ request = "auth" /\ Emit(<<"a1">>)
                      \/ request = "connect" /\ Emit(<<"rep5", "bind">>)
         /\ GoOn => \/ request = "methods" /\ (Emit(<<"m0">>) \/ Emit(<<"m2">>))
                    \/ request = "auth" /\ Emit(<<"a0">>)
         /\ Grant => \/ request = "http" /\ Emit(<<"status1", "status2", "head">>)
                     \/ request = "connect" /\ Emit(<<"rep0", "bind">>)
BY DEF TypeOK, Refuse, GoOn, Grant, Emit

LEMMA EmittedOne ==
  ASSUME TypeOK, NEW a \in Pieces, Emit(<<a>>)
  PROVE  /\ down' \in Seq(Pieces) /\ Len(down) \in Nat /\ Len(down') = Len(down) + 1
         /\ \A i \in 1 .. Len(down) : down'[i] = down[i]
         /\ down'[Len(down) + 1] = a
<1> DEFINE t == <<a>>
<1>1. t \in Seq(Pieces) /\ Len(t) = 1 /\ t[1] = a
  OBVIOUS
<1>2. Emit(t)
  OBVIOUS
<1> HIDE DEF t
<1>3. /\ down' \in Seq(Pieces) /\ Len(down) \in Nat
      /\ Len(down') = Len(down) + Len(t)
      /\ \A i \in 1 .. Len(down) : down'[i] = down[i]
      /\ \A i \in 1 .. Len(t) : down'[Len(down) + i] = t[i]
  BY <1>1, <1>2, Emitted
<1> QED BY <1>1, <1>3

LEMMA EmittedTwo ==
  ASSUME TypeOK, NEW a \in Pieces, NEW b \in Pieces, Emit(<<a, b>>)
  PROVE  /\ down' \in Seq(Pieces) /\ Len(down) \in Nat /\ Len(down') = Len(down) + 2
         /\ \A i \in 1 .. Len(down) : down'[i] = down[i]
         /\ down'[Len(down) + 1] = a /\ down'[Len(down) + 2] = b
<1> DEFINE t == <<a, b>>
<1>1. t \in Seq(Pieces) /\ Len(t) = 2 /\ t[1] = a /\ t[2] = b
  OBVIOUS
<1>2. Emit(t)
  OBVIOUS
<1> HIDE DEF t
<1>3. /\ down' \in Seq(Pieces) /\ Len(down) \in Nat
      /\ Len(down') = Len(down) + Len(t)
      /\ \A i \in 1 .. Len(down) : down'[i] = down[i]
      /\ \A i \in 1 .. Len(t) : down'[Len(down) + i] = t[i]
  BY <1>1, <1>2, Emitted
<1> QED BY <1>1, <1>3

LEMMA EmittedThree ==
  ASSUME TypeOK, NEW a \in Pieces, NEW b \in Pieces, NEW c \in Pieces, Emit(<<a, b, c>>)
  PROVE  /\ down' \in Seq(Pieces) /\ Len(down) \in Nat /\ Len(down') = Len(down) + 3
         /\ \A i \in 1 .. Len(down) : down'[i] = down[i]
         /\ down'[Len(down) + 1] = a /\ down'[Len(down) + 2] = b /\ down'[Len(down) + 3] = c
<1> DEFINE t == <<a, b, c>>
<1>1. t \in Seq(Pieces) /\ Len(t) = 3 /\ t[1] = a /\ t[2] = b /\ t[3] = c
  OBVIOUS
<1>2. Emit(t)
  OBVIOUS
<1> HIDE DEF t
<1>3. /\ down' \in Seq(Pieces) /\ Len(down) \in Nat
      /\ Len(down') = Len(down) + Len(t)
      /\ \A i \in 1 .. Len(down) : down'[i] = down[i]
      /\ \A i \in 1 .. Len(t) : down'[Len(down) + i] = t[i]
  BY <1>1, <1>2, Emitted
<1> QED BY <1>1, <1>3

-----------------------------------------------------------------------------
(* Types                                                                   *)

LEMMA InitTyped == Init => TypeOK
<1> SUFFICES ASSUME Init PROVE TypeOK
  OBVIOUS
<1>1. config \in Config /\ MaxHops \in Nat /\ MaxData \in Nat
  BY ConfigsAssumption DEF Init
<1>2. Hops \in Seq(Hop)
  BY <1>1 DEF Config, Hops
<1>3. Len(Hops) \in Nat
  BY <1>2, LenProperties
<1>4. <<>> \in Seq(Pieces)
  OBVIOUS
<1>5. config \in Configs /\ at \in Ats /\ hop \in 0 .. Len(Hops) /\ data \in 0 .. MaxData
  BY <1>1, <1>3 DEF Init, Ats
<1>6. asked \in [Parties -> Parties \union {0}]
  BY DEF Init
<1> QED BY <1>4, <1>5, <1>6 DEF Init, TypeOK

LEMMA FarEndTyped ==
  ASSUME TypeOK, Places, FarEnd \/ TargetSpeaks
  PROVE  TypeOK'
<1>0. Hops' = Hops /\ config' = config
  BY DEF FarEnd, AnswerTls, Refuse, GoOn, Grant, TargetSpeaks, Hops
<1>1. down' \in Seq(Pieces)
  <2>0. CASE AnswerTls
    BY <2>0 DEF AnswerTls, TypeOK
  <2>1. CASE Refuse
    BY <2>1, Answers, EmittedOne, EmittedTwo DEF Pieces
  <2>2. CASE GoOn
    BY <2>2, Answers, EmittedOne DEF Pieces
  <2>3. CASE Grant
    <3>1. Emit(<<"status1", "status2", "head">>) \/ Emit(<<"rep0", "bind">>)
      BY <2>3, Answers
    <3>2. {"status1", "status2", "head", "rep0", "bind"} \subseteq Pieces
      BY DEF Pieces
    <3>3. CASE Emit(<<"status1", "status2", "head">>)
      BY <3>2, <3>3, EmittedThree
    <3>4. CASE Emit(<<"rep0", "bind">>)
      BY <3>2, <3>4, EmittedTwo
    <3> QED BY <3>1, <3>3, <3>4
  <2>4. CASE TargetSpeaks
    BY <2>4, EmittedOne DEF TargetSpeaks, Pieces
  <2> QED BY <2>0, <2>1, <2>2, <2>3, <2>4 DEF FarEnd
<1>2. CASE Refuse
  BY <1>0, <1>1, <1>2 DEF Refuse, TypeOK
<1>3. CASE GoOn
  BY <1>0, <1>1, <1>3 DEF GoOn, TypeOK
<1>4. CASE Grant
  <2>1. far' \in Parties \union {0}
    BY <1>4, HopFacts DEF Grant, TypeOK, Places
  <2> QED BY <1>0, <1>1, <1>4, <2>1 DEF Grant, TypeOK
<1>5. CASE TargetSpeaks
  <2>1. data' \in 0 .. MaxData
    BY <1>5, ConfigsAssumption DEF TargetSpeaks, TypeOK
  <2> QED BY <1>0, <1>1, <1>5, <2>1 DEF TargetSpeaks, TypeOK
<1>6. CASE AnswerTls
  BY <1>0, <1>6 DEF AnswerTls, TypeOK
<1> QED BY <1>2, <1>3, <1>4, <1>5, <1>6 DEF FarEnd

\* The next hop, or none.
LEMMA AdvanceTyped ==
  ASSUME TypeOK, Advance, config' = config
  PROVE  at' \in Ats /\ hop' \in 0 .. Len(Hops)'
<1>1. Hops' = Hops /\ Len(Hops) \in Nat
  BY HopFacts DEF Hops
<1> QED BY <1>1 DEF Advance, TypeOK, Ats

\* The request to connect, and the credentials, name parties.
LEMMA SendsTyped ==
  ASSUME TypeOK, at \in Underway, Places
  PROVE  /\ hop \in 1 .. Len(Hops) /\ far \in Parties /\ NextTarget(hop) \in Parties
         /\ SendsTarget => asked' \in [Parties -> Parties \union {0}]
         /\ SendsCredentials => creds' \subseteq Parties \X Parties \X BOOLEAN
<1>1. hop \in 1 .. Len(Hops) /\ far \in Parties
  BY HopFacts DEF TypeOK, Places
<1>2. hop \in Parties /\ NextTarget(hop) \in Parties
  BY <1>1, HopFacts
<1>3. <<hop, far, wrapped>> \in Parties \X Parties \X BOOLEAN
  BY <1>1, <1>2 DEF TypeOK
<1>4. SendsCredentials => creds' \subseteq Parties \X Parties \X BOOLEAN
  BY <1>3 DEF TypeOK, SendsCredentials
<1> QED BY <1>1, <1>2, <1>4 DEF TypeOK, SendsTarget

LEMMA ProgressTyped ==
  ASSUME TypeOK, Places, Progress \/ IoError
  PROVE  TypeOK'
<1>0. Hops' = Hops /\ config' = config
  BY DEF Progress, IoError, Fail, DialDirect, NoFirstHop, DialFirst, WrapTls, HopFails, PassThrough,
         HttpConnect, ReadHttp, SocksMethods, ReadMethod, ReadAuth, ReadReply, ReadRejected, Hops
<1>1. CASE Fail
  BY <1>0, <1>1 DEF Fail, TypeOK, Ats
<1>2. CASE DialDirect /\ ~Fail
  BY <1>0, <1>2, HopFacts DEF DialDirect, TypeOK, Ats
<1>3. CASE DialFirst /\ ~Fail
  <2>1. Len(Hops) >= 1 /\ Len(Hops) \in Nat /\ 1 \in Parties
    BY <1>3, HopFacts, EmptySeq, LenProperties DEF DialFirst
  <2> QED BY <1>0, <1>3, <2>1 DEF DialFirst, TypeOK, Ats
<1>4. CASE WrapTls
  BY <1>0, <1>4 DEF WrapTls, TypeOK, Ats
<1>5. CASE PassThrough
  BY <1>0, <1>5, AdvanceTyped DEF PassThrough, TypeOK
<1>6. CASE HttpConnect
  BY <1>0, <1>6, SendsTyped DEF HttpConnect, Sends, TypeOK, Ats, Reads, Underway
<1>7. CASE ReadHttp
  <2>1. PICK n \in 1 .. Len(down) : down' = SubSeq(down, n + 1, Len(down))
    BY <1>7 DEF ReadHttp
  <2>2. n \in Nat /\ n <= Len(down)
    BY LenProperties DEF TypeOK
  <2>3. down' \in Seq(Pieces)
    BY <2>1, <2>2, Taken
  <2>4. at' \in Ats /\ hop' \in 0 .. Len(Hops)'
    BY <1>0, <1>7, AdvanceTyped DEF ReadHttp, TypeOK, Ats
  <2> QED BY <1>0, <1>7, <2>3, <2>4 DEF ReadHttp, TypeOK
<1>8. CASE SocksMethods
  BY <1>0, <1>8 DEF SocksMethods, Sends, TypeOK, Ats, Reads
<1>9. CASE ReadMethod
  <2>1. down' \in Seq(Pieces)
    BY <1>9, TakesOne DEF ReadMethod, Pieces
  <2> QED BY <1>0, <1>9, <2>1, SendsTyped DEF ReadMethod, Sends, TypeOK, Ats, Reads, Underway
<1>10. CASE ReadAuth
  <2>1. down' \in Seq(Pieces)
    BY <1>10, TakesOne DEF ReadAuth, Pieces
  <2> QED BY <1>0, <1>10, <2>1, SendsTyped DEF ReadAuth, Sends, TypeOK, Ats, Reads, Underway
<1>11. CASE ReadReply
  <2>1. down' \in Seq(Pieces)
    BY <1>11, TakesTwo DEF ReadReply, Pieces
  <2> QED BY <1>0, <1>11, <2>1, AdvanceTyped DEF ReadReply, TypeOK
<1> QED BY <1>1, <1>2, <1>3, <1>4, <1>5, <1>6, <1>7, <1>8, <1>9, <1>10, <1>11
        DEF Progress, IoError, NoFirstHop, HopFails, ReadRejected

-----------------------------------------------------------------------------
(* Where connect() is                                                      *)

LEMMA PlacesKept ==
  ASSUME TypeOK, Places, Next
  PROVE  Places'
<1>0. Hops' = Hops /\ Target' = Target /\ Len(Hops) \in Nat
  BY HopFacts, SameHops
     DEF Next, FarEnd, AnswerTls, Refuse, GoOn, Grant, TargetSpeaks,
         Progress, IoError, Fail, DialDirect, NoFirstHop, DialFirst, WrapTls, HopFails, PassThrough,
         HttpConnect, ReadHttp, SocksMethods, ReadMethod, ReadAuth, ReadReply, ReadRejected
<1> USE DEF Underway, Reads
<1>1. CASE Refuse
  BY <1>0, <1>1 DEF Refuse, Places
<1>2. CASE GoOn
  BY <1>0, <1>2 DEF GoOn, Places
<1>3. CASE Grant
  BY <1>0, <1>3, HopFacts DEF Grant, Places, TypeOK
<1>4. CASE TargetSpeaks
  BY <1>0, <1>4, HopFacts DEF TargetSpeaks, Places
<1>5. CASE Fail
  BY <1>0, <1>5 DEF Fail, Places
<1>6. CASE DialDirect /\ ~Fail
  BY <1>0, <1>6, HopFacts DEF DialDirect, Places
<1>7. CASE DialFirst /\ ~Fail
  BY <1>0, <1>7 DEF DialFirst, Places, HasAddress
<1>8. CASE WrapTls
  BY <1>0, <1>8 DEF WrapTls, Places, HasAddress
<1>9. CASE PassThrough
  BY <1>0, <1>9 DEF PassThrough, Advance, Places, HasAddress, TypeOK
<1>10. CASE HttpConnect
  <2>1. asked'[far] > 0
    BY <1>10, SendsTyped, HopFacts DEF HttpConnect, SendsTarget, TypeOK
  <2> QED BY <1>0, <1>10, <2>1 DEF HttpConnect, Sends, Places, HasAddress
<1>11. CASE ReadHttp
  BY <1>0, <1>11 DEF ReadHttp, Advance, Places, HasAddress, TypeOK
<1>12. CASE SocksMethods
  BY <1>0, <1>12 DEF SocksMethods, Sends, Places, HasAddress
<1>13. CASE ReadMethod
  <2>1. request' = "connect" => asked'[far] > 0
    BY <1>13, SendsTyped, HopFacts DEF ReadMethod, Sends, SendsTarget, TypeOK
  <2> QED BY <1>0, <1>13, <2>1 DEF ReadMethod, Sends, Places, HasAddress
<1>14. CASE ReadAuth
  <2>1. asked'[far] > 0
    BY <1>14, SendsTyped, HopFacts DEF ReadAuth, SendsTarget, TypeOK
  <2> QED BY <1>0, <1>14, <2>1 DEF ReadAuth, Sends, Places, HasAddress
<1>15. CASE ReadReply
  BY <1>0, <1>15 DEF ReadReply, Advance, Places, HasAddress, TypeOK
<1>16. CASE AnswerTls
  BY <1>0, <1>16 DEF AnswerTls, Places
<1> QED BY <1>1, <1>2, <1>3, <1>4, <1>5, <1>6, <1>7, <1>8, <1>9, <1>10, <1>11, <1>12, <1>13, <1>14,
           <1>15, <1>16
        DEF Next, FarEnd, Progress, IoError, NoFirstHop, HopFails, ReadRejected

LEMMA WrappingKept ==
  ASSUME TypeOK, Places, Wrapping, Next
  PROVE  Wrapping'
<1>0. Hops' = Hops /\ config' = config /\ (WantsTls(config)' <=> WantsTls(config))
  BY SameHops
     DEF Next, FarEnd, AnswerTls, Refuse, GoOn, Grant, TargetSpeaks,
         Progress, IoError, Fail, DialDirect, NoFirstHop, DialFirst, WrapTls, HopFails, PassThrough,
         HttpConnect, ReadHttp, SocksMethods, ReadMethod, ReadAuth, ReadReply, ReadRejected
<1>1. /\ CredentialsInTls <=> (WantsTls(config) => \A c \in creds : c[3])
      /\ CredentialsInTls' <=> (WantsTls(config) => \A c \in creds' : c[3])
  BY <1>0 DEF CredentialsInTls, WantsTls, Hops
<1> USE DEF Reads
<1>2. WantsTls(config) /\ at \in {"handshake"} \union Reads => (SendsCredentials =>
          \A c \in creds' : c[3])
  BY <1>1 DEF SendsCredentials, Wrapping
<1>3. CASE creds' = creds
  <2>1. at' \in {"handshake"} \union Reads /\ WantsTls(config) => wrapped'
    BY <1>0 DEF Next, FarEnd, AnswerTls, Refuse, GoOn, Grant, TargetSpeaks,
         Progress, IoError, Fail, DialDirect, NoFirstHop, DialFirst, WrapTls, HopFails, PassThrough,
         HttpConnect, ReadHttp, SocksMethods, ReadMethod, ReadAuth, ReadReply, ReadRejected,
         Wrapping, Advance
  <2> QED BY <1>0, <1>1, <1>3, <2>1 DEF Wrapping
<1>4. CASE HttpConnect
  BY <1>0, <1>1, <1>2, <1>4 DEF HttpConnect, Wrapping
<1>5. CASE ReadMethod
  BY <1>0, <1>1, <1>2, <1>3, <1>5 DEF ReadMethod, Wrapping
<1> QED BY <1>3, <1>4, <1>5
        DEF Next, FarEnd, AnswerTls, Refuse, GoOn, Grant, TargetSpeaks,
         Progress, IoError, Fail, DialDirect, NoFirstHop, DialFirst, WrapTls, HopFails, PassThrough,
         ReadHttp, SocksMethods, ReadAuth, ReadReply, ReadRejected

-----------------------------------------------------------------------------
(* The far end's steps                                                     *)

\* A read from a proxy: the hop is a proxy and not the target, who alone speaks unasked.
LEMMA Reading ==
  ASSUME TypeOK, Places, Sensible, at \in Reads
  PROVE  /\ hop \in Proxies /\ hop \in 1 .. Len(Hops) /\ far \in Parties
         /\ far = hop => far # Target /\ data = 0
<1>1. hop \in 1 .. Len(Hops) /\ far \in Parties
  BY SendsTyped DEF Underway
<1>2. Hops[hop].kind # "direct"
  BY DEF Places, Reads
<1> QED BY <1>1, <1>2, HopFacts DEF Places, Proxies

\* A refusal is never taken for a good answer: not even behind what an HTTP proxy has left.
LEMMA RefuseKeeps ==
  ASSUME TypeOK, Places, Sensible, Handshakes, Refuse
  PROVE  Handshakes'
<1>0. Hops' = Hops /\ Target' = Target /\ Proxies' = Proxies
      /\ \A i : NextTarget(i)' = NextTarget(i)
  BY SameHops DEF Refuse
<1>1. /\ request # "none" /\ request' = "none"
      /\ UNCHANGED <<config, at, hop, wrapped, far, asked, data, creds>>
  BY DEF Refuse
<1>2. CredentialsStayHome'
  BY <1>0, <1>1 DEF Handshakes, CredentialsStayHome, Sensible
<1>3. at \notin {"tls", "handshake", "ok"}
  BY <1>1 DEF Handshakes, AtHop, AtEnd
<1>4. AtHop' /\ AtEnd'
  BY <1>1, <1>3 DEF AtHop, AtEnd
<1>5. AtHttp'
  <2> SUFFICES ASSUME at = "http" PROVE AtHttp'
    BY <1>1 DEF AtHttp
  <2>1. request = "http" /\ AskedUpTo(hop) /\ far = hop /\ IsRest(down, data)
    BY <1>1 DEF Places, Handshakes, AtHttp
  <2>2. data = 0
    BY <2>1, Reading DEF Reads
  <2>3. Emit(<<"refused">>)
    BY <2>1, Answers
  <2>4. /\ Len(down) \in Nat /\ Len(down') = Len(down) + 1 /\ down' \in Seq(Pieces)
        /\ \A i \in 1 .. Len(down) : down'[i] = down[i]
        /\ down'[Len(down) + 1] = "refused"
    BY <2>3, EmittedOne DEF Pieces
  <2>5. down' # <<>> /\ down'[1] # "status1"
    BY <2>1, <2>2, <2>4 DEF IsRest
  <2>6. AskedUpTo(hop)'
    BY <1>0, <1>1, <2>1 DEF AskedUpTo
  <2> QED BY <1>1, <2>5, <2>6 DEF AtHttp
<1>6. AtSocks'
  <2>1. CASE at = "method"
    <3>1. request = "methods" /\ far = hop /\ AskedUpTo(hop - 1) /\ IsRest(down, data)
      BY <1>1, <2>1 DEF Handshakes, AtSocks
    <3>2. data = 0
      BY <2>1, <3>1, Reading DEF Reads
    <3>3. /\ Len(down) \in Nat /\ Len(down') = Len(down) + 1
          /\ \A i \in 1 .. Len(down) : down'[i] = down[i]
      <4>1. Emit(<<"mFF">>) /\ "mFF" \in Pieces
        BY <3>1, Answers DEF Pieces
      <4> QED BY <4>1, EmittedOne
    <3>4. Len(down') = 1 \/ down'[1] = "head"
      <4>1. Len(down) = 0 \/ (Len(down) = 1 /\ down[1] = "head")
        BY <3>1, <3>2, <3>3 DEF IsRest
      <4> QED BY <3>3, <4>1
    <3>5. AskedUpTo(hop - 1)'
      BY <1>0, <1>1, <3>1 DEF AskedUpTo
    <3> QED BY <1>1, <2>1, <3>1, <3>4, <3>5 DEF AtSocks
  <2>2. CASE at = "auth"
    <3>1. request = "auth" /\ far = hop /\ AskedUpTo(hop - 1) /\ Len(down) = 0
      BY <1>1, <2>2 DEF Handshakes, AtSocks
    <3>2. Len(down') = 1
      <4>1. PICK m \in Pieces : Emit(<<m>>)
        BY <3>1, Answers DEF Pieces
      <4> QED BY <3>1, <4>1, EmittedOne
    <3>3. AskedUpTo(hop - 1)'
      BY <1>0, <1>1, <3>1 DEF AskedUpTo
    <3> QED BY <1>1, <2>2, <3>1, <3>2, <3>3 DEF AtSocks
  <2>3. CASE at = "reply"
    <3>1. request = "connect" /\ far = hop /\ AskedUpTo(hop) /\ down = <<>>
      BY <1>1, <2>3 DEF Handshakes, AtSocks
    <3>2. Len(down') = 2 /\ down'[1] = "rep5"
      BY <3>1, Answers, EmittedTwo DEF Pieces
    <3>3. AskedUpTo(hop)'
      BY <1>0, <1>1, <3>1 DEF AskedUpTo
    <3> QED BY <1>1, <2>3, <3>2, <3>3 DEF AtSocks
  <2> QED BY <1>1, <2>1, <2>2, <2>3 DEF AtSocks
<1> QED BY <1>2, <1>4, <1>5, <1>6 DEF Handshakes

LEMMA GoOnKeeps ==
  ASSUME TypeOK, Places, Sensible, Handshakes, GoOn
  PROVE  Handshakes'
<1>0. Hops' = Hops /\ Target' = Target /\ Proxies' = Proxies
      /\ \A i : NextTarget(i)' = NextTarget(i)
  BY SameHops DEF GoOn
<1>1. /\ request \in {"methods", "auth"} /\ request' = "none"
      /\ UNCHANGED <<config, at, hop, wrapped, far, asked, data, creds>>
  BY DEF GoOn
<1>2. CredentialsStayHome'
  BY <1>0, <1>1 DEF Handshakes, CredentialsStayHome, Sensible
<1>3. at \notin {"tls", "handshake", "ok", "http", "reply"}
  BY <1>1 DEF Handshakes, AtHop, AtEnd, AtSocks, Places
<1>4. AtHop' /\ AtEnd' /\ AtHttp'
  BY <1>1, <1>3 DEF AtHop, AtEnd, AtHttp
<1>5. AtSocks'
  <2>1. CASE at = "method"
    <3>1. request = "methods" /\ far = hop /\ AskedUpTo(hop - 1) /\ IsRest(down, data)
      BY <1>1, <2>1 DEF Handshakes, AtSocks
    <3>2. data = 0
      BY <2>1, <3>1, Reading DEF Reads
    <3>3. /\ Len(down) \in Nat /\ Len(down') = Len(down) + 1
          /\ \A i \in 1 .. Len(down) : down'[i] = down[i]
      <4>1. (Emit(<<"m0">>) \/ Emit(<<"m2">>)) /\ "m0" \in Pieces /\ "m2" \in Pieces
        BY <3>1, Answers DEF Pieces
      <4>2. PICK m \in Pieces : Emit(<<m>>)
        BY <4>1
      <4> QED BY <4>2, EmittedOne
    <3>4. Len(down') = 1 \/ down'[1] = "head"
      <4>1. Len(down) = 0 \/ (Len(down) = 1 /\ down[1] = "head")
        BY <3>1, <3>2, <3>3 DEF IsRest
      <4> QED BY <3>3, <4>1
    <3>5. AskedUpTo(hop - 1)'
      BY <1>0, <1>1, <3>1 DEF AskedUpTo
    <3> QED BY <1>1, <2>1, <3>1, <3>4, <3>5 DEF AtSocks
  <2>2. CASE at = "auth"
    <3>1. request = "auth" /\ far = hop /\ AskedUpTo(hop - 1) /\ Len(down) = 0
      BY <1>1, <2>2 DEF Handshakes, AtSocks
    <3>2. Len(down') = 1
      <4>1. PICK m \in Pieces : Emit(<<m>>)
        BY <3>1, Answers DEF Pieces
      <4> QED BY <3>1, <4>1, EmittedOne
    <3>3. AskedUpTo(hop - 1)'
      BY <1>0, <1>1, <3>1 DEF AskedUpTo
    <3> QED BY <1>1, <2>2, <3>1, <3>2, <3>3 DEF AtSocks
  <2> QED BY <1>1, <1>3, <2>1, <2>2 DEF AtSocks
<1> QED BY <1>2, <1>4, <1>5 DEF Handshakes

\* A good answer comes with a connection to the next hop, or to the target.
LEMMA GrantKeeps ==
  ASSUME TypeOK, Places, Sensible, Handshakes, Grant
  PROVE  Handshakes'
<1>0. Hops' = Hops /\ Target' = Target /\ Proxies' = Proxies
      /\ \A i : NextTarget(i)' = NextTarget(i)
  BY SameHops DEF Grant
<1>1. /\ request \in {"http", "connect"} /\ request' = "none"
      /\ far' = IF far = Target THEN far ELSE asked[far]
      /\ UNCHANGED <<config, at, hop, wrapped, asked, data, creds>>
  BY DEF Grant
<1>2. CredentialsStayHome'
  BY <1>0, <1>1 DEF Handshakes, CredentialsStayHome, Sensible
<1>3. at \notin {"tls", "handshake", "ok", "method", "auth"}
  BY <1>1 DEF Handshakes, AtHop, AtEnd, AtSocks
<1>4. AtHop' /\ AtEnd'
  BY <1>1, <1>3 DEF AtHop, AtEnd
<1>5. ASSUME far = hop, AskedUpTo(hop), at \in Reads
      PROVE  far' = NextTarget(hop) /\ AskedUpTo(hop)' /\ data = 0
  <2>1. hop \in Proxies /\ hop \in 1 .. Len(Hops) /\ far # Target /\ data = 0
    BY <1>5, Reading
  <2>2. far' = NextTarget(hop)
    BY <1>1, <1>5, <2>1, HopFacts DEF AskedUpTo
  <2> QED BY <1>0, <1>1, <1>5, <2>1, <2>2 DEF AskedUpTo
<1>6. AtHttp'
  <2> SUFFICES ASSUME at = "http" PROVE AtHttp'
    BY <1>1 DEF AtHttp
  <2>1. request = "http" /\ AskedUpTo(hop) /\ far = hop /\ IsRest(down, data)
    BY <1>1 DEF Places, Handshakes, AtHttp
  <2>2. data = 0 /\ far' = NextTarget(hop) /\ AskedUpTo(hop)'
    BY <1>5, <2>1 DEF Reads
  <2>3. Emit(<<"status1", "status2", "head">>)
    BY <2>1, Answers
  <2>4. /\ Len(down) \in Nat /\ Len(down') = Len(down) + 3 /\ down' \in Seq(Pieces)
        /\ \A i \in 1 .. Len(down) : down'[i] = down[i]
        /\ down'[Len(down) + 1] = "status1" /\ down'[Len(down) + 2] = "status2"
        /\ down'[Len(down) + 3] = "head"
    <3>1. "status1" \in Pieces /\ "status2" \in Pieces /\ "head" \in Pieces
      BY DEF Pieces
    <3> QED BY <2>3, <3>1, EmittedThree
  <2>5. down'[1] = "status1" => Len(down) = 0
    BY <2>1, <2>2, <2>4 DEF IsRest
  <2>6. NextTarget(hop)' = NextTarget(hop)
    BY <1>0, <1>1, Reading DEF NextTarget
  <2> QED BY <1>1, <2>2, <2>4, <2>5, <2>6 DEF AtHttp
<1>7. AtSocks'
  <2> SUFFICES ASSUME at = "reply" PROVE AtSocks'
    BY <1>1, <1>3 DEF AtSocks
  <2>1. request = "connect" /\ far = hop /\ AskedUpTo(hop) /\ down = <<>>
    BY <1>1 DEF Handshakes, AtSocks
  <2>2. data = 0 /\ far' = NextTarget(hop) /\ AskedUpTo(hop)'
    BY <1>5, <2>1 DEF Reads
  <2>3. Emit(<<"rep0", "bind">>)
    BY <2>1, Answers
  <2>4. Len(down') = 2 /\ down'[2] = "bind"
    BY <2>1, <2>3, EmittedTwo DEF Pieces
  <2>5. NextTarget(hop)' = NextTarget(hop)
    BY <1>0, <1>1, Reading DEF NextTarget
  <2> QED BY <1>1, <2>2, <2>4, <2>5 DEF AtSocks
<1> QED BY <1>2, <1>4, <1>6, <1>7 DEF Handshakes

\* What the target says comes behind everything else.
LEMMA TargetSpeaksKeeps ==
  ASSUME TypeOK, Places, Sensible, Handshakes, TargetSpeaks
  PROVE  Handshakes'
<1>0. Hops' = Hops /\ Target' = Target /\ Proxies' = Proxies /\ (HttpLast' <=> HttpLast)
      /\ \A i : NextTarget(i)' = NextTarget(i) /\ Here(i)' = Here(i)
  BY SameHops DEF TargetSpeaks
<1>1. /\ far = Target /\ data' = data + 1 /\ data \in Nat
      /\ UNCHANGED <<config, at, hop, wrapped, far, asked, request, creds>>
  BY DEF TargetSpeaks, TypeOK
<1>2. /\ Len(down) \in Nat /\ Len(down') = Len(down) + 1 /\ down' \in Seq(Pieces)
      /\ \A i \in 1 .. Len(down) : down'[i] = down[i]
      /\ down'[Len(down) + 1] = "data"
  BY EmittedOne DEF TargetSpeaks, Pieces
<1>3. CredentialsStayHome'
  BY <1>0, <1>1 DEF Handshakes, CredentialsStayHome, Sensible
<1>4. IsRest(down, data) => IsRest(down', data')
  BY <1>1, <1>2 DEF IsRest
<1>6. AtHop'
  <2> SUFFICES ASSUME at \in {"tls", "handshake"} PROVE AtHop'
    BY <1>1 DEF AtHop
  <2>1. /\ far = Here(hop) /\ request = "none" /\ IsRest(down, data) /\ AskedUpTo(hop - 1)
        /\ Hops[hop].kind = "direct" /\ ~HttpLast => Len(down) = data
    BY DEF Handshakes, AtHop
  <2>2. AskedUpTo(hop - 1)'
    BY <1>0, <1>1, <2>1 DEF AskedUpTo
  <2>3. Here(hop)' = Here(hop)
    BY <1>0, <1>1 DEF Here
  <2> QED BY <1>0, <1>1, <1>2, <1>4, <2>1, <2>2, <2>3 DEF AtHop
<1>7. AtHttp'
  <2> SUFFICES ASSUME at = "http" PROVE AtHttp'
    BY <1>1 DEF AtHttp
  <2>1. AskedUpTo(hop)'
    BY <1>0, <1>1 DEF Handshakes, AtHttp, AskedUpTo
  <2>2. request = "none" /\ down # <<>>
    BY <1>1, Reading DEF Reads, Handshakes, AtHttp, Places
  <2>3. Len(down) >= 1 /\ down'[1] = down[1]
    BY <1>2, <2>2, EmptySeq DEF TypeOK
  <2>4. NextTarget(hop)' = NextTarget(hop)
    BY <1>0, <1>1, Reading DEF NextTarget
  <2>5. down[1] = "status1" => /\ far = NextTarget(hop) /\ Len(down) = data + 3
                               /\ down[2] = "status2" /\ down[3] = "head"
                               /\ \A i \in 4 .. Len(down) : down[i] = "data"
    BY <2>2 DEF Handshakes, AtHttp
  <2>6. down'[1] = "status1" => /\ far' = NextTarget(hop)' /\ Len(down') = data' + 3
                                /\ down'[2] = "status2" /\ down'[3] = "head"
                                /\ \A i \in 4 .. Len(down') : down'[i] = "data"
    BY <1>1, <1>2, <2>3, <2>4, <2>5
  <2>7. down' # <<>>
    BY <1>2
  <2> QED BY <1>1, <2>1, <2>2, <2>6, <2>7 DEF AtHttp
<1>8. AtSocks'
  <2> SUFFICES ASSUME at = "reply" PROVE AtSocks'
    BY <1>1, Reading DEF Reads, Handshakes, AtSocks
  <2>1. AskedUpTo(hop)'
    BY <1>0, <1>1 DEF Handshakes, AtSocks, AskedUpTo
  <2>2. request = "none" /\ down # <<>>
    BY <1>1, Reading DEF Reads, Handshakes, AtSocks
  <2>3. Len(down) >= 1 /\ down'[1] = down[1]
    BY <1>2, <2>2, EmptySeq DEF TypeOK
  <2>4. NextTarget(hop)' = NextTarget(hop)
    BY <1>0, <1>1, Reading DEF NextTarget
  <2>5. down[1] = "rep0" => /\ far = NextTarget(hop) /\ Len(down) = data + 2
                            /\ down[2] = "bind"
                            /\ \A i \in 3 .. Len(down) : down[i] = "data"
    BY <2>2 DEF Handshakes, AtSocks
  <2>6. down'[1] = "rep0" => /\ far' = NextTarget(hop)' /\ Len(down') = data' + 2
                             /\ down'[2] = "bind"
                             /\ \A i \in 3 .. Len(down') : down'[i] = "data"
    BY <1>1, <1>2, <2>3, <2>4, <2>5
  <2>7. down' # <<>>
    BY <1>2
  <2> QED BY <1>1, <2>1, <2>2, <2>6, <2>7 DEF AtSocks
<1>9. AtEnd'
  <2> SUFFICES ASSUME at = "ok" PROVE AtEnd'
    BY <1>1 DEF AtEnd
  <2>1. AskedUpTo(Len(Hops))'
    BY <1>0, <1>1 DEF Handshakes, AtEnd, AskedUpTo
  <2> QED BY <1>0, <1>1, <1>2, <1>4, <2>1 DEF Handshakes, AtEnd
<1> QED BY <1>3, <1>6, <1>7, <1>8, <1>9 DEF Handshakes

-----------------------------------------------------------------------------
(* connect()'s steps                                                       *)

LEMMA FailKeeps ==
  ASSUME Sensible, Handshakes, Fail
  PROVE  Handshakes'
<1>1. at' = "err" /\ creds' = creds /\ Hops' = Hops
  BY DEF Fail, Hops
<1>2. AtHop' /\ AtHttp' /\ AtSocks' /\ AtEnd'
  BY <1>1 DEF AtHop, AtHttp, AtSocks, AtEnd
<1>3. CredentialsStayHome'
  BY <1>1 DEF Handshakes, CredentialsStayHome, Sensible
<1> QED BY <1>2, <1>3 DEF Handshakes

\* A stream on which nothing has been said.
LEMMA DialKeeps ==
  ASSUME TypeOK, Places, Sensible, DialDirect \/ DialFirst, ~Fail
  PROVE  Handshakes'
<1>0. /\ Hops' = Hops /\ Target' = Target /\ Proxies' = Proxies /\ (HttpLast' <=> HttpLast)
      /\ Len(Hops) \in Nat
  BY SameHops, HopFacts DEF DialDirect, DialFirst
<1>1. /\ at = "start" /\ request' = "none" /\ data' = 0 /\ creds' = {} /\ down' = <<>>
      /\ UNCHANGED <<config, request, down, data, creds>>
  BY DEF DialDirect, DialFirst, Places
<1>2. CredentialsStayHome'
  BY <1>1 DEF CredentialsStayHome
<1>3. IsRest(down, data)' /\ Len(down') = data'
  BY <1>1 DEF IsRest
<1>4. CASE DialDirect
  <2>1. at' = "ok" /\ far' = Target /\ Len(Hops) = 1 /\ Hops[1].kind = "direct"
    BY <1>4 DEF DialDirect
  <2>2. Proxies = {}
    BY <2>1 DEF Proxies
  <2>3. AskedUpTo(Len(Hops))'
    BY <1>0, <2>2 DEF AskedUpTo
  <2>4. AtEnd'
    BY <1>0, <1>1, <1>3, <2>1, <2>3 DEF AtEnd
  <2> QED BY <1>2, <2>1, <2>4 DEF Handshakes, AtHop, AtHttp, AtSocks
<1>5. CASE DialFirst
  <2>1. /\ at' \in {"tls", "handshake"} /\ far' = 1 /\ hop' = 1
        /\ Hops[1].kind \in {"http", "socks5"}
    BY <1>5 DEF DialFirst, HasAddress
  <2>2. AskedUpTo(hop - 1)'
    BY <1>0, <2>1 DEF AskedUpTo, Proxies
  <2>3. Here(hop)' = 1
    BY <1>0, <2>1 DEF Here
  <2>4. AtHop'
    BY <1>0, <1>1, <1>3, <2>1, <2>2, <2>3 DEF AtHop
  <2> QED BY <1>2, <2>1, <2>4 DEF Handshakes, AtHttp, AtSocks, AtEnd
<1> QED BY <1>4, <1>5

\* Both sides of the TLS handshake.
LEMMA TlsKeeps ==
  ASSUME Sensible, Handshakes, AnswerTls \/ WrapTls
  PROVE  Handshakes'
<1>0. /\ Hops' = Hops /\ Target' = Target /\ Proxies' = Proxies /\ (HttpLast' <=> HttpLast)
      /\ \A i : NextTarget(i)' = NextTarget(i)
  BY SameHops DEF AnswerTls, WrapTls
<1>1. /\ at = "tls" /\ at' \in {"tls", "handshake"}
      /\ UNCHANGED <<config, hop, far, asked, request, down, data, creds>>
  BY DEF AnswerTls, WrapTls
<1>2. CredentialsStayHome'
  BY <1>0, <1>1 DEF Handshakes, CredentialsStayHome, Sensible
<1>3. AskedUpTo(hop - 1)'
  BY <1>0, <1>1 DEF Handshakes, AtHop, AskedUpTo
<1>4. AtHop'
  BY <1>0, <1>1, <1>3 DEF Handshakes, AtHop, Here
<1> QED BY <1>1, <1>2, <1>4 DEF Handshakes, AtHttp, AtSocks, AtEnd

\* The end of a handshake, when the stream has come to the next hop.
LEMMA AdvanceKeeps ==
  ASSUME TypeOK, Sensible, CredentialsStayHome', config' = config, asked' = asked, far' = far,
         Advance, hop \in Proxies,
         far = NextTarget(hop), request' = "none", AskedUpTo(hop), IsRest(down, data)',
         Hops[hop].kind # "http" => Len(down') = data'
  PROVE  Handshakes'
<1>0. /\ Hops' = Hops /\ Target' = Target /\ Proxies' = Proxies /\ (HttpLast' <=> HttpLast)
      /\ \A i : NextTarget(i)' = NextTarget(i)
      /\ Len(Hops) \in Nat /\ hop \in 1 .. Len(Hops)
  BY SameHops, HopFacts, SensibleFacts
<1>1. CASE hop = Len(Hops)
  <2>1. at' = "ok" /\ far' = Target
    BY <1>0, <1>1 DEF Advance, NextTarget
  <2>2. AskedUpTo(Len(Hops))'
    BY <1>0, <1>1 DEF AskedUpTo
  <2>3. ~HttpLast => Hops[hop].kind # "http"
    BY <1>0, <1>1, SensibleFacts DEF HttpLast
  <2>4. AtEnd'
    BY <1>0, <2>1, <2>2, <2>3 DEF AtEnd
  <2> QED BY <2>1, <2>4 DEF Handshakes, AtHop, AtHttp, AtSocks
<1>2. CASE hop # Len(Hops)
  <2>1. at' = "handshake" /\ hop' = hop + 1 /\ hop < Len(Hops)
    BY <1>0, <1>2 DEF Advance
  <2>2. far' = Here(hop)'
    BY <1>0, <2>1, SensibleFacts DEF Here
  <2>3. AskedUpTo(hop - 1)'
    BY <1>0, <2>1 DEF AskedUpTo
  <2>4. Hops[hop + 1].kind = "direct" /\ ~HttpLast => Hops[hop].kind # "http"
    BY <1>0, SensibleFacts DEF HttpLast
  <2>5. AtHop'
    BY <1>0, <2>1, <2>2, <2>3, <2>4 DEF AtHop
  <2> QED BY <2>1, <2>5 DEF Handshakes, AtHttp, AtSocks, AtEnd
<1> QED BY <1>1, <1>2

LEMMA PassThroughKeeps ==
  ASSUME TypeOK, Places, Sensible, Handshakes, PassThrough
  PROVE  Handshakes'
<1>0. /\ Hops' = Hops /\ Target' = Target /\ Proxies' = Proxies /\ (HttpLast' <=> HttpLast)
      /\ \A i : NextTarget(i)' = NextTarget(i)
      /\ Len(Hops) \in Nat /\ hop \in 1 .. Len(Hops)
  BY SameHops, HopFacts, SendsTyped DEF PassThrough, Underway
<1>1. /\ at = "handshake" /\ Hops[hop].kind = "direct"
      /\ UNCHANGED <<config, wrapped, far, asked, request, down, data, creds>>
  BY DEF PassThrough
<1>2. hop = Len(Hops) /\ at' = "ok"
  BY <1>0, <1>1 DEF Sensible, PassThrough, Advance
<1>3. CredentialsStayHome'
  BY <1>0, <1>1 DEF Handshakes, CredentialsStayHome, Sensible
<1>4. \A k \in Proxies : k <= Len(Hops) => k <= hop - 1
  BY <1>0, <1>1, <1>2 DEF Proxies
<1>5. AskedUpTo(Len(Hops))'
  BY <1>0, <1>1, <1>4 DEF Handshakes, AtHop, AskedUpTo
<1>6. AtEnd'
  BY <1>0, <1>1, <1>5 DEF Handshakes, AtHop, AtEnd, Here
<1> QED BY <1>2, <1>3, <1>6 DEF Handshakes, AtHop, AtHttp, AtSocks

\* Hop is asked for its successor, and is the one to be told its credentials.
LEMMA AskKeeps ==
  ASSUME TypeOK, Places, Sensible, CredentialsStayHome, at \in Underway,
         config' = config, hop' = hop, far = hop, far' = far
  PROVE  /\ SendsTarget /\ AskedUpTo(hop - 1) => AskedUpTo(hop)'
         /\ SendsCredentials \/ creds' = creds => CredentialsStayHome'
<1>0. /\ Hops' = Hops /\ Target' = Target /\ Proxies' = Proxies
      /\ \A i : NextTarget(i)' = NextTarget(i)
      /\ hop \in 1 .. Len(Hops) /\ far \in Parties /\ Len(Hops) \in Nat
  BY SameHops, SendsTyped, HopFacts
<1>1. ASSUME SendsTarget, AskedUpTo(hop - 1) PROVE AskedUpTo(hop)'
  <2>1. asked' = [asked EXCEPT ![hop] = NextTarget(hop)] /\ asked'[hop] = NextTarget(hop)
    BY <1>0, <1>1 DEF SendsTarget, TypeOK
  <2>2. \A k \in Proxies : k <= hop - 1 => asked'[k] = NextTarget(k)
    BY <1>0, <1>1, <2>1, HopFacts, SensibleFacts DEF AskedUpTo, TypeOK
  <2>3. \A k \in Proxies : k <= hop => k <= hop - 1 \/ k = hop
    BY <1>0 DEF Proxies
  <2>4. \A k \in Proxies : k <= hop => asked'[k] = NextTarget(k)
    BY <2>1, <2>2, <2>3
  <2> QED BY <1>0, <2>4 DEF AskedUpTo
<1>2. ASSUME SendsCredentials PROVE \A c \in creds' : c[1] = c[2]
  BY <1>2 DEF SendsCredentials, CredentialsStayHome
<1> QED BY <1>0, <1>1, <1>2 DEF CredentialsStayHome, Sensible

LEMMA HttpConnectKeeps ==
  ASSUME TypeOK, Places, Sensible, Handshakes, HttpConnect
  PROVE  Handshakes'
<1>1. /\ at = "handshake" /\ Hops[hop].kind = "http" /\ at' = "http" /\ request' = "http"
      /\ SendsTarget /\ SendsCredentials
      /\ UNCHANGED <<config, hop, wrapped, far, down, data>>
  BY DEF HttpConnect, Sends
<1>2. far = hop /\ IsRest(down, data) /\ AskedUpTo(hop - 1)
  BY <1>1 DEF Handshakes, AtHop, Here
<1>3. AskedUpTo(hop)' /\ CredentialsStayHome'
  BY <1>1, <1>2, AskKeeps DEF Handshakes, Underway
<1>4. AtHttp'
  BY <1>1, <1>2, <1>3 DEF AtHttp
<1> QED BY <1>1, <1>3, <1>4 DEF Handshakes, AtHop, AtSocks, AtEnd

\* Only the answer to this request can be taken for a good one.
LEMMA ReadHttpKeeps ==
  ASSUME TypeOK, Places, Sensible, Handshakes, ReadHttp
  PROVE  Handshakes'
<1>1. /\ at = "http" /\ UNCHANGED <<config, wrapped, far, asked, request, data, creds>>
      /\ Hops[hop].kind = "http" /\ data \in Nat
  BY DEF ReadHttp, Places, TypeOK
<1>2. PICK n \in 1 .. Len(down) :
          /\ down' = SubSeq(down, n + 1, Len(down))
          /\ IF IsPrefix(<<"status1", "status2">>, SubSeq(down, 1, n))
             THEN Advance ELSE at' = "err" /\ UNCHANGED hop
  BY DEF ReadHttp
<1>3. CredentialsStayHome'
  BY <1>1 DEF Handshakes, CredentialsStayHome, Sensible, Hops
<1>4. CASE at' = "err"
  BY <1>3, <1>4 DEF Handshakes, AtHop, AtHttp, AtSocks, AtEnd
<1>5. CASE at' # "err"
  <2>1. Advance /\ n >= 2 /\ down[1] = "status1"
    BY <1>2, <1>5, StatusRead
  <2>2. Len(down) \in Nat /\ n \in Nat /\ n <= Len(down)
    BY LenProperties DEF TypeOK
  <2>3. Len(down') = Len(down) - n /\ \A i \in 1 .. Len(down) - n : down'[i] = down[n + i]
    BY <1>2, <2>2, Taken
  <2>4. request = "none"
    BY <1>1, <2>1, <2>2 DEF Places, Handshakes, AtHttp, IsRest
  <2>5. /\ AskedUpTo(hop) /\ far = NextTarget(hop) /\ Len(down) = data + 3 /\ down[3] = "head"
        /\ \A i \in 4 .. Len(down) : down[i] = "data"
    BY <1>1, <2>1, <2>4 DEF Handshakes, AtHttp
  <2>6. IsRest(down', data')
    <3>1. Len(down') <= data + 1 /\ Len(down') \in Nat
      BY <1>1, <2>1, <2>2, <2>3, <2>5
    <3>2. ASSUME NEW i \in 1 .. Len(down')
          PROVE  down'[i] = IF i = 1 /\ Len(down') = data + 1 THEN "head" ELSE "data"
      <4>1. down'[i] = down[n + i] /\ n + i \in 3 .. Len(down)
            /\ (n + i = 3 <=> i = 1 /\ n = 2) /\ (n = 2 <=> Len(down') = data + 1)
        BY <1>1, <2>1, <2>2, <2>3, <2>5
      <4> QED BY <2>2, <2>5, <4>1
    <3> QED BY <1>1, <3>1, <3>2 DEF IsRest
  <2>7. hop \in Proxies
    BY <1>1, Reading DEF Reads
  <2> QED BY <1>1, <1>3, <2>1, <2>4, <2>5, <2>6, <2>7, AdvanceKeeps
<1> QED BY <1>4, <1>5

LEMMA SocksMethodsKeeps ==
  ASSUME TypeOK, Places, Sensible, Handshakes, SocksMethods
  PROVE  Handshakes'
<1>0. Hops' = Hops /\ Target' = Target /\ Proxies' = Proxies
      /\ \A i : NextTarget(i)' = NextTarget(i)
  BY SameHops DEF SocksMethods
<1>1. /\ at = "handshake" /\ Hops[hop].kind = "socks5" /\ at' = "method" /\ request' = "methods"
      /\ UNCHANGED <<config, hop, wrapped, far, asked, down, data, creds>>
  BY DEF SocksMethods, Sends
<1>2. far = hop /\ IsRest(down, data) /\ AskedUpTo(hop - 1)
  BY <1>1 DEF Handshakes, AtHop, Here
<1>3. AskedUpTo(hop - 1)'
  BY <1>0, <1>1, <1>2 DEF AskedUpTo
<1>4. AtSocks'
  BY <1>1, <1>2, <1>3 DEF AtSocks
<1>5. CredentialsStayHome'
  BY <1>0, <1>1 DEF Handshakes, CredentialsStayHome, Sensible
<1> QED BY <1>1, <1>4, <1>5 DEF Handshakes, AtHop, AtHttp, AtEnd

\* What an HTTP proxy has left is not taken for a method.
LEMMA ReadMethodKeeps ==
  ASSUME TypeOK, Places, Sensible, Handshakes, ReadMethod
  PROVE  Handshakes'
<1>0. Hops' = Hops /\ Target' = Target /\ Proxies' = Proxies
      /\ \A i : NextTarget(i)' = NextTarget(i)
  BY SameHops DEF ReadMethod
<1>1. at = "method" /\ UNCHANGED <<config, hop, wrapped, far, data>>
      /\ far = hop /\ AskedUpTo(hop - 1)
  BY DEF ReadMethod, Handshakes, AtSocks
<1>2. /\ down[1] \in {"m0", "m2"} /\ Len(down) >= 1 /\ Len(down) \in Nat
      /\ down' \in Seq(Pieces) /\ Len(down') = Len(down) - 1
  BY TakesOne DEF ReadMethod, Pieces
<1>3. request = "none"
  BY <1>1, <1>2 DEF Handshakes, AtSocks, IsRest
<1>4. Len(down') = 0 /\ down' = <<>>
  BY <1>1, <1>2, <1>3, EmptySeq DEF Handshakes, AtSocks
<1>5. CredentialsStayHome'
  BY <1>1, AskKeeps DEF Handshakes, ReadMethod, Underway, Reads
<1>6. CASE at' = "reply"
  <2>1. SendsTarget /\ request' = "connect"
    BY <1>6 DEF ReadMethod, Sends
  <2>2. AskedUpTo(hop)'
    BY <1>1, <2>1, AskKeeps DEF Handshakes, Underway, Reads
  <2>3. AtSocks'
    BY <1>1, <1>4, <1>6, <2>1, <2>2 DEF AtSocks
  <2> QED BY <1>5, <1>6, <2>3 DEF Handshakes, AtHop, AtHttp, AtEnd
<1>7. CASE at' = "auth"
  <2>1. asked' = asked /\ request' = "auth"
    BY <1>7 DEF ReadMethod, Sends
  <2>2. AskedUpTo(hop - 1)'
    BY <1>0, <1>1, <2>1 DEF AskedUpTo
  <2>3. AtSocks'
    BY <1>1, <1>4, <1>7, <2>1, <2>2 DEF AtSocks
  <2> QED BY <1>5, <1>7, <2>3 DEF Handshakes, AtHop, AtHttp, AtEnd
<1> QED BY <1>6, <1>7 DEF ReadMethod

LEMMA ReadAuthKeeps ==
  ASSUME TypeOK, Places, Sensible, Handshakes, ReadAuth
  PROVE  Handshakes'
<1>1. /\ at = "auth" /\ at' = "reply" /\ request' = "connect" /\ SendsTarget
      /\ UNCHANGED <<config, hop, wrapped, far, data, creds>>
      /\ far = hop /\ AskedUpTo(hop - 1)
  BY DEF ReadAuth, Sends, Handshakes, AtSocks
<1>2. /\ Len(down) >= 1 /\ Len(down) \in Nat
      /\ down' \in Seq(Pieces) /\ Len(down') = Len(down) - 1
  BY TakesOne DEF ReadAuth, Pieces
<1>3. Len(down') = 0 /\ down' = <<>>
  BY <1>1, <1>2, EmptySeq DEF Handshakes, AtSocks
<1>4. CredentialsStayHome' /\ AskedUpTo(hop)'
  BY <1>1, AskKeeps DEF Handshakes, Underway, Reads
<1>5. AtSocks'
  BY <1>1, <1>3, <1>4 DEF AtSocks
<1> QED BY <1>1, <1>4, <1>5 DEF Handshakes, AtHop, AtHttp, AtEnd

\* Read exactly, the reply leaves what the target has said and nothing else.
LEMMA ReadReplyKeeps ==
  ASSUME TypeOK, Places, Sensible, Handshakes, ReadReply
  PROVE  Handshakes'
<1>1. /\ at = "reply" /\ Hops[hop].kind = "socks5" /\ data \in Nat /\ Advance
      /\ UNCHANGED <<config, wrapped, far, asked, request, data, creds>>
  BY DEF ReadReply, Places, TypeOK
<1>2. /\ Len(down) \in Nat /\ Len(down) >= 2 /\ down[1] = "rep0"
      /\ Len(down') = Len(down) - 2 /\ \A i \in 1 .. Len(down) - 2 : down'[i] = down[2 + i]
  BY TakesTwo DEF ReadReply, Pieces
<1>3. CredentialsStayHome'
  BY <1>1 DEF Handshakes, CredentialsStayHome, Sensible, Hops
<1>4. down # <<>>
  BY <1>2
<1>5. /\ request = "none" /\ AskedUpTo(hop) /\ far = NextTarget(hop)
      /\ Len(down) = data + 2 /\ \A i \in 3 .. Len(down) : down[i] = "data"
  BY <1>1, <1>2, <1>4 DEF Handshakes, AtSocks
<1>6. Len(down') = data /\ \A i \in 1 .. Len(down') : down'[i] = "data"
  BY <1>1, <1>2, <1>5
<1>7. IsRest(down, data)'
  BY <1>1, <1>6 DEF IsRest
<1>8. hop \in Proxies
  BY <1>1, Reading DEF Reads
<1> QED BY <1>1, <1>3, <1>5, <1>6, <1>7, <1>8, AdvanceKeeps

-----------------------------------------------------------------------------
(* The invariant                                                           *)

LEMMA InitInv == Init => IInv
<1> SUFFICES ASSUME Init PROVE IInv
  OBVIOUS
<1>1. TypeOK
  BY InitTyped
<1>2. Places /\ Wrapping
  BY DEF Init, Places, Wrapping, Underway, Reads, CredentialsInTls
<1>3. Handshakes
  BY DEF Init, Handshakes, AtHop, AtHttp, AtSocks, AtEnd, CredentialsStayHome
<1> QED BY <1>1, <1>2, <1>3 DEF IInv

LEMMA NextKeeps == IInv /\ [Next]_vars => IInv'
<1> SUFFICES ASSUME IInv, [Next]_vars PROVE IInv'
  OBVIOUS
<1> USE DEF IInv
<1>1. CASE UNCHANGED vars
  <2>1. TypeOK' /\ Places' /\ Wrapping'
    BY <1>1 DEF vars, TypeOK, Places, Wrapping, Hops, Target, CredentialsInTls
  <2>2. Hops' = Hops /\ Target' = Target /\ Proxies' = Proxies /\ (HttpLast' <=> HttpLast)
        /\ (Sensible' <=> Sensible)
    BY <1>1, SameHops DEF vars
  <2>3. ASSUME Handshakes PROVE Handshakes'
    BY <1>1, <2>2, <2>3
       DEF vars, Handshakes, AtHop, AtHttp, AtSocks, AtEnd, AskedUpTo, CredentialsStayHome,
           NextTarget, Here
  <2> QED BY <2>1, <2>2, <2>3
<1>2. CASE Next
  <2>1. TypeOK'
    BY <1>2, FarEndTyped, ProgressTyped DEF Next
  <2>2. Places' /\ Wrapping'
    BY <1>2, PlacesKept, WrappingKept
  <2>3. config' = config /\ (Sensible' <=> Sensible)
    BY <1>2, SameHops
       DEF Next, FarEnd, AnswerTls, Refuse, GoOn, Grant, TargetSpeaks,
           Progress, IoError, Fail, DialDirect, NoFirstHop, DialFirst, WrapTls, HopFails,
           PassThrough, HttpConnect, ReadHttp, SocksMethods, ReadMethod, ReadAuth, ReadReply,
           ReadRejected
  <2>4. ASSUME Sensible PROVE Handshakes'
    <3>1. CASE FarEnd \/ TargetSpeaks
      BY <2>4, <3>1, TlsKeeps, RefuseKeeps, GoOnKeeps, GrantKeeps, TargetSpeaksKeeps DEF FarEnd
    <3>2. CASE Fail
      BY <2>4, <3>2, FailKeeps
    <3>3. CASE Progress /\ ~Fail
      BY <2>4, <3>3, DialKeeps, TlsKeeps, PassThroughKeeps, HttpConnectKeeps, ReadHttpKeeps,
         SocksMethodsKeeps, ReadMethodKeeps, ReadAuthKeeps, ReadReplyKeeps
         DEF Progress, NoFirstHop, HopFails, ReadRejected
    <3> QED BY <1>2, <3>1, <3>2, <3>3 DEF Next, IoError
  <2> QED BY <2>1, <2>2, <2>3, <2>4
<1> QED BY <1>1, <1>2

LEMMA Invariance == SafeSpec => []IInv
BY InitInv, NextKeeps, PTL DEF SafeSpec

-----------------------------------------------------------------------------
(* What is left in the stream                                              *)

\* A sequence is a suffix when its pieces are the last ones.
LEMMA SuffixByPieces ==
  ASSUME NEW S, NEW s \in Seq(S), NEW t \in Seq(S), Len(s) <= Len(t),
         \A i \in 1 .. Len(s) : s[i] = t[Len(t) - Len(s) + i]
  PROVE  IsSuffix(s, t)
<1> DEFINE n == Len(s)
           r == Reverse(s)
           q == Reverse(t)
<1>1. /\ n \in Nat /\ Len(t) \in Nat
      /\ \A i \in 1 .. n : s[i] \in S
      /\ \A i \in 1 .. Len(t) : t[i] \in S
  BY LenProperties, ElementOfSeq
<1>2. r \in [1 .. n -> S] /\ q \in [1 .. Len(t) -> S]
  BY <1>1 DEF Reverse
<1>3. Len(r) = n /\ Len(q) = Len(t)
  BY <1>1, <1>2 DEF Reverse
<1>4. ASSUME NEW i \in 1 .. n PROVE r[i] = q[i] /\ r[i] \in S
  <2>1. r[i] = s[(n - i) + 1] /\ q[i] = t[(Len(t) - i) + 1]
    BY <1>1 DEF Reverse
  <2>2. (n - i) + 1 \in 1 .. n /\ Len(t) - n + ((n - i) + 1) = (Len(t) - i) + 1
    BY <1>1
  <2>3. s[(n - i) + 1] = t[Len(t) - n + ((n - i) + 1)]
    BY <2>2
  <2> QED BY <1>1, <2>1, <2>2, <2>3
<1> HIDE DEF r, q
<1>5. /\ SubSeq(r, 1, n) \in Seq(S) /\ SubSeq(q, 1, n) \in Seq(S)
      /\ Len(SubSeq(r, 1, n)) = n /\ Len(SubSeq(q, 1, n)) = n
      /\ \A i \in 1 .. n : SubSeq(r, 1, n)[i] = r[i] /\ SubSeq(q, 1, n)[i] = q[i]
  <2>1. 1 \in Int /\ n \in Int /\ n - 1 + 1 = n /\ (1 <= n \/ n = 0)
        /\ \A i \in 1 .. n : r[i] \in S /\ q[i] \in S /\ 1 + i - 1 = i
    BY <1>1, <1>4
  <2> HIDE DEF n
  <2>2. /\ SubSeq(r, 1, n) \in Seq(S)
        /\ Len(SubSeq(r, 1, n)) = IF 1 <= n THEN n - 1 + 1 ELSE 0
        /\ \A i \in 1 .. n - 1 + 1 : SubSeq(r, 1, n)[i] = r[1 + i - 1]
    BY <2>1, SubSeqProperties
  <2>3. /\ SubSeq(q, 1, n) \in Seq(S)
        /\ Len(SubSeq(q, 1, n)) = IF 1 <= n THEN n - 1 + 1 ELSE 0
        /\ \A i \in 1 .. n - 1 + 1 : SubSeq(q, 1, n)[i] = q[1 + i - 1]
    BY <2>1, SubSeqProperties
  <2> QED BY <2>1, <2>2, <2>3
<1>6. SubSeq(r, 1, n) = SubSeq(q, 1, n)
  BY <1>4, <1>5, SeqEqual
<1>7. IsPrefix(r, q)
  BY <1>3, <1>6 DEF IsPrefix
<1> QED BY <1>7 DEF IsSuffix, r, q

\* What the target has said.
LEMMA TargetData ==
  ASSUME TypeOK
  PROVE  LET target == [i \in 1 .. data |-> "data"]
         IN  /\ data \in Nat /\ target \in Seq(Pieces) /\ Len(target) = data
             /\ \A i \in 1 .. data : target[i] = "data"
BY DEF TypeOK, Pieces

LEMMA RestIsSuffix ==
  ASSUME TypeOK, IsRest(down, data)
  PROVE  IsSuffix(down, <<"head">> \o [i \in 1 .. data |-> "data"])
<1> DEFINE target == [i \in 1 .. data |-> "data"]
           t == <<"head">> \o target
<1>1. /\ data \in Nat /\ target \in Seq(Pieces) /\ Len(target) = data
      /\ \A i \in 1 .. data : target[i] = "data"
  BY TargetData
<1>2. <<"head">> \in Seq(Pieces) /\ Len(<<"head">>) = 1 /\ <<"head">>[1] = "head"
  BY DEF Pieces
<1> HIDE DEF target
<1>3. /\ t \in Seq(Pieces) /\ Len(t) = 1 + data
      /\ \A i \in 1 .. 1 + data : t[i] = IF i <= 1 THEN <<"head">>[i] ELSE target[i - 1]
  BY <1>1, <1>2, ConcatProperties
<1>4. \A i \in 1 .. 1 + data : t[i] = IF i = 1 THEN "head" ELSE "data"
  BY <1>1, <1>2, <1>3
<1> HIDE DEF t
<1>5. down \in Seq(Pieces) /\ Len(down) \in Nat
  BY LenProperties DEF TypeOK
<1>6. ASSUME NEW i \in 1 .. Len(down) PROVE down[i] = t[Len(t) - Len(down) + i]
  <2>1. Len(t) - Len(down) + i \in 1 .. 1 + data
        /\ (Len(t) - Len(down) + i = 1 <=> i = 1 /\ Len(down) = data + 1)
    BY <1>1, <1>3, <1>5 DEF IsRest
  <2> QED BY <1>4, <2>1 DEF IsRest
<1>7. Len(down) <= Len(t)
  BY <1>1, <1>3, <1>5 DEF IsRest
<1>8. IsSuffix(down, t)
  BY <1>3, <1>5, <1>6, <1>7, SuffixByPieces
<1> QED BY <1>8 DEF t, target

LEMMA RestIsData ==
  ASSUME TypeOK, IsRest(down, data), Len(down) = data
  PROVE  down = [i \in 1 .. data |-> "data"]
<1>1. data \in Nat /\ \A i \in 1 .. data : down[i] = "data"
  BY DEF IsRest, TypeOK
<1>2. down \in Seq(Pieces)
  BY DEF TypeOK
<1> QED BY <1>1, <1>2, TargetData, SeqEqual

-----------------------------------------------------------------------------
(* The theorems                                                            *)

\* The variables have their types, whatever is configured and whoever is at the far end.
THEOREM TypeCorrect == SafeSpec => []TypeOK
BY Invariance, PTL DEF IInv

\* connect() returns a stream only to the target, and every proxy has been asked for the next
\* one, the last for the target: for chains of any length (chain.rs:43-75).
THEOREM StreamsAlwaysReachTheTarget == SafeSpec => []StreamsReachTheTarget
<1>1. IInv => StreamsReachTheTarget
  <2> SUFFICES ASSUME IInv, at = "ok", Sensible
               PROVE  /\ far = Target
                      /\ \A k \in Proxies : asked[k] = IF k + 1 \in Proxies THEN k + 1 ELSE Target
    BY DEF StreamsReachTheTarget
  <2>1. TypeOK /\ far = Target /\ AskedUpTo(Len(Hops)) /\ Len(Hops) \in Nat
    BY HopFacts DEF IInv, Handshakes, AtEnd
  <2> QED BY <2>1, SensibleFacts DEF AskedUpTo, Proxies
<1> QED BY <1>1, Invariance, PTL

\* A proxy's credentials are told to that proxy and to nobody else (chain.rs:72, :143-149,
\* :198-209).
THEOREM CredentialsAlwaysStayHome == SafeSpec => []CredentialsStayHome
<1>1. IInv => CredentialsStayHome
  BY DEF IInv, Handshakes, CredentialsStayHome
<1> QED BY <1>1, Invariance, PTL

\* With `tls` they are told inside TLS only (http_proxy.rs:21-52, socks5_proxy.rs:20-27).
THEOREM CredentialsAlwaysInTls == SafeSpec => []CredentialsInTls
<1>1. IInv => CredentialsInTls
  BY DEF IInv, Wrapping
<1> QED BY <1>1, Invariance, PTL

\* A stream holds the target's bytes only, however its answers were cut, but for the end of an
\* HTTP proxy's answer (chain.rs:155-168, :172-283).
THEOREM StreamsAlwaysExact == SafeSpec => []StreamsAreExact
<1>1. IInv => StreamsAreExact
  <2> SUFFICES ASSUME IInv, at = "ok", Sensible PROVE StreamsAreExact
    BY DEF StreamsAreExact
  <2>1. TypeOK /\ IsRest(down, data) /\ (~HttpLast => Len(down) = data)
    BY DEF IInv, Handshakes, AtEnd
  <2>2. CASE HttpLast
    BY <2>1, <2>2, RestIsSuffix DEF StreamsAreExact, HttpLast
  <2>3. CASE ~HttpLast
    BY <2>1, <2>3, RestIsData DEF StreamsAreExact, HttpLast
  <2> QED BY <2>2, <2>3
<1> QED BY <1>1, Invariance, PTL
=============================================================================
