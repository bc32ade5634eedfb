-------------------------- MODULE UdpPacketProofs --------------------------
(***************************************************************************)
(* What parse_socks5_udp_packet makes of a packet, whole, cut or damaged.  *)
(***************************************************************************)
EXTENDS UdpPacket, Integers, SequenceTheorems, TLAPS

-----------------------------------------------------------------------------
(* What build_socks5_udp_response writes                                   *)

\* A name comes after a byte with its length.
Extra(a) == IF a.atyp = 3 THEN 1 ELSE 0

\* b is a header of k bytes, a host of n bytes, the port and the body, one after the other.
LaidAt(b, k, n, a, body) ==
    /\ b \in Seq(Byte)
    /\ Len(b) = k + n + 2 + Len(body)
    /\ b[1] = 0 /\ b[2] = 0 /\ b[3] = 0 /\ b[4] = a.atyp
    /\ a.atyp = 3 => b[5] = n
    /\ \A i \in 1 .. n : b[k + i] = a.host[i]
    /\ \A i \in 1 .. 2 : b[k + n + i] = a.port[i]
    /\ \A i \in 1 .. Len(body) : b[k + n + 2 + i] = body[i]

Laid(b, a, body) == LaidAt(b, 4 + Extra(a), Len(a.host), a, body)

\* The pieces of a concatenation.
LEMMA Pieces ==
    ASSUME NEW s \in Seq(Byte), NEW t \in Seq(Byte)
    PROVE  /\ s \o t \in Seq(Byte)
           /\ Len(s) \in Nat /\ Len(t) \in Nat
           /\ Len(s \o t) = Len(s) + Len(t)
           /\ \A i \in 1 .. Len(s) : (s \o t)[i] = s[i]
           /\ \A i \in 1 .. Len(t) : (s \o t)[Len(s) + i] = t[i]
PROOF
<1>1. Len(s) \in Nat /\ Len(t) \in Nat
  BY LenProperties
<1>2. /\ s \o t \in Seq(Byte) /\ Len(s \o t) = Len(s) + Len(t)
      /\ \A i \in 1 .. Len(s) + Len(t) :
            (s \o t)[i] = IF i <= Len(s) THEN s[i] ELSE t[i - Len(s)]
  BY ConcatProperties
<1>3. ASSUME NEW i \in 1 .. Len(s) PROVE (s \o t)[i] = s[i]
  BY <1>1, <1>2
<1>4. ASSUME NEW i \in 1 .. Len(t) PROVE (s \o t)[Len(s) + i] = t[i]
  BY <1>1, <1>2
<1> QED
  BY <1>1, <1>2, <1>3, <1>4

\* The sizes of an address.
LEMMA AddressFacts ==
    ASSUME NEW a \in Address
    PROVE  /\ a.atyp \in {1, 3, 4} /\ a.atyp \in Byte
           /\ a.host \in Seq(Byte) /\ a.port \in Seq(Byte)
           /\ Len(a.port) = 2
           /\ Len(a.host) \in Nat /\ Len(a.host) <= 255
           /\ Extra(a) \in {0, 1}
           /\ a.atyp = 1 => Len(a.host) = 4 /\ Extra(a) = 0
           /\ a.atyp = 3 => Extra(a) = 1
           /\ a.atyp = 4 => Len(a.host) = 16 /\ Extra(a) = 0
           /\ 4 + Extra(a) + Len(a.host) + 2 >= 7
PROOF
<1>1. /\ a \in [atyp : {1, 3, 4}, host : Seq(Byte), port : Seq(Byte)]
      /\ Len(a.port) = 2
      /\ a.atyp = 1 => Len(a.host) = 4
      /\ a.atyp = 3 => Len(a.host) <= 255
      /\ a.atyp = 4 => Len(a.host) = 16
  BY DEF Address
<1>2. a.atyp \in {1, 3, 4} /\ a.host \in Seq(Byte) /\ a.port \in Seq(Byte)
  BY <1>1
<1>3. Len(a.host) \in Nat
  BY <1>2, LenProperties
<1>4. /\ Extra(a) \in {0, 1}
      /\ a.atyp = 1 => Extra(a) = 0
      /\ a.atyp = 3 => Extra(a) = 1
      /\ a.atyp = 4 => Extra(a) = 0
  BY <1>2 DEF Extra
<1>5. a.atyp \in Byte
  BY <1>2 DEF Byte
<1>6. PICK n \in Nat : n = Len(a.host)
  BY <1>3
<1>7. PICK t \in {1, 3, 4} : t = a.atyp
  BY <1>2
<1>8. PICK k \in {0, 1} : k = Extra(a)
  BY <1>4
<1>9. /\ t = 1 => n = 4 /\ k = 0
      /\ t = 3 => n <= 255 /\ k = 1
      /\ t = 4 => n = 16 /\ k = 0
  BY <1>1, <1>4, <1>6, <1>7, <1>8, Zenon
<1>10. n <= 255 /\ 4 + k + n + 2 >= 7
  BY ONLY <1>9
<1>11. Len(a.host) <= 255 /\ 4 + Extra(a) + Len(a.host) + 2 >= 7
  BY <1>6, <1>8, <1>10, Zenon
<1> QED
  BY <1>1, <1>2, <1>3, <1>4, <1>5, <1>11

\* A name's length fits the byte it is cast to.
LEMMA Fits == ASSUME NEW n \in Nat, n <= 255 PROVE n % 256 = n /\ n \in Byte
BY DEF Byte

\* build_socks5_udp_response lays the packet out.
LEMMA BuildLays ==
    ASSUME NEW a \in Address, NEW body \in Seq(Byte)
    PROVE  Laid(Build(a, body), a, body)
PROOF
<1> DEFINE h  == <<0, 0, 0, a.atyp>>
           m  == IF a.atyp = 3 THEN <<Len(a.host) % U8>> ELSE <<>>
           b1 == h \o m
           b2 == b1 \o a.host
           b3 == b2 \o a.port
           b4 == b3 \o body
           k  == 4 + Extra(a)
           n  == Len(a.host)
<1>1. h \in Seq(Byte) /\ Len(h) = 4 /\ h[1] = 0 /\ h[2] = 0 /\ h[3] = 0 /\ h[4] = a.atyp
  <2>1. 0 \in Byte /\ a.atyp \in Byte
    BY AddressFacts DEF Byte
  <2> QED
    BY <2>1
<1>2. m \in Seq(Byte) /\ Len(m) = Extra(a) /\ (a.atyp = 3 => m[1] = n)
  <2>1. CASE a.atyp = 3
    <3>1. n % U8 = n /\ n \in Byte
      BY AddressFacts, Fits, PacketsAssumption
    <3>2. m = <<n>>
      BY <2>1, <3>1, Zenon
    <3> HIDE DEF m, n
    <3> QED
      BY <2>1, <3>1, <3>2 DEF Extra
  <2>2. CASE a.atyp # 3
    BY <2>2 DEF Extra
  <2> QED
    BY <2>1, <2>2
<1>3. Build(a, body) = b4
  BY DEF Build
<1> HIDE DEF h, m
<1>4. /\ b1 \in Seq(Byte) /\ Len(b1) = k
      /\ \A i \in 1 .. 4 : b1[i] = h[i]
      /\ \A i \in 1 .. Extra(a) : b1[4 + i] = m[i]
  <2>1. /\ b1 \in Seq(Byte) /\ Len(b1) = Len(h) + Len(m) /\ Len(m) \in Nat
        /\ \A i \in 1 .. Len(h) : b1[i] = h[i]
        /\ \A i \in 1 .. Len(m) : b1[Len(h) + i] = m[i]
    BY <1>1, <1>2, Pieces
  <2> QED
    BY <1>1, <1>2, <2>1, Zenon
<1>5. /\ b1[1] = 0 /\ b1[2] = 0 /\ b1[3] = 0 /\ b1[4] = a.atyp
      /\ a.atyp = 3 => b1[5] = n
  <2>1. /\ 1 \in 1 .. 4 /\ 2 \in 1 .. 4 /\ 3 \in 1 .. 4 /\ 4 \in 1 .. 4
        /\ 1 \in 1 .. 1 /\ 4 + 1 = 5
    OBVIOUS
  <2>2. a.atyp = 3 => Extra(a) = 1
    BY AddressFacts
  <2> QED
    BY <1>1, <1>2, <1>4, <2>1, <2>2, Zenon
<1> HIDE DEF b1
<1>6. /\ a.host \in Seq(Byte) /\ n \in Nat /\ a.port \in Seq(Byte) /\ Len(a.port) = 2
      /\ Extra(a) \in {0, 1} /\ (a.atyp = 3 => Extra(a) = 1)
  BY AddressFacts
<1>7. /\ b2 \in Seq(Byte) /\ Len(b2) = k + n
      /\ \A i \in 1 .. k : b2[i] = b1[i]
      /\ \A i \in 1 .. n : b2[k + i] = a.host[i]
  <2>1. /\ b2 \in Seq(Byte) /\ Len(b2) = Len(b1) + Len(a.host) /\ Len(a.host) \in Nat
        /\ \A i \in 1 .. Len(b1) : b2[i] = b1[i]
        /\ \A i \in 1 .. Len(a.host) : b2[Len(b1) + i] = a.host[i]
    BY <1>4, <1>6, Pieces
  <2> QED
    BY <1>4, <2>1, Zenon
<1> HIDE DEF b2
<1>8. /\ b3 \in Seq(Byte) /\ Len(b3) = k + n + 2
      /\ \A i \in 1 .. k + n : b3[i] = b2[i]
      /\ \A i \in 1 .. 2 : b3[k + n + i] = a.port[i]
  <2>1. /\ b3 \in Seq(Byte) /\ Len(b3) = Len(b2) + Len(a.port) /\ Len(a.port) \in Nat
        /\ \A i \in 1 .. Len(b2) : b3[i] = b2[i]
        /\ \A i \in 1 .. Len(a.port) : b3[Len(b2) + i] = a.port[i]
    BY <1>7, <1>6, Pieces
  <2> QED
    BY <1>6, <1>7, <2>1, Zenon
<1> HIDE DEF b3
<1>9. /\ b4 \in Seq(Byte) /\ Len(b4) = k + n + 2 + Len(body) /\ Len(body) \in Nat
      /\ \A i \in 1 .. k + n + 2 : b4[i] = b3[i]
      /\ \A i \in 1 .. Len(body) : b4[k + n + 2 + i] = body[i]
  <2>1. /\ b4 \in Seq(Byte) /\ Len(b4) = Len(b3) + Len(body) /\ Len(body) \in Nat
        /\ \A i \in 1 .. Len(b3) : b4[i] = b3[i]
        /\ \A i \in 1 .. Len(body) : b4[Len(b3) + i] = body[i]
    BY <1>8, Pieces
  <2> QED
    BY <1>8, <2>1, Zenon
<1> HIDE DEF b4
<1>10. k \in {4, 5} /\ (a.atyp = 3 => k = 5)
  BY <1>6
<1> HIDE DEF n, k
<1>11. \A i \in 1 .. k : b4[i] = b1[i]
  <2>1. n \in Nat
    BY <1>6
  <2>2. ASSUME NEW i \in 1 .. k PROVE i \in 1 .. k + n /\ i \in 1 .. k + n + 2
    BY <1>10, <2>1
  <2> QED
    BY <1>7, <1>8, <1>9, <2>2, Zenon
<1>12. \A i \in 1 .. n : b4[k + i] = a.host[i]
  <2>1. n \in Nat
    BY <1>6
  <2>2. ASSUME NEW i \in 1 .. n PROVE k + i \in 1 .. k + n /\ k + i \in 1 .. k + n + 2
    BY <1>10, <2>1
  <2> QED
    BY <1>7, <1>8, <1>9, <2>2, Zenon
<1>13. \A i \in 1 .. 2 : b4[k + n + i] = a.port[i]
  <2>1. n \in Nat
    BY <1>6
  <2>2. ASSUME NEW i \in 1 .. 2 PROVE k + n + i \in 1 .. k + n + 2
    BY <1>10, <2>1
  <2> QED
    BY <1>8, <1>9, <2>2, Zenon
<1>14. b4[1] = 0 /\ b4[2] = 0 /\ b4[3] = 0 /\ b4[4] = a.atyp /\ (a.atyp = 3 => b4[5] = n)
  <2>1. /\ 1 \in 1 .. k /\ 2 \in 1 .. k /\ 3 \in 1 .. k /\ 4 \in 1 .. k
        /\ a.atyp = 3 => 5 \in 1 .. k
    BY <1>10
  <2> QED
    BY <1>5, <1>11, <2>1, Zenon
<1>15. Laid(b4, a, body)
  BY <1>9, <1>12, <1>13, <1>14, Zenon DEF Laid, LaidAt, n, k
<1> QED
  BY <1>3, <1>15, Zenon

-----------------------------------------------------------------------------
(* What parse_socks5_udp_packet reads                                      *)

LEMMA ByteFacts == ASSUME NEW x \in Byte PROVE x \in Nat /\ x <= 255
BY DEF Byte

\* A slice that is within its packet.
LEMMA Slice ==
    ASSUME NEW d \in Seq(Byte), NEW m \in Nat, NEW n \in Nat,
           1 <= m, m <= n + 1, n <= Len(d)
    PROVE  /\ SubSeq(d, m, n) \in Seq(Byte)
           /\ Len(SubSeq(d, m, n)) = n - m + 1
           /\ \A i \in 1 .. n - m + 1 : SubSeq(d, m, n)[i] = d[m + i - 1]
PROOF
<1>1. Len(d) \in Nat
  BY LenProperties
<1>2. ASSUME NEW i \in m .. n PROVE d[i] \in Byte
  <2>1. i \in 1 .. Len(d)
    BY <1>1
  <2> QED
    BY <2>1, ElementOfSeq
<1>3. /\ SubSeq(d, m, n) \in Seq(Byte)
      /\ Len(SubSeq(d, m, n)) = IF m <= n THEN n - m + 1 ELSE 0
      /\ \A i \in 1 .. n - m + 1 : SubSeq(d, m, n)[i] = d[m + i - 1]
  BY <1>2, SubSeqProperties
<1>4. (IF m <= n THEN n - m + 1 ELSE 0) = n - m + 1
  OBVIOUS
<1> QED
  BY <1>3, <1>4, Zenon

\* Three zeros, and one of the three address types.
LEMMA HeaderMeans ==
    ASSUME NEW d \in Seq(Byte)
    PROVE  HeaderOk(d) <=> /\ Len(d) >= 7
                           /\ d[1] = 0 /\ d[2] = 0 /\ d[3] = 0
                           /\ d[4] \in {1, 3, 4}
PROOF
<1>1. Len(d) \in Nat
  BY LenProperties
<1>2. ASSUME Len(d) >= 7
      PROVE  SubSeq(d, 1, 3) = <<0, 0, 0>> <=> d[1] = 0 /\ d[2] = 0 /\ d[3] = 0
  <2> DEFINE s == SubSeq(d, 1, 3)
             z == <<0, 0, 0>>
  <2>1. 1 <= 3 + 1 /\ 3 <= Len(d) /\ 3 - 1 + 1 = 3 /\ 1 + 1 - 1 = 1 /\ 1 + 2 - 1 = 2 /\ 1 + 3 - 1 = 3
    BY <1>1, <1>2
  <2>2. s \in Seq(Byte) /\ Len(s) = 3 /\ \A i \in 1 .. 3 : s[i] = d[1 + i - 1]
    BY <2>1, Slice
  <2>3. s[1] = d[1] /\ s[2] = d[2] /\ s[3] = d[3]
    BY <2>2
  <2>4. z \in Seq(Byte) /\ Len(z) = 3 /\ z[1] = 0 /\ z[2] = 0 /\ z[3] = 0
    <3>1. 0 \in Byte
      BY DEF Byte
    <3> QED
      BY <3>1
  <2> HIDE DEF s, z
  <2>5. s = z => d[1] = 0 /\ d[2] = 0 /\ d[3] = 0
    BY <2>3, <2>4, Zenon
  <2>6. ASSUME d[1] = 0 /\ d[2] = 0 /\ d[3] = 0 PROVE s = z
    <3>1. Len(s) = Len(z) /\ \A i \in 1 .. Len(s) : s[i] = z[i]
      BY <2>2, <2>3, <2>4, <2>6
    <3> QED
      BY <2>2, <2>4, <3>1, SeqEqual
  <2> QED
    BY <2>5, <2>6 DEF s, z
<1> QED
  BY <1>2 DEF HeaderOk

\* Where the address of a packet with a good header stands.
LEMMA HostFacts ==
    ASSUME NEW d \in Seq(Byte), HeaderOk(d)
    PROVE  /\ HostAt(d) \in {5, 6}
           /\ HostLen(d) \in Nat /\ HostLen(d) <= 255
           /\ AddressEnd(d) = HostAt(d) + HostLen(d) + 1
           /\ d[4] = 1 => HostAt(d) = 5 /\ HostLen(d) = 4
           /\ d[4] = 3 => HostAt(d) = 6 /\ HostLen(d) = d[5]
           /\ d[4] = 4 => HostAt(d) = 5 /\ HostLen(d) = 16
           /\ d[4] \in {1, 3, 4}
PROOF
<1>1. Len(d) >= 7 /\ d[4] \in {1, 3, 4} /\ Len(d) \in Nat
  BY HeaderMeans, LenProperties
<1>2. d[5] \in Nat /\ d[5] <= 255
  <2>1. 5 \in 1 .. Len(d)
    BY <1>1
  <2>2. d[5] \in Byte
    BY <2>1, ElementOfSeq
  <2> QED
    BY <2>2, ByteFacts, Zenon
<1>3. CASE d[4] = 1
  BY <1>3 DEF HostAt, HostLen, AddressEnd
<1>4. CASE d[4] = 3
  BY <1>2, <1>4 DEF HostAt, HostLen, AddressEnd
<1>5. CASE d[4] = 4
  BY <1>5 DEF HostAt, HostLen, AddressEnd
<1> QED
  BY <1>1, <1>3, <1>4, <1>5

\* The parts of a packet that holds its address and its port.
LEMMA PartFacts ==
    ASSUME NEW d \in Seq(Byte), HeaderOk(d), Len(d) >= AddressEnd(d)
    PROVE  LET h == HostAt(d)
               n == HostLen(d)
               host == SubSeq(d, h, h + n - 1)
               port == SubSeq(d, h + n, h + n + 1)
               body == SubSeq(d, h + n + 2, Len(d))
           IN  /\ host \in Seq(Byte) /\ Len(host) = n
               /\ \A i \in 1 .. n : host[i] = d[h - 1 + i]
               /\ port \in Seq(Byte) /\ Len(port) = 2
               /\ \A i \in 1 .. 2 : port[i] = d[h - 1 + n + i]
               /\ body \in Seq(Byte) /\ Len(body) = Len(d) - (h + n + 1)
               /\ \A i \in 1 .. Len(d) - (h + n + 1) : body[i] = d[h - 1 + n + 2 + i]
PROOF
<1>1. PICK h \in {5, 6} : h = HostAt(d)
  BY HostFacts
<1>2. PICK n \in Nat : n = HostLen(d)
  BY HostFacts
<1>3. PICK l \in Nat : l = Len(d)
  BY LenProperties
<1>4. l >= h + n + 1
  BY <1>1, <1>2, <1>3, HostFacts
<1> DEFINE host == SubSeq(d, h, h + n - 1)
           port == SubSeq(d, h + n, h + n + 1)
           body == SubSeq(d, h + n + 2, l)
<1>5. host \in Seq(Byte) /\ Len(host) = n /\ \A i \in 1 .. n : host[i] = d[h - 1 + i]
  <2>1. /\ h \in Nat /\ h + n - 1 \in Nat /\ 1 <= h /\ h <= h + n - 1 + 1 /\ h + n - 1 <= l
        /\ h + n - 1 - h + 1 = n
    BY <1>4
  <2>2. h + n - 1 <= Len(d)
    BY <1>3, <2>1, Zenon
  <2>3. host \in Seq(Byte) /\ Len(host) = h + n - 1 - h + 1
        /\ \A i \in 1 .. h + n - 1 - h + 1 : host[i] = d[h + i - 1]
    BY <2>1, <2>2, Slice
  <2>4. \A i \in 1 .. n : h + i - 1 = h - 1 + i
    OBVIOUS
  <2> QED
    BY <2>1, <2>3, <2>4, Zenon
<1>6. port \in Seq(Byte) /\ Len(port) = 2 /\ \A i \in 1 .. 2 : port[i] = d[h - 1 + n + i]
  <2>1. /\ h + n \in Nat /\ h + n + 1 \in Nat /\ 1 <= h + n /\ h + n <= h + n + 1 + 1 /\ h + n + 1 <= l
        /\ h + n + 1 - (h + n) + 1 = 2
    BY <1>4
  <2>2. h + n + 1 <= Len(d)
    BY <1>3, <2>1, Zenon
  <2>3. port \in Seq(Byte) /\ Len(port) = h + n + 1 - (h + n) + 1
        /\ \A i \in 1 .. h + n + 1 - (h + n) + 1 : port[i] = d[h + n + i - 1]
    BY <2>1, <2>2, Slice
  <2>4. \A i \in 1 .. 2 : h + n + i - 1 = h - 1 + n + i
    OBVIOUS
  <2> QED
    BY <2>1, <2>3, <2>4, Zenon
<1>7. /\ body \in Seq(Byte) /\ Len(body) = l - (h + n + 1)
      /\ \A i \in 1 .. l - (h + n + 1) : body[i] = d[h - 1 + n + 2 + i]
  <2>1. /\ h + n + 2 \in Nat /\ 1 <= h + n + 2 /\ h + n + 2 <= l + 1 /\ l <= l
        /\ l - (h + n + 2) + 1 = l - (h + n + 1)
    BY <1>4
  <2>2. l <= Len(d)
    BY <1>3, <2>1, Zenon
  <2>3. body \in Seq(Byte) /\ Len(body) = l - (h + n + 2) + 1
        /\ \A i \in 1 .. l - (h + n + 2) + 1 : body[i] = d[h + n + 2 + i - 1]
    BY <2>1, <2>2, Slice
  <2>4. \A i \in 1 .. l - (h + n + 1) : h + n + 2 + i - 1 = h - 1 + n + 2 + i
    BY <1>4
  <2> QED
    BY <2>1, <2>3, <2>4, Zenon
<1> QED
  BY <1>1, <1>2, <1>3, <1>5, <1>6, <1>7, Zenon

-----------------------------------------------------------------------------
(* What is accepted is rebuilt                                             *)

LEMMA Rebuilt ==
    ASSUME NEW d \in Seq(Byte), Parse(d).ok
    PROVE  Build(Parse(d).addr, Parse(d).body) = d
PROOF
<1>1. HeaderOk(d)
  BY DEF Parse, Rejected
<1>2. PICK h \in {5, 6} : h = HostAt(d)
  BY <1>1, HostFacts
<1>3. PICK n \in Nat : n = HostLen(d)
  BY <1>1, HostFacts
<1>4. PICK l \in Nat : l = Len(d)
  BY LenProperties
<1> DEFINE host == SubSeq(d, h, h + n - 1)
           port == SubSeq(d, h + n, h + n + 1)
           body == SubSeq(d, h + n + 2, l)
           a    == [atyp |-> d[4], host |-> host, port |-> port]
<1>5. ~(Len(d) < AddressEnd(d))
  BY <1>1 DEF Parse, Rejected
<1>6. AddressEnd(d) = h + n + 1
  BY <1>1, <1>2, <1>3, HostFacts, Zenon
<1>7. l >= h + n + 1
  <2>1. ~(l < h + n + 1)
    BY <1>4, <1>5, <1>6, Zenon
  <2> QED
    BY <2>1
<1>8. Parse(d).addr = a /\ Parse(d).body = body
  <2>1. ~(d[4] = 3 /\ ToSet(host) \intersect NotUtf8 # {})
    BY <1>1, <1>2, <1>3, <1>5, Zenon DEF Parse, Rejected
  <2>2. Parse(d) = [ok |-> TRUE, addr |-> a, body |-> body]
    BY <1>1, <1>2, <1>3, <1>4, <1>5, <2>1, Zenon DEF Parse
  <2> QED
    BY <2>2
<1>9. Len(d) >= AddressEnd(d)
  BY <1>4, <1>6, <1>7, Zenon
<1>10. /\ host \in Seq(Byte) /\ Len(host) = n
       /\ \A i \in 1 .. n : host[i] = d[h - 1 + i]
       /\ port \in Seq(Byte) /\ Len(port) = 2
       /\ \A i \in 1 .. 2 : port[i] = d[h - 1 + n + i]
       /\ body \in Seq(Byte) /\ Len(body) = l - (h + n + 1)
       /\ \A i \in 1 .. l - (h + n + 1) : body[i] = d[h - 1 + n + 2 + i]
  BY <1>1, <1>2, <1>3, <1>4, <1>9, PartFacts, Zenon
<1>11. /\ d[4] = 1 => h = 5 /\ n = 4
       /\ d[4] = 3 => h = 6 /\ n = d[5]
       /\ d[4] = 4 => h = 5 /\ n = 16
       /\ d[4] \in {1, 3, 4} /\ n <= 255
  BY <1>1, <1>2, <1>3, HostFacts, Zenon
<1> HIDE DEF host, port, body
<1>12. a \in Address /\ a.host = host /\ a.port = port /\ a.atyp = d[4] /\ Extra(a) = h - 5
  <2>1. a.host = host /\ a.port = port /\ a.atyp = d[4]
    OBVIOUS
  <2>2. a \in [atyp : {1, 3, 4}, host : Seq(Byte), port : Seq(Byte)]
    BY <1>10, <1>11
  <2>3. Extra(a) = h - 5
    BY <1>11, <2>1 DEF Extra
  <2> HIDE DEF a
  <2>4. a \in Address
    BY <1>10, <1>11, <2>1, <2>2, Zenon DEF Address
  <2> QED
    BY <2>1, <2>3, <2>4
<1> HIDE DEF a
<1> DEFINE b == Build(a, body)
<1>13. Laid(b, a, body)
  BY <1>10, <1>12, BuildLays
<1> HIDE DEF b
<1>14. 4 + Extra(a) = h - 1 /\ h - 1 + n + 2 + (l - (h + n + 1)) = l
  BY <1>7, <1>12
<1>15. /\ b \in Seq(Byte) /\ Len(b) = l
       /\ b[1] = 0 /\ b[2] = 0 /\ b[3] = 0 /\ b[4] = d[4]
       /\ d[4] = 3 => b[5] = n
       /\ \A i \in 1 .. n : b[h - 1 + i] = host[i]
       /\ \A i \in 1 .. 2 : b[h - 1 + n + i] = port[i]
       /\ \A i \in 1 .. l - (h + n + 1) : b[h - 1 + n + 2 + i] = body[i]
  <2>1. LaidAt(b, h - 1, n, a, body)
    BY <1>10, <1>12, <1>13, <1>14, Zenon DEF Laid
  <2> QED
    <3>1. /\ b \in Seq(Byte) /\ Len(b) = h - 1 + n + 2 + Len(body)
          /\ b[1] = 0 /\ b[2] = 0 /\ b[3] = 0 /\ b[4] = a.atyp
          /\ a.atyp = 3 => b[5] = n
          /\ \A i \in 1 .. n : b[h - 1 + i] = a.host[i]
          /\ \A i \in 1 .. 2 : b[h - 1 + n + i] = a.port[i]
          /\ \A i \in 1 .. Len(body) : b[h - 1 + n + 2 + i] = body[i]
      BY <2>1, Zenon DEF LaidAt
    <3>2. Len(b) = l
      BY <1>10, <1>14, <3>1, Zenon
    <3>3. b[4] = d[4] /\ (d[4] = 3 => b[5] = n)
      BY <1>12, <3>1, Zenon
    <3>4. /\ \A i \in 1 .. n : b[h - 1 + i] = host[i]
          /\ \A i \in 1 .. 2 : b[h - 1 + n + i] = port[i]
      BY <1>12, <3>1, Zenon
    <3>5. 1 .. Len(body) = 1 .. l - (h + n + 1)
      BY <1>10, Zenon
    <3>6. \A i \in 1 .. l - (h + n + 1) : b[h - 1 + n + 2 + i] = body[i]
      BY <3>1, <3>5, Zenon
    <3> QED
      BY <3>1, <3>2, <3>3, <3>4, <3>6, Zenon
<1>16. ASSUME NEW j \in 1 .. l PROVE b[j] = d[j]
  <2>1. CASE j <= 4
    <3>1. d[1] = 0 /\ d[2] = 0 /\ d[3] = 0
      BY <1>1, HeaderMeans
    <3>2. j \in {1, 2, 3, 4}
      BY <2>1
    <3> QED
      BY <1>15, <3>1, <3>2, Zenon
  <2>2. CASE j = 5 /\ h = 6
    <3>1. d[4] = 3 /\ n = d[5]
      BY <1>11, <2>2
    <3> QED
      BY <1>15, <2>2, <3>1, Zenon
  <2>3. CASE h - 1 < j /\ j <= h - 1 + n
    <3>1. PICK i \in 1 .. n : j = h - 1 + i
      <4>1. j - (h - 1) \in 1 .. n /\ j = h - 1 + (j - (h - 1))
        BY <2>3
      <4> QED
        BY <4>1
    <3> QED
      BY <1>10, <1>15, <3>1, Zenon
  <2>4. CASE h - 1 + n < j /\ j <= h - 1 + n + 2
    <3>1. PICK i \in 1 .. 2 : j = h - 1 + n + i
      <4>1. j - (h - 1 + n) \in 1 .. 2 /\ j = h - 1 + n + (j - (h - 1 + n))
        BY <2>4
      <4> QED
        BY <4>1
    <3>2. b[h - 1 + n + i] = port[i]
      BY <1>15, Zenon
    <3>3. port[i] = d[h - 1 + n + i]
      BY <1>10, Zenon
    <3> QED
      BY <3>1, <3>2, <3>3, Zenon
  <2>5. CASE h - 1 + n + 2 < j
    <3>1. PICK i \in 1 .. l - (h + n + 1) : j = h - 1 + n + 2 + i
      <4>1. /\ j - (h - 1 + n + 2) \in 1 .. l - (h + n + 1)
            /\ j = h - 1 + n + 2 + (j - (h - 1 + n + 2))
        BY <2>5
      <4> QED
        BY <4>1
    <3>2. b[h - 1 + n + 2 + i] = body[i]
      BY <1>15, Zenon
    <3>3. body[i] = d[h - 1 + n + 2 + i]
      BY <1>10, Zenon
    <3> QED
      BY <3>1, <3>2, <3>3, Zenon
  <2> QED
    BY <2>1, <2>2, <2>3, <2>4, <2>5
<1>17. b = d
  <2>1. Len(b) = Len(d) /\ \A j \in 1 .. Len(b) : b[j] = d[j]
    BY <1>4, <1>15, <1>16, Zenon
  <2> QED
    BY <1>15, <2>1, SeqEqual
<1> QED
  BY <1>8, <1>17, Zenon DEF b

-----------------------------------------------------------------------------
(* What is sent is understood                                              *)

LEMMA PrefixFacts ==
    ASSUME NEW d \in Seq(Byte), NEW w \in Seq(Byte), IsPrefix(d, w)
    PROVE  Len(d) <= Len(w) /\ \A i \in 1 .. Len(d) : d[i] = w[i]
PROOF
<1>1. PICK l \in Nat : l = Len(d)
  BY LenProperties
<1>2. l <= Len(w) /\ SubSeq(d, 1, l) = SubSeq(w, 1, l)
  BY <1>1, Zenon DEF IsPrefix
<1>3. 1 <= l + 1 /\ l <= l /\ l - 1 + 1 = l
  OBVIOUS
<1>4. l <= Len(d)
  BY <1>1, <1>3, Zenon
<1>5. \A i \in 1 .. l : SubSeq(d, 1, l)[i] = d[1 + i - 1]
  BY <1>3, <1>4, Slice
<1>6. \A i \in 1 .. l : SubSeq(w, 1, l)[i] = w[1 + i - 1]
  BY <1>2, <1>3, Slice
<1>7. \A i \in 1 .. l : 1 + i - 1 = i
  OBVIOUS
<1>8. \A i \in 1 .. l : d[i] = w[i]
  BY <1>2, <1>5, <1>6, <1>7, Zenon
<1> QED
  BY <1>1, <1>2, <1>8, Zenon

\* A prefix of what was built for a: rejected while the address is not whole, and a, with
\* what there is of the body, from then on.
LEMMA Understood ==
    ASSUME NEW a \in Address, NEW body \in Seq(Byte), NEW d \in Seq(Byte),
           IsPrefix(d, Build(a, body))
    PROVE  LET e == 4 + Extra(a) + Len(a.host) + 2 IN
           /\ Len(d) < e => Parse(d) = Rejected
           /\ Len(d) >= e =>
                 Parse(d) = IF a.atyp = 3 /\ ToSet(a.host) \intersect NotUtf8 # {}
                            THEN Rejected
                            ELSE [ok |-> TRUE, addr |-> a,
                                  body |-> SubSeq(body, 1, Len(d) - e)]
PROOF
<1> DEFINE w == Build(a, body)
<1>1. Laid(w, a, body)
  BY BuildLays
<1> HIDE DEF w
<1>2. PICK k \in {4, 5} : k = 4 + Extra(a)
  BY AddressFacts
<1>3. PICK n \in Nat : n = Len(a.host)
  BY AddressFacts
<1>4. PICK l \in Nat : l = Len(d)
  BY LenProperties
<1>5. PICK m \in Nat : m = Len(body)
  BY LenProperties
<1>6. LaidAt(w, k, n, a, body)
  BY <1>1, <1>2, <1>3, Zenon DEF Laid
<1>7. /\ w \in Seq(Byte) /\ Len(w) = k + n + 2 + m
      /\ w[1] = 0 /\ w[2] = 0 /\ w[3] = 0 /\ w[4] = a.atyp
      /\ a.atyp = 3 => w[5] = n
      /\ \A i \in 1 .. n : w[k + i] = a.host[i]
      /\ \A i \in 1 .. 2 : w[k + n + i] = a.port[i]
      /\ \A i \in 1 .. m : w[k + n + 2 + i] = body[i]
  BY <1>5, <1>6, Zenon DEF LaidAt
<1>8. l <= k + n + 2 + m /\ \A i \in 1 .. l : d[i] = w[i]
  BY <1>4, <1>7, PrefixFacts, Zenon DEF w
<1>9. /\ a.atyp \in {1, 3, 4} /\ k + n + 2 >= 7
      /\ a.atyp = 1 => k = 4 /\ n = 4
      /\ a.atyp = 3 => k = 5
      /\ a.atyp = 4 => k = 4 /\ n = 16
      /\ a.host \in Seq(Byte) /\ a.port \in Seq(Byte) /\ Len(a.port) = 2
  <2>1. a.atyp = 3 => Extra(a) = 1 /\ 4 + Extra(a) = 5
    BY AddressFacts
  <2>2. Extra(a) = 0 => 4 + Extra(a) = 4
    OBVIOUS
  <2> QED
    BY <1>2, <1>3, <2>1, <2>2, AddressFacts, Zenon
<1>10. CASE l < 7
  <2>1. ~HeaderOk(d)
    BY <1>4, <1>10, HeaderMeans
  <2>2. Parse(d) = Rejected
    BY <2>1 DEF Parse
  <2>3. ~(l >= k + n + 2)
    BY <1>9, <1>10
  <2> QED
    BY <1>2, <1>3, <1>4, <2>2, <2>3, Zenon
<1>11. CASE l >= 7
  <2>1. /\ 1 \in 1 .. l /\ 2 \in 1 .. l /\ 3 \in 1 .. l /\ 4 \in 1 .. l /\ 5 \in 1 .. l
        /\ 7 <= l
    BY <1>11
  <2>2. /\ d[1] = 0 /\ d[2] = 0 /\ d[3] = 0 /\ d[4] = a.atyp
        /\ a.atyp = 3 => d[5] = n
    BY <1>7, <1>8, <2>1, Zenon
  <2>3. HeaderOk(d)
    BY <1>4, <1>9, <1>11, <2>2, HeaderMeans
  <2>4. HostAt(d) = k + 1 /\ HostLen(d) = n
    BY <1>9, <2>2, <2>3, HostFacts
  <2>5. PICK h \in {5, 6} : h = k + 1
    OBVIOUS
  <2>6. h = HostAt(d) /\ n = HostLen(d)
    BY <2>4, <2>5, Zenon
  <2>7. AddressEnd(d) = k + n + 2
    <3>1. k + 1 + n + 1 = k + n + 2
      OBVIOUS
    <3> QED
      BY <2>3, <2>4, <3>1, HostFacts, Zenon
  <2>8. CASE l < k + n + 2
    <3>1. Parse(d) = Rejected
      BY <1>4, <2>3, <2>7, <2>8, Zenon DEF Parse
    <3>2. ~(l >= k + n + 2)
      BY <2>8
    <3> QED
      BY <1>2, <1>3, <1>4, <3>1, <3>2, Zenon
  <2>9. CASE l >= k + n + 2
    <3> DEFINE host  == SubSeq(d, h, h + n - 1)
               port  == SubSeq(d, h + n, h + n + 1)
               rest  == SubSeq(d, h + n + 2, Len(d))
               right == SubSeq(body, 1, l - (k + n + 2))
    <3>1. ~(l < k + n + 2)
      BY <2>9
    <3>2. ~(Len(d) < AddressEnd(d)) /\ Len(d) >= AddressEnd(d)
      BY <1>4, <2>7, <2>9, <3>1, Zenon
    <3>3. Parse(d) = IF a.atyp = 3 /\ ToSet(host) \intersect NotUtf8 # {}
                     THEN Rejected
                     ELSE [ok   |-> TRUE,
                           addr |-> [atyp |-> a.atyp, host |-> host, port |-> port],
                           body |-> rest]
      BY <2>2, <2>3, <2>6, <3>2, Zenon DEF Parse
    <3>4. /\ host \in Seq(Byte) /\ Len(host) = n
          /\ \A i \in 1 .. n : host[i] = d[h - 1 + i]
          /\ port \in Seq(Byte) /\ Len(port) = 2
          /\ \A i \in 1 .. 2 : port[i] = d[h - 1 + n + i]
          /\ rest \in Seq(Byte) /\ Len(rest) = l - (h + n + 1)
          /\ \A i \in 1 .. l - (h + n + 1) : rest[i] = d[h - 1 + n + 2 + i]
      BY <1>4, <2>3, <2>6, <3>2, PartFacts, Zenon
    <3>5. /\ right \in Seq(Byte) /\ Len(right) = l - (k + n + 2)
          /\ \A i \in 1 .. l - (k + n + 2) : right[i] = body[i]
      <4>1. /\ l - (k + n + 2) \in Nat /\ 1 <= l - (k + n + 2) + 1 /\ l - (k + n + 2) <= m
            /\ l - (k + n + 2) - 1 + 1 = l - (k + n + 2)
            /\ \A i \in 1 .. l - (k + n + 2) : 1 + i - 1 = i
        BY <1>8, <2>9
      <4>2. l - (k + n + 2) <= Len(body)
        BY <1>5, <4>1, Zenon
      <4>3. /\ right \in Seq(Byte) /\ Len(right) = l - (k + n + 2) - 1 + 1
            /\ \A i \in 1 .. l - (k + n + 2) - 1 + 1 : right[i] = body[1 + i - 1]
        BY <4>1, <4>2, Slice
      <4> QED
        BY <4>1, <4>3, Zenon
    <3> HIDE DEF host, port, rest, right
    <3>6. h - 1 = k /\ h + n + 1 = k + n + 2
      BY <2>5
    <3>7. /\ \A i \in 1 .. n : k + i \in 1 .. l
          /\ \A i \in 1 .. 2 : k + n + i \in 1 .. l
          /\ \A i \in 1 .. l - (k + n + 2) : k + n + 2 + i \in 1 .. l /\ i \in 1 .. m
      BY <1>8, <2>9
    <3>8. host = a.host
      <4>1. \A i \in 1 .. n : host[i] = a.host[i]
        <5>1. \A i \in 1 .. n : host[i] = d[k + i]
          BY <3>4, <3>6, Zenon
        <5>2. \A i \in 1 .. n : d[k + i] = a.host[i]
          BY <1>7, <1>8, <3>7, Zenon
        <5> QED
          BY <5>1, <5>2, Zenon
      <4> QED
        BY <1>3, <1>9, <3>4, <4>1, SeqEqual
    <3>9. port = a.port
      <4>1. \A i \in 1 .. 2 : port[i] = a.port[i]
        <5>1. \A i \in 1 .. 2 : port[i] = d[k + n + i]
          BY <3>4, <3>6, Zenon
        <5>2. \A i \in 1 .. 2 : d[k + n + i] = a.port[i]
          BY <1>7, <1>8, <3>7, Zenon
        <5> QED
          BY <5>1, <5>2, Zenon
      <4>2. Len(port) = Len(a.port) /\ \A i \in 1 .. Len(port) : port[i] = a.port[i]
        BY <1>9, <3>4, <4>1, Zenon
      <4> QED
        BY <1>9, <3>4, <4>2, SeqEqual
    <3>10. rest = right
      <4>1. \A i \in 1 .. l - (k + n + 2) : rest[i] = right[i]
        <5>1. \A i \in 1 .. l - (k + n + 2) : rest[i] = d[k + n + 2 + i]
          BY <3>4, <3>6, Zenon
        <5>2. \A i \in 1 .. l - (k + n + 2) : d[k + n + 2 + i] = body[i]
          BY <1>7, <1>8, <3>7, Zenon
        <5> QED
          BY <3>5, <5>1, <5>2, Zenon
      <4>2. Len(rest) = Len(right) /\ \A i \in 1 .. Len(rest) : rest[i] = right[i]
        BY <3>4, <3>5, <3>6, <4>1, Zenon
      <4> QED
        BY <3>4, <3>5, <4>2, SeqEqual
    <3>11. [atyp |-> a.atyp, host |-> a.host, port |-> a.port] = a
      <4>1. a \in [atyp : {1, 3, 4}, host : Seq(Byte), port : Seq(Byte)]
        BY DEF Address
      <4> QED
        BY <4>1
    <3>12. Parse(d) = IF a.atyp = 3 /\ ToSet(a.host) \intersect NotUtf8 # {}
                      THEN Rejected
                      ELSE [ok |-> TRUE, addr |-> a, body |-> right]
      BY <3>3, <3>8, <3>9, <3>10, <3>11, Zenon
    <3> QED
      BY <1>2, <1>3, <1>4, <3>1, <3>12, Zenon DEF right
  <2>10. l < k + n + 2 \/ l >= k + n + 2
    OBVIOUS
  <2> QED
    BY <2>8, <2>9, <2>10, Zenon
<1>12. l < 7 \/ l >= 7
  OBVIOUS
<1> QED
  BY <1>10, <1>11, <1>12, Zenon

-----------------------------------------------------------------------------
(* The datagrams that come in                                              *)

\* What comes in is a byte string, whatever was cut off or replaced.
Bytes == /\ address \in Addresses
         /\ payload \in Payloads
         /\ data \in Seq(Byte)

LEMMA MeantFacts ==
    ASSUME address \in Addresses, payload \in Payloads
    PROVE  /\ address \in Address /\ payload \in Seq(Byte)
           /\ Laid(Whole, address, payload)
           /\ Whole \in Seq(Byte)
           /\ Len(Whole) >= 7
           /\ Len(Whole) - Len(payload) = 4 + Extra(address) + Len(address.host) + 2
           /\ \A l \in Nat : l - Len(Whole) + Len(payload)
                            = l - (4 + Extra(address) + Len(address.host) + 2)
PROOF
<1>1. address \in Address /\ payload \in Seq(Byte)
  BY PacketsAssumption
<1>2. Laid(Whole, address, payload)
  BY <1>1, BuildLays DEF Whole
<1>3. PICK k \in {4, 5} : k = 4 + Extra(address)
  BY <1>1, AddressFacts
<1>4. PICK n \in Nat : n = Len(address.host)
  BY <1>1, AddressFacts
<1>5. PICK m \in Nat : m = Len(payload)
  BY <1>1, LenProperties
<1>6. Whole \in Seq(Byte) /\ Len(Whole) = k + n + 2 + m
  BY <1>2, <1>3, <1>4, <1>5, Zenon DEF Laid, LaidAt
<1>7. k + n + 2 >= 7
  BY <1>1, <1>3, <1>4, AddressFacts, Zenon
<1>8. /\ k + n + 2 + m >= 7 /\ k + n + 2 + m - m = k + n + 2
      /\ \A l \in Nat : l - (k + n + 2 + m) + m = l - (k + n + 2)
  BY <1>7
<1>9. /\ Len(Whole) = k + n + 2 + m /\ Len(payload) = m
      /\ 4 + Extra(address) + Len(address.host) + 2 = k + n + 2
  BY <1>3, <1>4, <1>5, <1>6, Zenon
<1>10. /\ Len(Whole) >= 7
       /\ Len(Whole) - Len(payload) = 4 + Extra(address) + Len(address.host) + 2
  <2>1. Len(Whole) >= 7
    BY <1>8, <1>9, Zenon
  <2>2. Len(Whole) - Len(payload) = (k + n + 2 + m) - m
    <3>1. Len(Whole) = k + n + 2 + m /\ Len(payload) = m
      BY <1>9
    <3> QED
      BY ONLY <3>1, Zenon
  <2>3. (k + n + 2 + m) - m = 4 + Extra(address) + Len(address.host) + 2
    <3>1. (k + n + 2 + m) - m = k + n + 2
      BY <1>8
    <3>2. 4 + Extra(address) + Len(address.host) + 2 = k + n + 2
      BY <1>9
    <3> QED
      BY ONLY <3>1, <3>2, Zenon
  <2> QED
    BY <2>1, <2>2, <2>3, Zenon
<1>11. \A l \in Nat : l - Len(Whole) + Len(payload)
                     = l - (4 + Extra(address) + Len(address.host) + 2)
  BY <1>8, <1>9, Zenon
<1> QED
  BY <1>1, <1>2, <1>6, <1>10, <1>11

LEMMA BytesAlways == Spec => []Bytes
PROOF
<1>1. Init => Bytes
  BY MeantFacts DEF Init, Bytes, Whole
<1>2. Bytes /\ [Next]_vars => Bytes'
  <2> SUFFICES ASSUME Bytes, [Next]_vars PROVE Bytes'
    OBVIOUS
  <2>1. CASE Cut
    <3>1. PICK n \in 0 .. Len(data) - 1 : data' = SubSeq(data, 1, n)
      BY <2>1 DEF Cut
    <3>2. data \in Seq(Byte) /\ Len(data) \in Nat
      BY LenProperties DEF Bytes
    <3>3. n \in Nat /\ 1 <= n + 1 /\ n <= Len(data)
      BY <3>2
    <3>4. data' \in Seq(Byte)
      BY <3>1, <3>2, <3>3, Slice
    <3> QED
      BY <2>1, <3>4 DEF Cut, Bytes
  <2>2. CASE Spoil
    <3>1. PICK i \in 1 .. 5, b \in Damage : data' = [data EXCEPT ![i] = b]
      BY <2>2 DEF Spoil
    <3>2. data = Whole /\ Len(data) >= 7 /\ data \in Seq(Byte) /\ Len(data) \in Nat
      BY <2>2, MeantFacts, LenProperties DEF Spoil, Bytes, Whole
    <3>3. i \in 1 .. Len(data) /\ b \in Byte
      BY <3>2, PacketsAssumption
    <3>4. data' \in Seq(Byte)
      BY <3>1, <3>2, <3>3, ExceptSeq
    <3> QED
      BY <2>2, <3>4 DEF Spoil, Bytes
  <2>3. CASE UNCHANGED vars
    BY <2>3 DEF vars, Bytes
  <2> QED
    BY <2>1, <2>2, <2>3 DEF Next
<1> QED
  BY <1>1, <1>2, PTL DEF Spec

\* parse_socks5_udp_packet, whatever addresses and payloads there are: a packet that lost
\* none of its address is understood, one that lost a byte of it is rejected.
THEOREM PrefixesAlwaysUnderstood == Spec => []PrefixesUnderstood
PROOF
<1>1. Bytes => PrefixesUnderstood
  <2> SUFFICES ASSUME Bytes, IsPrefix(data, Whole)
               PROVE  Parse(data) =
                          IF Readable /\ Len(data) >= Len(Whole) - Len(payload)
                          THEN [ok |-> TRUE, addr |-> address,
                                body |-> SubSeq(payload, 1,
                                                Len(data) - Len(Whole) + Len(payload))]
                          ELSE Rejected
    BY DEF PrefixesUnderstood
  <2> DEFINE e == 4 + Extra(address) + Len(address.host) + 2
  <2>1. PICK l \in Nat : l = Len(data)
    BY LenProperties DEF Bytes
  <2>2. /\ address \in Address /\ payload \in Seq(Byte) /\ data \in Seq(Byte)
        /\ Len(Whole) - Len(payload) = e
        /\ l - Len(Whole) + Len(payload) = l - e
    BY MeantFacts DEF Bytes
  <2>3. /\ l < e => Parse(data) = Rejected
        /\ l >= e =>
              Parse(data) = IF address.atyp = 3 /\ ToSet(address.host) \intersect NotUtf8 # {}
                            THEN Rejected
                            ELSE [ok |-> TRUE, addr |-> address,
                                  body |-> SubSeq(payload, 1, l - e)]
    BY <2>1, <2>2, Understood, Zenon DEF Whole
  <2>4. Readable <=> ~(address.atyp = 3 /\ ToSet(address.host) \intersect NotUtf8 # {})
    BY DEF Readable
  <2>5. e \in Nat
    BY <2>2, AddressFacts
  <2> HIDE DEF e
  <2>6. l < e <=> ~(l >= e)
    BY <2>5
  <2> QED
    BY <2>1, <2>2, <2>3, <2>4, <2>6, Zenon
<1> QED
  BY <1>1, BytesAlways, PTL

\* parse_socks5_udp_packet and build_socks5_udp_response agree on every byte string that is
\* accepted, so an answer goes back under the address its client used.
THEOREM AcceptedAlwaysRebuilt == Spec => []AcceptedIsRebuilt
PROOF
<1>1. Bytes => AcceptedIsRebuilt
  BY Rebuilt DEF Bytes, AcceptedIsRebuilt
<1> QED
  BY <1>1, BytesAlways, PTL
=============================================================================
