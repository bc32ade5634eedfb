----------------------------- MODULE UdpPacket -----------------------------
(***************************************************************************)
(* parse_socks5_udp_packet and build_socks5_udp_response of                *)
(* src/protocol/socks5/udp_associate.rs, checked against each other on     *)
(* whole, cut and damaged packets.                                         *)
(***************************************************************************)
EXTENDS Naturals, Sequences, SequencesExt

CONSTANTS Addresses,   \* target addresses: records with atyp, host and port
          Payloads,    \* byte strings
          Damage,      \* the bytes that may replace a byte of the header
          NotUtf8,     \* the bytes that make a string invalid UTF-8
          U8           \* 256, the modulus of `domain.len() as u8`

VARIABLES address, payload,   \* what the sender meant
          data                \* the datagram as it comes in

vars == <<address, payload, data>>

Byte == 0 .. 255

\* TargetAddr: an address of 4 or 16 bytes, or a name whose length fits its byte.
Address == {a \in [atyp : {1, 3, 4}, host : Seq(Byte), port : Seq(Byte)] :
                /\ Len(a.port) = 2
                /\ a.atyp = 1 => Len(a.host) = 4
                /\ a.atyp = 3 => Len(a.host) <= 255
                /\ a.atyp = 4 => Len(a.host) = 16}

ASSUME PacketsAssumption == /\ Addresses \subseteq Address
                            /\ Payloads \subseteq Seq(Byte)
                            /\ Damage \subseteq Byte
                            /\ U8 = 256

-----------------------------------------------------------------------------
(* The code                                                                *)

Build(a, body) == <<0, 0, 0, a.atyp>>
                  \o (IF a.atyp = 3 THEN <<Len(a.host) % U8>> ELSE <<>>)
                  \o a.host \o a.port \o body

Rejected == [ok |-> FALSE]

\* Where the address stands: its first byte and the number of its bytes.
HostAt(d)  == IF d[4] = 3 THEN 6 ELSE 5
HostLen(d) == CASE d[4] = 1 -> 4 [] d[4] = 3 -> d[5] [] d[4] = 4 -> 16

\* Mutant: a packet must be longer than its address, as if `<` were `<=`.
EndBeyondAddress(d) == HostAt(d) + HostLen(d) + 2

\* How long the packet must be to hold its address and port.
AddressEnd(d) == HostAt(d) + HostLen(d) + 1

\* Mutant: fragments are not refused.
HeaderOfFragment(d) == Len(d) >= 7 /\ SubSeq(d, 1, 2) = <<0, 0>> /\ d[4] \in {1, 3, 4}

\* RSV and FRAG are 0, and the address type is known.
HeaderOk(d) == Len(d) >= 7 /\ SubSeq(d, 1, 3) = <<0, 0, 0>> /\ d[4] \in {1, 3, 4}

\* Every check comes before the bytes it guards are read: 7 is also the length of the
\* shortest packet, one with an empty domain name.
Parse(d) ==
    IF ~HeaderOk(d) THEN Rejected
    ELSE IF Len(d) < AddressEnd(d) THEN Rejected
    ELSE LET host == SubSeq(d, HostAt(d), HostAt(d) + HostLen(d) - 1)
             port == HostAt(d) + HostLen(d)
         IN  IF d[4] = 3 /\ ToSet(host) \intersect NotUtf8 # {}
             THEN Rejected
             ELSE [ok |-> TRUE,
                   addr |-> [atyp |-> d[4], host |-> host, port |-> SubSeq(d, port, port + 1)],
                   body |-> SubSeq(d, port + 2, Len(d))]

-----------------------------------------------------------------------------
(* The packets that come in (external)                                     *)

Init == /\ address \in Addresses
        /\ payload \in Payloads
        /\ data = Build(address, payload)

\* The datagram is cut anywhere.
Cut == /\ \E n \in 0 .. Len(data) - 1 : data' = SubSeq(data, 1, n)
       /\ UNCHANGED <<address, payload>>

\* One byte of what comes before the host is another one.
Spoil == /\ data = Build(address, payload)
         /\ \E i \in 1 .. 5, b \in Damage : data' = [data EXCEPT ![i] = b]
         /\ UNCHANGED <<address, payload>>

Next == Cut \/ Spoil

Spec == Init /\ [][Next]_vars

-----------------------------------------------------------------------------
(* Properties                                                              *)

Whole == Build(address, payload)
Readable == address.atyp = 3 => ToSet(address.host) \intersect NotUtf8 = {}

\* A packet that is whole, or has lost only payload, is understood as it was meant; one
\* that has lost a byte of its address is rejected (udp_associate.rs:146-215).
PrefixesUnderstood ==
    IsPrefix(data, Whole) =>
        Parse(data) = IF Readable /\ Len(data) >= Len(Whole) - Len(payload)
                      THEN [ok |-> TRUE, addr |-> address,
                            body |-> SubSeq(payload, 1, Len(data) - Len(Whole) + Len(payload))]
                      ELSE Rejected

\* Whatever is accepted, whole, cut or damaged, comes out of build_socks5_udp_response as
\* it went in: answers carry the address their client used (:235, :251-284).
AcceptedIsRebuilt == Parse(data).ok => Build(Parse(data).addr, Parse(data).body) = data
=============================================================================
