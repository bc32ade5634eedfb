---------------------------- MODULE MCUdpPacket ----------------------------
(***************************************************************************)
(* Packets for TLC: every address type, an empty name, a name that is no   *)
(* text, and the longest name a packet can hold.                           *)
(***************************************************************************)
EXTENDS UdpPacket

MCAddresses ==
    {[atyp |-> 1, host |-> <<10, 0, 0, 1>>, port |-> <<0, 53>>],
     [atyp |-> 3, host |-> <<>>, port |-> <<0, 53>>],
     [atyp |-> 3, host |-> <<104, 111>>, port |-> <<31, 144>>],
     [atyp |-> 3, host |-> <<104, 200>>, port |-> <<31, 144>>],
     [atyp |-> 3, host |-> [i \in 1 .. 255 |-> 104], port |-> <<31, 144>>],
     [atyp |-> 4, host |-> [i \in 1 .. 16 |-> i], port |-> <<0, 53>>]}

MCPayloads == {<<>>, <<1>>, <<7, 8, 9>>}
=============================================================================
