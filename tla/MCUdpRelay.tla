----------------------------- MODULE MCUdpRelay -----------------------------
(***************************************************************************)
(* Instances of UdpRelay for TLC.                                          *)
(***************************************************************************)
EXTENDS UdpRelay

CONSTANTS c1, c2, t1, t2, s1, s2, s3, p1, p2
=============================================================================
