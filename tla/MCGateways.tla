---------------------------- MODULE MCGateways ----------------------------
(* Instances of Gateways for TLC.                                          *)
EXTENDS Gateways

CONSTANTS s1, s2, c1, c2, d1, p1, p2
=============================================================================
