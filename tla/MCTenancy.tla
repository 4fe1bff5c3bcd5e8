---------------------------- MODULE MCTenancy ----------------------------
(* Instances of Tenancy for TLC.                                           *)
EXTENDS Tenancy

CONSTANTS u1, u2, t1, t2, t3

AskPairs == {<<u1, t1>>, <<u1, t2>>, <<u1, t3>>, <<u2, t1>>}
=============================================================================
