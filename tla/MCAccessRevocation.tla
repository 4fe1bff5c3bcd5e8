------------------------- MODULE MCAccessRevocation -------------------------
(* Instances of AccessRevocation for TLC.                                  *)
EXTENDS AccessRevocation, TLC

CONSTANTS t1, u1, u2, d1, d2, f1, f2

(* A single lock.                                                          *)
SingleUnitOf == d1 :> u1
OneFacilityOf == u1 :> f1

(* Two units with a lock each, of one facility or of two.                  *)
TwoUnitOf == d1 :> u1 @@ d2 :> u2
TwoFacilityOf == u1 :> f1 @@ u2 :> f2
SameFacilityOf == u1 :> f1 @@ u2 :> f1

SharedOne == {<<u1, t1>>}
SharedNone == {}

SymmetricJobs == Permutations(Job)
=============================================================================
