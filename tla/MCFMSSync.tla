----------------------------- MODULE MCFMSSync -----------------------------
(* Instances of FMSSync for TLC.                                           *)
EXTENDS FMSSync, TLC

Interchangeable == Permutations(Sync) \cup Permutations(Change)
=============================================================================
