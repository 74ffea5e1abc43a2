----------------------------- MODULE MCCodeZone -----------------------------
(* Room for three nmethods, of two methods that call each other.           *)
EXTENDS CodeZone, TLC

CONSTANTS k1, k2

MCKeys == {k1, k2}
MCSends == k1 :> k2 @@ k2 :> k1

MCSymmetry == Permutations(MCKeys)
=============================================================================
