---------------------------- MODULE MCAdvertLife ----------------------------
(* The owner and some observers; the owner may stop signing at any time.   *)
EXTENDS AdvertLife, TLC

CONSTANTS owner, b1, b2    \* beacons

Symmetry == Permutations(Observers)
=============================================================================
