---------------------------- MODULE MCFederation ----------------------------
(* Small instances of Federation for TLC. *)
EXTENDS Federation, TLC

CONSTANTS d1, d2, f1, f2, f3, fab, gap

MCStores == {d1, d2}
MCFingerprints == {f1, f2}
MCSignatures == {fab, gap}
MCFabrications == {fab}
OneSignature == {fab}
Symmetry == Permutations(MCStores) \union Permutations(MCFingerprints)
=============================================================================
