--------------------------- MODULE MCGlobalMemory ---------------------------
(* Small instances of GlobalMemory for TLC. *)
EXTENDS GlobalMemory, TLC

CONSTANTS f1, f2, f3, s1, s2

MCFingerprints == {f1, f2, f3}
MCSignatures == {s1, s2}
MCAbstract == {s1}
OneSignature == {s1}

\* Contributors are interchangeable: no action or property names one.
Symmetry == Permutations(MCFingerprints)

=============================================================================
