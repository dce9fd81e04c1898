-------------------------- MODULE MCGlobalService --------------------------
(* Small instances of GlobalService for TLC. *)
EXTENDS GlobalService, TLC

CONSTANTS f1, f2, f3, s1, s2, i1, i2, t1, t2, t3

MCFingerprints == {f1, f2, f3}
MCSignatures == {s1, s2}
MCAbstract == {s1}
OneInstance == {i1}
TwoInstances == {i1, i2}
MCThreads == {t1, t2}

Symmetry == Permutations(MCFingerprints) \union Permutations(MCThreads)
            \union Permutations({i1, i2})
=============================================================================
