------------------------- MODULE MCExperienceStore -------------------------
(* Small instances of ExperienceStore for TLC. *)
EXTENDS ExperienceStore, TLC

CONSTANTS fab, gap, p1, p2

MCLessons == {fab, gap}
MCFabrications == {fab}
MCProcs == {p1, p2}
Symmetry == Permutations(MCProcs)
=============================================================================
