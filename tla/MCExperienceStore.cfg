SPECIFICATION Spec
CONSTANTS
  fab = fab
  gap = gap
  p1 = p1
  p2 = p2
  Lessons <- MCLessons
  Fabrications <- MCFabrications
  Procs <- MCProcs
  MinRepro = 2
  MaxRepro = 3
SYMMETRY Symmetry
INVARIANTS
  EveryUpsertCounts
  
PROPERTIES
  WithdrawnForGood
