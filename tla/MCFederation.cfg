SPECIFICATION FederationSpec
CONSTANTS
  d1 = d1
  d2 = d2
  f1 = f1
  f2 = f2
  f3 = f3
  fab = fab
  gap = gap
  Stores <- MCStores
  Fingerprints <- MCFingerprints
  Signatures <- OneSignature
  Fabrications <- MCFabrications
  Abstract <- OneSignature
  MinContributors = 2
  VoteLimit = 3
  MaxVotes = 3
  MaxReuse = 0
  MinRepro = 2
  MaxRepro = 2
SYMMETRY Symmetry
INVARIANTS
  ContributorsReproduced
  GlobalMarkEarned
