SPECIFICATION Spec
CONSTANTS
  f1 = f1
  f2 = f2
  f3 = f3
  s1 = s1
  s2 = s2
  Fingerprints <- MCFingerprints
  Signatures <- MCSignatures
  Abstract <- MCSignatures
  MinContributors = 2
  VoteLimit = 3
  MaxVotes = 3
  MaxReuse = 1
INVARIANTS
  QualityGate
  PendingNeverReused
PROPERTIES
  RetractedUnlessRevoked
