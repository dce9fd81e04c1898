SPECIFICATION ServiceSpec
CONSTANTS
  f1 = f1
  f2 = f2
  f3 = f3
  s1 = s1
  s2 = s2
  i1 = i1
  i2 = i2
  t1 = t1
  t2 = t2
  t3 = t3
  Fingerprints <- MCFingerprints
  Signatures <- MCSignatures
  Abstract <- MCAbstract
  MinContributors = 2
  VoteLimit = 3
  MaxVotes = 0
  MaxReuse = 0
  Instances <- OneInstance
  Threads <- MCThreads
  MaxTimeouts = 1
  MaxCalls = 2
INVARIANTS
  AnswersStand
PROPERTIES
  ImplementsGlobalMemory
