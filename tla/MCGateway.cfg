SPECIFICATION FairSpec
CONSTANTS
    r1 = r1
    r2 = r2
    s1 = s1
    s2 = s2
    s3 = s3
    NoRun = NoRun
    Runs = {r1, r2}
    Streams = {s1, s2, s3}
    StreamOf <- MCStreamOf
    Gates <- MCGates
    MaxExtra = 1
    MaxGone = 1
INVARIANTS SignedByItsDecisions LeavingLosesOne
PROPERTIES EveryRunEnds ResultIsShown
CHECK_DEADLOCK FALSE
