SPECIFICATION FairSpec
CONSTANTS
    r1 = r1
    r2 = r2
    Runs = {r1, r2}
    NoRun = NoRun
    Levels = {1, 6}
    MaxReloads = 1
    MaxDeaths = 1
    MaxErrors = 1
INVARIANTS AnswersMatchCalls SignedAsSeen
PROPERTIES EveryRunEnds NeverStuckOnSplash
CHECK_DEADLOCK FALSE
