SPECIFICATION FairSpec
CONSTANTS
    cite = cite
    number = number
    mechanism = mechanism
    fabricated = fabricated
    Fabricated = fabricated
    MinRepro = 2
    Levels = {1, 6}
    Claims = {cite, number}
    Type <- TwoTypes
    ArxivAnswers = {"denied", "unknown"}
    Verdicts = {"pass", "reject", "unresolved", "manual"}
    Decisions = {"approve", "decline"}
    MaxRuns = 2
    MaxDeaths = 1
    MaxErrors = 1
    MaxRevokes = 1
INVARIANTS HumanSignsGreen BlockedIsRemembered GuardedByRejection
PROPERTIES SignedIsEarned EveryRunEnds NeverDraftedAgain BlockedThenSigned
CHECK_DEADLOCK FALSE
