SPECIFICATION FairSpec
CONSTANTS
    pipe = pipe
    coe = coe
    known = known
    absent = absent
    title = title
    registry = registry
    index = index
    Procs = {pipe, coe}
    Keys = {known, absent}
    Services = {registry, index}
    ServiceOf <- MCServiceOf
    Denied = {absent}
    Break = 2
    Retry = 1
    MaxDeaths = 1
    MaxDiskErrors = 1
INVARIANTS AnswersAreTrue
PROPERTIES OneFailurePerCall EveryCallEnds
