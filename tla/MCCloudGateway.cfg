SPECIFICATION FairSpec
CONSTANTS
    r1 = r1
    r2 = r2
    k1 = k1
    k2 = k2
    k3 = k3
    NoRun = NoRun
    NoHome = NoHome
    NoKey = NoKey
    Unsaved = Unsaved
    Instances = {"i1"}
    Runs = {r1, r2}
    Contexts = {"ann", "bob"}
    OwnerOf <- MCOwnerOf
    Providers = {"openai", "local"}
    Mapped = {"openai"}
    Keys = {k1, k2, k3}
    KeysOf <- MCKeysOf
    BaseEnv <- MCBaseEnv
    Masters = {"m1", "m2"}
    FirstMaster <- MCFirstMaster
    OnRedis = {"i1"}
    MaxPuts = 2
    MaxRestarts = 1
INVARIANTS EnvironmentRestored OwnKeysInForce
PROPERTIES StreamsEnd
CHECK_DEADLOCK FALSE
