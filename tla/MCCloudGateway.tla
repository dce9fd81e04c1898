--------------------------- MODULE MCCloudGateway ---------------------------
EXTENDS CloudGateway

CONSTANTS r1, r2, k1, k2, k3

\* Two users of one provider, one of whom may replace the key, and a gateway
\* started without a key of its own; "local" has no variable in the environment.
MCOwnerOf == [r \in Runs |-> IF r = r1 THEN "ann" ELSE "bob"]
MCFirstMaster == [i \in Instances |-> "m1"]
MCKeysOf == [c \in Contexts |-> [p \in Providers |->
    CASE c = "ann" -> IF p = "openai" THEN {k1, k2} ELSE {}
      [] c = "bob" -> {k3}]]
MCBaseEnv == [p \in Mapped |-> NoKey]
=============================================================================
