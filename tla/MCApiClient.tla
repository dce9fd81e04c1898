----------------------------- MODULE MCApiClient -----------------------------
EXTENDS ApiClient

CONSTANTS pipe, coe, known, absent, title, registry, index

MCServiceOf == [k \in Keys |-> IF k = title THEN index ELSE registry]
=============================================================================
