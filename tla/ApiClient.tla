------------------------------ MODULE ApiClient ------------------------------
(***************************************************************************)
(* _get of coe_kernel/apis.py: how a question to a scholarly registry is   *)
(* answered, by several processes (the coe and pipeline sidecars, and      *)
(* those of other runs) that share the cache directory on disk.  Every     *)
(* process has its own failure counters, and forgets them when it ends.    *)
(*                                                                         *)
(* A key is a URL.  The registry behind it would answer either with        *)
(* content or with 404/410, which _get takes as an authoritative denial    *)
(* and caches like content.  The file of a key is truncated by             *)
(* open(cp, "w") before json.dump writes it: in between it holds no JSON.  *)
(* Throttling, the waits between attempts and offline replay are left out: *)
(* they change when an answer comes, not what it is.                       *)
(***************************************************************************)
EXTENDS Naturals

CONSTANTS
    Procs,       \* the processes
    Keys,        \* the URLs
    Services,    \* the keys of _fails
    ServiceOf,   \* ServiceOf[k], the service of a URL
    Denied,      \* the URLs the registry answers with 404 or 410
    Break,       \* _BREAK, 4 in the code
    Retry,       \* _RETRY, 2 in the code
    MaxDeaths,   \* bound on the number of processes that end
    MaxDiskErrors  \* bound on the number of failed writes

ASSUME ApiAssumption ==
    /\ ServiceOf \in [Keys -> Services]
    /\ Denied \subseteq Keys
    /\ {Break, Retry, MaxDeaths, MaxDiskErrors} \subseteq Nat /\ Break > 0

VARIABLES
    cache,     \* the file of each key: none, partial, raw or not_found
    fails,     \* fails[p][s]: the consecutive failures of _fails
    call,      \* call[p]: where _get of process p stands
    answered,  \* answered[p]: the last answer _get returned in p
    mishaps    \* how much of the bounds is used up

clientVars == <<cache, fails, call, answered, mishaps>>

Idle == [pc |-> "idle"]
Nothing == [src |-> "none"]
Verdicts == {"raw", "not_found"}
\* unknown stands for every reason of a call that gave up; raised for an
\* exception that leaves _get.
Sources == Verdicts \union {"unknown", "circuit_open", "raised"}

TypeOK ==
    /\ cache \in [Keys -> {"none", "partial"} \union Verdicts]
    /\ fails \in [Procs -> [Services -> 0 .. Break]]
    /\ call \in [Procs -> {Idle}
            \union [pc : {"fetch", "store"}, key : Keys, attempt : 0 .. Retry]]
    /\ answered \in [Procs -> {Nothing} \union [src : Sources, key : Keys]]
    /\ mishaps \in [{"deaths", "disk"} -> Nat]

ClientInit ==
    /\ cache = [k \in Keys |-> "none"]
    /\ fails = [p \in Procs |-> [s \in Services |-> 0]]
    /\ call = [p \in Procs |-> Idle]
    /\ answered = [p \in Procs |-> Nothing]
    /\ mishaps = [m \in {"deaths", "disk"} |-> 0]

-----------------------------------------------------------------------------
\* What the registry says when it answers.
Content(k) == IF k \in Denied THEN "not_found" ELSE "raw"

\* _get returns in process p.
Answer(p, k, src) ==
    /\ call' = [call EXCEPT ![p] = Idle]
    /\ answered' = [answered EXCEPT ![p] = [src |-> src, key |-> k]]

Fetching(k, n) == [pc |-> "fetch", key |-> k, attempt |-> n]
SetFails(p, k, n) ==
    fails' = [fails EXCEPT ![p] = [@ EXCEPT ![ServiceOf[k]] = n]]

\* Mutants of GiveUpOrRetry: giving up is reported as a denial; every attempt
\* counts as a failure; there is no limit to the attempts.
GiveUpDenying(p, n, worth_retry) ==
    LET c == call[p] IN
    IF worth_retry /\ c.attempt < Retry
    THEN /\ call' = [call EXCEPT ![p] = Fetching(c.key, c.attempt + 1)]
         /\ SetFails(p, c.key, n)
         /\ UNCHANGED answered
    ELSE Answer(p, c.key, "not_found") /\ SetFails(p, c.key, n + 1)
CountEveryAttempt(p, n, worth_retry) ==
    LET c == call[p] IN
    /\ SetFails(p, c.key, n + 1)
    /\ IF worth_retry /\ c.attempt < Retry
       THEN /\ call' = [call EXCEPT ![p] = Fetching(c.key, c.attempt + 1)]
            /\ UNCHANGED answered
       ELSE Answer(p, c.key, "unknown")
RetryForever(p, n, worth_retry) ==
    LET c == call[p] IN
    IF worth_retry
    THEN /\ call' = [call EXCEPT ![p] =
                       Fetching(c.key, IF c.attempt < Retry THEN c.attempt + 1 ELSE 0)]
         /\ SetFails(p, c.key, n)
         /\ UNCHANGED answered
    ELSE Answer(p, c.key, "unknown") /\ SetFails(p, c.key, n + 1)

\* The loop over the attempts after one that failed: again, or, when they are
\* exhausted or the error is not worth a retry, one failure more.
\* n is the value of the counter so far.
GiveUpOrRetry(p, n, worth_retry) ==
    LET c == call[p] IN
    IF worth_retry /\ c.attempt < Retry
    THEN /\ call' = [call EXCEPT ![p] = Fetching(c.key, c.attempt + 1)]
         /\ SetFails(p, c.key, n)
         /\ UNCHANGED answered
    ELSE Answer(p, c.key, "unknown") /\ SetFails(p, c.key, n + 1)

\* _get up to the first request: the open breaker answers before the cache.
Ask(p, k) ==
    /\ call[p] = Idle
    /\ IF fails[p][ServiceOf[k]] >= Break THEN Answer(p, k, "circuit_open")
       ELSE IF cache[k] = "partial" THEN Answer(p, k, "raised")
       ELSE IF cache[k] # "none" THEN Answer(p, k, cache[k])
       ELSE /\ call' = [call EXCEPT ![p] = Fetching(k, 0)]
            /\ UNCHANGED answered
    /\ UNCHANGED <<cache, fails, mishaps>>

\* The registry answers, and the file is opened for writing.
Response(p) ==
    /\ call[p].pc = "fetch"
    /\ SetFails(p, call[p].key, 0)
    /\ cache' = [cache EXCEPT ![call[p].key] = "partial"]
    /\ call' = [call EXCEPT ![p] = [@ EXCEPT !.pc = "store"]]
    /\ UNCHANGED <<answered, mishaps>>

\* The attempt fails: a timeout, a broken connection, 429 or 5xx, which are
\* worth a retry, or another 4xx, which is not.
AttemptFails(p, worth_retry) ==
    /\ call[p].pc = "fetch"
    /\ GiveUpOrRetry(p, fails[p][ServiceOf[call[p].key]], worth_retry)
    /\ UNCHANGED <<cache, mishaps>>

\* json.dump has written and closed the file.
Store(p) ==
    /\ call[p].pc = "store"
    /\ cache' = [cache EXCEPT ![call[p].key] = Content(call[p].key)]
    /\ Answer(p, call[p].key, Content(call[p].key))
    /\ UNCHANGED <<fails, mishaps>>

\* Writing the file fails.  The handler of a content response takes that for a
\* failed attempt; in the handler of a denial the error leaves _get.
StoreFails(p) ==
    /\ call[p].pc = "store"
    /\ mishaps.disk < MaxDiskErrors
    /\ mishaps' = [mishaps EXCEPT !.disk = @ + 1]
    /\ IF call[p].key \in Denied
       THEN Answer(p, call[p].key, "raised") /\ UNCHANGED fails
       ELSE GiveUpOrRetry(p, fails[p][ServiceOf[call[p].key]], TRUE)
    /\ UNCHANGED cache

\* The process is terminated, wherever it is; another one takes its place.
Die(p) ==
    /\ mishaps.deaths < MaxDeaths
    /\ mishaps' = [mishaps EXCEPT !.deaths = @ + 1]
    /\ call' = [call EXCEPT ![p] = Idle]
    /\ answered' = [answered EXCEPT ![p] = Nothing]
    /\ fails' = [fails EXCEPT ![p] = [s \in Services |-> 0]]
    /\ UNCHANGED cache

Network(p) == Response(p) \/ \E worth \in BOOLEAN : AttemptFails(p, worth)

ClientNext == \E p \in Procs :
    \/ \E k \in Keys : Ask(p, k)
    \/ Network(p) \/ Store(p) \/ StoreFails(p) \/ Die(p)

ClientSpec == ClientInit /\ [][ClientNext]_clientVars

\* Every request has a timeout (15 s), so an attempt ends one way or the
\* other; whether a process asks again is up to it.
FairSpec == ClientSpec /\ \A p \in Procs : WF_clientVars(Network(p)) /\ WF_clientVars(Store(p))

-----------------------------------------------------------------------------
(* Properties *)

\* Through retries, the shared cache, half-written files and deaths, a denial
\* is only ever reported of what the registry denies, and content only of what
\* it has (the line between fabrication and "I cannot see", apis.py:26-31).
AnswersAreTrue ==
    \A p \in Procs : answered[p].src \in Verdicts =>
        answered[p].src = Content(answered[p].key)

\* A call brings the breaker closer by one, however many attempts it took, and
\* only when it ends without an answer; a denial never does
\* (apis.py:209-211 and 226-229).
OneFailurePerCall ==
    [][\A p \in Procs, s \in Services : fails'[p][s] > fails[p][s] =>
          /\ fails'[p][s] = fails[p][s] + 1
          /\ call[p] # Idle /\ call'[p] = Idle /\ answered'[p].src = "unknown"]_clientVars

\* Every question is answered, with the registry down for good or not.
EveryCallEnds == \A p \in Procs : call[p] # Idle ~> call[p] = Idle

-----------------------------------------------------------------------------
(* What the documents say and the code does not do: TLC violates each of   *)
(* the following, as the README tells.                                     *)

\* docs/REACHABILITY.md:85 and CHANGELOG.md:113: a denial keeps its meaning in
\* the cache and verdicts do not depend on the order of the calls: a question
\* whose answer is in the cache is answered with it.
CachedVerdictStands ==
    [][\A p \in Procs :
          answered'[p] # answered[p] /\ answered'[p] # Nothing =>
              LET k == answered'[p].key IN
              cache[k] \in Verdicts => answered'[p].src \in Verdicts]_clientVars

\* apis.py:53-56 says every runtime failure is turned into "unknown": none
\* leaves _get as an exception.
NeverRaises == \A p \in Procs : answered[p].src # "raised"
=============================================================================
