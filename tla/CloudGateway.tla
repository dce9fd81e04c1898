---------------------------- MODULE CloudGateway ----------------------------
(***************************************************************************)
(* deploy/gateway_cloud.py with cloud/tenancy.py, cloud/vault.py and       *)
(* cloud/sessions.py: the gateway for many tenants.  Every user brings the *)
(* keys of the model providers; they are kept encrypted in a vault, one    *)
(* file per tenant, and for the time of a run they are put into the        *)
(* environment of the process, which the sidecars of the run inherit.      *)
(*                                                                         *)
(* Several instances may serve the same data directory: they share the     *)
(* vaults, the tokens and the session store, while sessions, lock and      *)
(* environment belong to a process.  A context is a pair of tenant and     *)
(* user, what a token resolves to.  Gates and streams are those of module  *)
(* Gateway; here a run has one gate and one stream.                        *)
(***************************************************************************)
EXTENDS Naturals, Sequences

CONSTANTS
    Instances,     \* the gateway processes
    Runs,          \* the runs posted
    Contexts,      \* the pairs of tenant and user
    OwnerOf,       \* OwnerOf[r]: the context whose token posts r
    Providers,     \* the providers keys are stored for
    Mapped,        \* those of them with a variable in _PROVIDER_ENV
    Keys,          \* the keys
    KeysOf,        \* KeysOf[c][p]: the keys the user of c has for provider p
    BaseEnv,       \* BaseEnv[p]: what the process was started with
    Masters,       \* the master keys a process may be started with
    FirstMaster,   \* FirstMaster[i]: the one instance i is started with first
    OnRedis,       \* the instances that reached Redis when they started
    NoKey, NoRun, NoHome, Unsaved,
    MaxPuts,       \* bound on the number of keys stored
    MaxRestarts    \* bound on the number of restarts

ASSUME CloudAssumption ==
    /\ Mapped \subseteq Providers /\ OnRedis \subseteq Instances
    /\ OwnerOf \in [Runs -> Contexts]
    /\ FirstMaster \in [Instances -> Masters] /\ NoKey \notin Masters
    /\ NoRun \notin Runs /\ NoHome \notin Instances
    /\ NoKey \notin Keys /\ Unsaved \notin Keys \union {NoKey}
    /\ KeysOf \in [Contexts -> [Providers -> SUBSET Keys]]
    /\ BaseEnv \in [Mapped -> Keys \union {NoKey}]
    /\ MaxPuts \in Nat /\ MaxRestarts \in Nat

VARIABLES
    issued,    \* the contexts a token was issued to
    vault,     \* vault[c][p]: the key stored, and the master key that hides it
    shared,    \* the runs whose metadata are in the shared session store
    gw,        \* gw[i]: master key, environment and holder of _run_lock
    run,       \* run[r]: the thread of a run, its local variables and session
    events,    \* the events queue of each session
    stream,    \* the stream of each run
    puts, restarts

vars == <<issued, vault, shared, gw, run, events, stream, puts, restarts>>
adminVars == <<issued, vault, shared, puts, restarts>>

Values == Keys \union {NoKey}
Nothing == [key |-> NoKey, master |-> NoKey]
NothingSaved == [p \in Mapped |-> Unsaved]
Decisions == {"approve", "decline"}

\* home is the instance that keeps the session; saved, todo and answer are
\* local to the thread; sidecars is the environment they inherited.  inForce is
\* history: the keys its owner had in force since the run has the lock.
NoThread == [at |-> "none", home |-> NoHome, saved |-> NothingSaved, todo |-> {},
             sidecars |-> NothingSaved, answer |-> "none",
             inForce |-> [p \in Mapped |-> {}]]
Thread == [at : {"none", "opening", "queued", "injecting", "running", "asking",
                 "restoring", "done", "dead", "gone"},
           home : Instances \union {NoHome},
           saved : [Mapped -> Values \union {Unsaved}], todo : SUBSET Providers,
           sidecars : [Mapped -> Values \union {Unsaved}],
           answer : Decisions \union {"none"}, inForce : [Mapped -> SUBSET Values]]

TypeOK ==
    /\ issued \subseteq Contexts /\ shared \subseteq Runs
    /\ vault \in [Contexts -> [Providers -> [key : Values, master : Masters \union {NoKey}]]]
    /\ gw \in [Instances -> [master : Masters, env : [Mapped -> Values],
                             lock : Runs \union {NoRun}]]
    /\ run \in [Runs -> Thread]
    /\ events \in [Runs -> Seq({"gate", "result", "error", "_end"})]
    /\ stream \in [Runs -> {"closed", "open", "ended", "broken"}]
    /\ puts \in Nat /\ restarts \in Nat

Init ==
    /\ issued = {} /\ shared = {}
    /\ vault = [c \in Contexts |-> [p \in Providers |-> Nothing]]
    /\ gw = [i \in Instances |-> [master |-> FirstMaster[i], env |-> BaseEnv, lock |-> NoRun]]
    /\ run = [r \in Runs |-> NoThread]
    /\ events = [r \in Runs |-> <<>>]
    /\ stream = [r \in Runs |-> "closed"]
    /\ puts = 0 /\ restarts = 0

-----------------------------------------------------------------------------
(* The requests *)

\* POST /admin/tenants: a token for the context, kept as a hash.
Issue(c) ==
    /\ c \notin issued
    /\ issued' = issued \union {c}
    /\ UNCHANGED <<vault, shared, gw, run, events, stream, puts, restarts>>

\* POST /v1/keys: the key is encrypted with the master key of this instance,
\* and replaces the one its owner had for the provider.
PutKey(i, c, p, k) ==
    /\ c \in issued /\ k \in KeysOf[c][p]
    /\ puts < MaxPuts
    /\ puts' = puts + 1
    /\ vault' = [vault EXCEPT ![c][p] = [key |-> k, master |-> gw[i].master]]
    /\ run' = [r \in Runs |-> [run[r] EXCEPT !.inForce = [q \in Mapped |->
                 IF q = p /\ OwnerOf[r] = c /\ run[r].at = "injecting"
                 THEN @[q] \union {k} ELSE @[q]]]]
    /\ UNCHANGED <<issued, shared, gw, events, stream, restarts>>

\* get_sessions and put: the metadata of a run go to Redis, or to the memory of
\* an instance that did not reach it, where nobody else sees them.
Stored(i, r) == IF i \in OnRedis THEN shared \union {r} ELSE shared

\* POST /v1/runs: this instance keeps the session and starts the thread.
PostRun(i, r) ==
    /\ OwnerOf[r] \in issued
    /\ run[r].at = "none"
    /\ run' = [run EXCEPT ![r].home = i, ![r].at = "opening"]
    /\ shared' = Stored(i, r)
    /\ UNCHANGED <<issued, vault, gw, events, stream, puts, restarts>>

\* POST /v1/gates, answered by the instance that keeps the session; of several
\* decisions the first counts.
PostGate(i, r, decision) ==
    /\ run[r].home = i /\ run[r].at = "asking" /\ run[r].answer = "none"
    /\ run' = [run EXCEPT ![r].answer = decision]
    /\ UNCHANGED <<adminVars, gw, events, stream>>

\* GET /v1/runs/{id}/events, at the same instance.
Open(i, r) ==
    /\ run[r].home = i /\ stream[r] = "closed"
    /\ stream' = [stream EXCEPT ![r] = "open"]
    /\ UNCHANGED <<adminVars, gw, run, events>>

\* _sse: waits for the next event, without a timeout, until the end marker.
Deliver(r) ==
    /\ stream[r] = "open" /\ events[r] # <<>>
    /\ events' = [events EXCEPT ![r] = Tail(@)]
    /\ stream' = [stream EXCEPT ![r] = IF Head(events[r]) = "_end" THEN "ended" ELSE @]
    /\ UNCHANGED <<adminVars, gw, run>>

-----------------------------------------------------------------------------
(* The thread of a run: _run_bg *)

\* The thread of r comes to its next point and says something, or nothing.
Goes(r, to) == run' = [run EXCEPT ![r].at = to]
Says(r, es) == events' = [events EXCEPT ![r] = @ \o es]

\* The vault of the tenant is opened before the try: a failure there (the
\* database, the missing cryptography) ends the thread without a word.
OpenVault(r) ==
    /\ run[r].at = "opening"
    /\ \E to \in {"queued", "dead"} : Goes(r, to)
    /\ UNCHANGED <<adminVars, gw, events, stream>>

\* What a thread knows once it has read the list of providers it has keys for.
Listed(r) ==
    LET stored == vault[OwnerOf[r]] IN
    [run[r] EXCEPT !.at = "injecting",
                   !.todo = {p \in Providers : stored[p].key # NoKey},
                   !.inForce = [p \in Mapped |-> {stored[p].key}]]

\* Mutant of Acquire: the lock is not waited for.
AcquireUnlocked(r) ==
    /\ run[r].at = "queued"
    /\ gw' = [gw EXCEPT ![run[r].home].lock = r]
    /\ run' = [run EXCEPT ![r] = Listed(r)]
    /\ UNCHANGED <<adminVars, events, stream>>

\* The lock, and then the list.
Acquire(r) ==
    /\ run[r].at = "queued"
    /\ gw[run[r].home].lock = NoRun
    /\ gw' = [gw EXCEPT ![run[r].home].lock = r]
    /\ run' = [run EXCEPT ![r] = Listed(r)]
    /\ UNCHANGED <<adminVars, events, stream>>

\* One provider of the list: without a variable it is skipped; else its value
\* is saved, and the key is decrypted and put in its place.  Decrypting a key
\* hidden by another master key raises.
Inject(r, p) ==
    LET i == run[r].home  stored == vault[OwnerOf[r]][p]
        todo == run[r].todo \ {p} IN
    /\ run[r].at = "injecting" /\ p \in run[r].todo
    /\ \/ /\ p \notin Mapped
          /\ run' = [run EXCEPT ![r].todo = todo]
          /\ UNCHANGED <<gw, events>>
       \/ /\ p \in Mapped /\ stored.master = gw[i].master
          /\ run' = [run EXCEPT ![r].todo = todo, ![r].saved[p] = gw[i].env[p]]
          /\ gw' = [gw EXCEPT ![i].env[p] = stored.key]
          /\ UNCHANGED events
       \/ /\ p \in Mapped /\ stored.master # gw[i].master
          /\ run' = [run EXCEPT ![r].todo = todo, ![r].saved[p] = gw[i].env[p],
                                ![r].at = "restoring"]
          /\ Says(r, <<"error">>)
          /\ UNCHANGED gw
    /\ UNCHANGED <<adminVars, stream>>

\* Orchestrator(): the sidecars start with the environment as it is now.
Spawn(r) ==
    /\ run[r].at = "injecting" /\ run[r].todo = {}
    /\ run' = [run EXCEPT ![r].sidecars = gw[run[r].home].env, ![r].at = "running"]
    /\ UNCHANGED <<adminVars, gw, events, stream>>

\* ask: the request is put into the queue of events.
AskGate(r) ==
    /\ run[r].at = "running" /\ run[r].answer = "none"
    /\ Goes(r, "asking") /\ Says(r, <<"gate">>)
    /\ UNCHANGED <<adminVars, gw, stream>>

\* The decision leaves ask, and the run goes on or returns, declined.
Resume(r) ==
    /\ run[r].at = "asking"
    /\ \/ run[r].answer = "approve" /\ Goes(r, "running") /\ UNCHANGED events
       \/ run[r].answer = "decline" /\ Goes(r, "restoring") /\ Says(r, <<"result">>)
    /\ UNCHANGED <<adminVars, gw, stream>>

\* The run returns, past its gate or blocked before it, or it raises.
Finish(r) ==
    /\ run[r].at = "running"
    /\ Goes(r, "restoring")
    /\ \E how \in {"result", "error"} : Says(r, <<how>>)
    /\ UNCHANGED <<adminVars, gw, stream>>

Restored(r) == [p \in Mapped |-> IF run[r].saved[p] = Unsaved
                                 THEN gw[run[r].home].env[p] ELSE run[r].saved[p]]

\* Mutants of Restore: a variable that was not set before keeps the key; a run
\* whose keys could not be decrypted keeps the lock.
RestoreSetOnly(r) ==
    LET i == run[r].home IN
    /\ run[r].at = "restoring"
    /\ gw' = [gw EXCEPT ![i].lock = NoRun, ![i].env = [p \in Mapped |->
                IF run[r].saved[p] \in {Unsaved, NoKey} THEN @[p] ELSE run[r].saved[p]]]
    /\ run' = [run EXCEPT ![r] = [NoThread EXCEPT !.at = "done", !.home = i]]
    /\ Says(r, <<"_end">>)
    /\ UNCHANGED <<adminVars, stream>>
RestoreLocked(r) ==
    LET i == run[r].home IN
    /\ run[r].at = "restoring"
    /\ gw' = [gw EXCEPT ![i].env = Restored(r),
                        ![i].lock = IF run[r].sidecars = NothingSaved THEN @ ELSE NoRun]
    /\ run' = [run EXCEPT ![r] = [NoThread EXCEPT !.at = "done", !.home = i]]
    /\ Says(r, <<"_end">>)
    /\ UNCHANGED <<adminVars, stream>>

\* The finally: the environment is restored, the end is announced, the lock is
\* released, and the thread is gone with its sidecars.
Restore(r) ==
    LET i == run[r].home IN
    /\ run[r].at = "restoring"
    /\ gw' = [gw EXCEPT ![i].env = Restored(r), ![i].lock = NoRun]
    /\ run' = [run EXCEPT ![r] = [NoThread EXCEPT !.at = "done", !.home = i]]
    /\ Says(r, <<"_end">>)
    /\ UNCHANGED <<adminVars, stream>>

\* An instance is restarted, with the same or another master key: its sessions,
\* threads and environment are lost; vaults, tokens and shared store are not.
Restart(i, m) ==
    LET here == {r \in Runs : run[r].home = i} IN
    /\ restarts < MaxRestarts
    /\ restarts' = restarts + 1
    /\ gw' = [gw EXCEPT ![i] = [master |-> m, env |-> BaseEnv, lock |-> NoRun]]
    /\ run' = [r \in Runs |-> IF r \in here THEN [NoThread EXCEPT !.at = "gone"] ELSE run[r]]
    /\ events' = [r \in Runs |-> IF r \in here THEN <<>> ELSE events[r]]
    /\ stream' = [r \in Runs |-> IF r \in here /\ stream[r] = "open"
                                 THEN "broken" ELSE stream[r]]
    /\ UNCHANGED <<issued, vault, shared, puts>>

Step(r) ==
    OpenVault(r) \/ Acquire(r) \/ (\E p \in Providers : Inject(r, p)) \/ Spawn(r)
    \/ AskGate(r) \/ Resume(r) \/ Finish(r) \/ Restore(r)

Next ==
    \/ \E c \in Contexts : Issue(c)
    \/ \E i \in Instances, c \in Contexts, p \in Providers, k \in Keys : PutKey(i, c, p, k)
    \/ \E i \in Instances, r \in Runs :
          PostRun(i, r) \/ Open(i, r) \/ \E d \in Decisions : PostGate(i, r, d)
    \/ \E r \in Runs : Step(r) \/ Deliver(r)
    \/ \E i \in Instances, m \in Masters : Restart(i, m)

Spec == Init /\ [][Next]_vars

\* The threads run, and one that keeps asking for the lock gets it
\* (threading.Lock).  Gates that were asked are answered, streams are served.
FairSpec ==
    /\ Spec
    /\ \A r \in Runs :
          /\ SF_vars(Acquire(r)) /\ WF_vars(Step(r)) /\ WF_vars(Deliver(r))
          /\ WF_vars(\E i \in Instances, d \in Decisions : PostGate(i, r, d))

-----------------------------------------------------------------------------
(* Properties *)

\* Outside of a run the environment of the gateway is the one it was started
\* with, however the run before ended: no key of a user stays in the process
\* (_run_bg: "restore env, the plain text does not stay").
EnvironmentRestored == \A i \in Instances : gw[i].lock = NoRun => gw[i].env = BaseEnv

\* What a run sees for a provider, with the key k of its owner or with none.
Effective(p, k) == IF k = NoKey THEN BaseEnv[p] ELSE k

\* What the sidecars of a run see for a provider is a key its own owner had in
\* force after the run got its turn, or, if there was none, what the gateway
\* was started with: never the key of another user, left behind by a run
\* before, and never one replaced while the run waited for the lock.
OwnKeysInForce ==
    \A r \in Runs, p \in Mapped : run[r].sidecars[p] # Unsaved =>
        \E k \in run[r].inForce[p] : run[r].sidecars[p] = Effective(p, k)

\* Every stream of events comes to its end, whatever keys the vault holds and
\* whichever way the run ends, unless the thread died opening the vault or the
\* instance was restarted.
StreamsEnd == \A r \in Runs : stream[r] = "open" ~> stream[r] # "open" \/ run[r].at = "dead"

-----------------------------------------------------------------------------
(* What the comments say and the code does not do: TLC violates each of    *)
(* the following, as the README tells.                                     *)

\* gateway_cloud.py:24 and sessions.py:1: with the metadata in the shared store
\* any instance serves the session.
AnyInstanceServes ==
    \A r \in shared : run[r].home # NoHome => \A i \in Instances : run[r].home = i

\* The finally of _run_bg announces the end of every run.
EveryStreamEnds == \A r \in Runs : stream[r] = "open" ~> stream[r] # "open"
=============================================================================
