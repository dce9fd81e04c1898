------------------------- MODULE CloudGatewayProofs -------------------------
(***************************************************************************)
(* Proofs about CloudGateway, for any number of instances, runs, users,    *)
(* providers and keys: the environment that many users' keys pass through. *)
(***************************************************************************)
EXTENDS CloudGateway, TLAPS

\* The threads that hold the lock of their instance.
Holding == {"injecting", "running", "asking", "restoring"}
Env(r) == gw[run[r].home].env

\* What the proofs need of the types: all but the queues and the counters.
Typed ==
    /\ vault \in [Contexts -> [Providers -> [key : Values, master : Masters \union {NoKey}]]]
    /\ gw \in [Instances -> [master : Masters, env : [Mapped -> Values],
                             lock : Runs \union {NoRun}]]
    /\ run \in [Runs -> Thread]

\* Lock and thread agree, and a lock that is free leaves the environment alone.
LockInv ==
    /\ \A r \in Runs : run[r].at \in Holding \union {"queued", "opening"} =>
          run[r].home \in Instances
    /\ \A r \in Runs : run[r].at \in Holding => gw[run[r].home].lock = r
    /\ \A i \in Instances : gw[i].lock # NoRun =>
          run[gw[i].lock].at \in Holding /\ run[gw[i].lock].home = i
    /\ EnvironmentRestored

\* Of a run that holds the lock, a variable it has not saved is as it was, and
\* what it has saved is what it was.
SavedInv ==
    \A r \in Runs :
        /\ run[r].at \in Holding => \A p \in Mapped :
              /\ run[r].saved[p] = Unsaved => Env(r)[p] = BaseEnv[p]
              /\ run[r].saved[p] # Unsaved => run[r].saved[p] = BaseEnv[p]
        /\ run[r].at \notin Holding => run[r].saved = NothingSaved
        /\ run[r].at = "injecting" => \A p \in run[r].todo \intersect Mapped :
              run[r].saved[p] = Unsaved

\* Of a run that injects, what is left to do is in the vault, in force, and what
\* is done is in the environment.
KeyInv ==
    \A r \in Runs :
        /\ run[r].at \notin Holding \/ run[r].at = "injecting" =>
              run[r].sidecars = NothingSaved
        /\ run[r].at = "injecting" => \A p \in Mapped :
              /\ p \in run[r].todo => /\ vault[OwnerOf[r]][p].key # NoKey
                                     /\ vault[OwnerOf[r]][p].key \in run[r].inForce[p]
              /\ p \notin run[r].todo =>
                    \E k \in run[r].inForce[p] : Env(r)[p] = Effective(p, k)

IInv == Typed /\ LockInv /\ SavedInv /\ KeyInv /\ OwnKeysInForce

LEMMA NoThreadTyped ==
  /\ NoThread \in Thread
  /\ [NoThread EXCEPT !.at = "gone"] \in Thread
  /\ \A i \in Instances : [NoThread EXCEPT !.at = "done", !.home = i] \in Thread
  BY DEF NoThread, Thread, NothingSaved, Decisions

LEMMA InitInv == Init => IInv
  <1> SUFFICES ASSUME Init PROVE IInv
    OBVIOUS
  <1> USE CloudAssumption
  <1>1. Typed
    BY NoThreadTyped DEF Init, Typed, Values, Nothing
  <1>2. \A r \in Runs : run[r] = NoThread
    BY DEF Init
  <1>3. \A r \in Runs : run[r].at = "none" /\ run[r].saved = NothingSaved
                        /\ run[r].sidecars = NothingSaved
    BY <1>2 DEF NoThread
  <1>4. LockInv
    BY <1>3 DEF Init, LockInv, Holding, EnvironmentRestored
  <1>5. SavedInv /\ KeyInv /\ OwnKeysInForce
    BY <1>3 DEF SavedInv, KeyInv, OwnKeysInForce, Holding, NothingSaved
  <1> QED
    BY <1>1, <1>4, <1>5 DEF IInv

\* The holder of a lock is a run.
LEMMA Holder == ASSUME Typed, NEW i \in Instances PROVE gw[i].lock \in Runs \union {NoRun}
  BY DEF Typed

-----------------------------------------------------------------------------
(* The steps *)

\* A run that has its sidecars, or is about to restore, comes to another such
\* point: AskGate, Resume, Finish and PostGate.
LEMMA HeldStep ==
  ASSUME IInv, NEW r \in Runs, UNCHANGED <<vault, gw>>,
         \A s \in Runs \ {r} : run'[s] = run[s],
         run' \in [Runs -> Thread],
         run'[r].home = run[r].home, run'[r].saved = run[r].saved,
         run'[r].sidecars = run[r].sidecars, run'[r].inForce = run[r].inForce,
         run[r].at \in Holding \ {"injecting"}, run'[r].at \in Holding \ {"injecting"}
  PROVE  IInv'
  <1>1. \A s \in Runs : /\ run'[s].home = run[s].home /\ run'[s].saved = run[s].saved
                        /\ run'[s].sidecars = run[s].sidecars
                        /\ run'[s].inForce = run[s].inForce
                        /\ run'[s].at \in Holding <=> run[s].at \in Holding
                        /\ run'[s].at = "injecting" => run'[s] = run[s]
                        /\ run'[s].at \in Holding \/ run'[s] = run[s]
                        /\ run[s].at = "injecting" => run'[s] = run[s]
    OBVIOUS
  <1>2. Typed'
    BY DEF IInv, Typed
  <1>3. LockInv'
    BY <1>1 DEF IInv, Typed, LockInv, EnvironmentRestored
  <1>4. SavedInv'
    BY <1>1 DEF IInv, SavedInv, Env
  <1>5. KeyInv'
    BY <1>1 DEF IInv, KeyInv, Env
  <1>6. OwnKeysInForce'
    BY <1>1 DEF IInv, OwnKeysInForce
  <1> QED
    BY <1>2, <1>3, <1>4, <1>5, <1>6 DEF IInv

\* A key stored while a run injects is in force for it.
LEMMA PutKeyStep ==
  ASSUME IInv, NEW i \in Instances, NEW c \in Contexts, NEW p \in Providers,
         NEW k \in Keys, PutKey(i, c, p, k)
  PROVE  IInv'
  <1>1. /\ vault' = [vault EXCEPT ![c][p] = [key |-> k, master |-> gw[i].master]]
        /\ gw' = gw /\ k # NoKey /\ k \in Values
    BY CloudAssumption DEF PutKey, Values
  <1>2. vault' \in [Contexts -> [Providers -> [key : Values, master : Masters \union {NoKey}]]]
    BY <1>1 DEF IInv, Typed
  <1> DEFINE Grown(r) == [q \in Mapped |->
               IF q = p /\ OwnerOf[r] = c /\ run[r].at = "injecting"
               THEN run[r].inForce[q] \union {k} ELSE run[r].inForce[q]]
  <1>3. ASSUME NEW r \in Runs
        PROVE  /\ run'[r] = [run[r] EXCEPT !.inForce = Grown(r)]
               /\ run[r] \in Thread
    BY DEF PutKey, IInv, Typed
  <1> HIDE DEF Grown
  <1>4. ASSUME NEW r \in Runs
        PROVE  /\ run'[r].at = run[r].at /\ run'[r].home = run[r].home
               /\ run'[r].saved = run[r].saved /\ run'[r].sidecars = run[r].sidecars
               /\ run'[r].todo = run[r].todo /\ run'[r].inForce = Grown(r)
    BY <1>3 DEF Thread
  <1>5. ASSUME NEW r \in Runs PROVE Grown(r) \in [Mapped -> SUBSET Values]
    BY <1>1, <1>3 DEF Grown, Thread
  <1>6. ASSUME NEW r \in Runs PROVE run'[r] \in Thread
    BY <1>3, <1>5 DEF Thread
  <1>7. Typed'
    <2>1. run' = [r \in Runs |-> run'[r]]
      BY DEF PutKey
    <2>2. run' \in [Runs -> Thread]
      BY <2>1, <1>6
    <2> QED
      BY <2>2, <1>1, <1>2 DEF IInv, Typed
  <1>8. LockInv'
    <2>1. \A j \in Instances : gw[j].lock \in Runs \union {NoRun}
      BY Holder DEF IInv
    <2> QED
      BY <1>1, <1>4, <2>1 DEF IInv, LockInv, EnvironmentRestored
  <1>9. SavedInv'
    BY <1>1, <1>4 DEF IInv, SavedInv, Env
  <1>10. \A r \in Runs, q \in Mapped : run[r].inForce[q] \subseteq run'[r].inForce[q]
    BY <1>4 DEF Grown
  <1>11. \A r \in Runs, q \in Mapped : run[r].at = "injecting" =>
          \/ /\ vault'[OwnerOf[r]][q].key = k /\ k \in run'[r].inForce[q]
          \/ vault'[OwnerOf[r]][q].key = vault[OwnerOf[r]][q].key
    <2> TAKE r \in Runs, q \in Mapped
    <2>1. OwnerOf[r] \in Contexts /\ q \in Providers
      BY CloudAssumption
    <2>2. CASE OwnerOf[r] = c /\ q = p
      BY <2>1, <2>2, <1>1, <1>4 DEF IInv, Typed, Grown
    <2>3. CASE ~ (OwnerOf[r] = c /\ q = p)
      BY <2>1, <2>3, <1>1 DEF IInv, Typed
    <2> QED
      BY <2>2, <2>3
  <1>12. KeyInv'
    BY <1>1, <1>4, <1>10, <1>11 DEF IInv, KeyInv, Env
  <1>13. OwnKeysInForce'
    BY <1>4, <1>10 DEF IInv, OwnKeysInForce
  <1> QED
    BY <1>7, <1>8, <1>9, <1>12, <1>13 DEF IInv

\* A run before it has the lock: PostRun and OpenVault.
LEMMA EarlyStep ==
  ASSUME IInv, NEW r \in Runs, UNCHANGED <<vault, gw>>,
         \A s \in Runs \ {r} : run'[s] = run[s],
         run' \in [Runs -> Thread],
         run'[r].home \in Instances, run'[r].saved = run[r].saved,
         run'[r].sidecars = run[r].sidecars,
         run[r].at \notin Holding, run'[r].at \notin Holding
  PROVE  IInv'
  <1>1. Typed'
    BY DEF IInv, Typed
  <1>2. \A i \in Instances : gw[i].lock # r
    BY CloudAssumption DEF IInv, LockInv, Typed
  <1>3. LockInv'
    <2>1. \A j \in Instances : gw[j].lock \in Runs \union {NoRun}
      BY Holder DEF IInv
    <2>2. ASSUME NEW s \in Runs, run'[s].at \in Holding \union {"queued", "opening"}
          PROVE  run'[s].home \in Instances
      BY <2>2 DEF IInv, LockInv
    <2>3. ASSUME NEW s \in Runs, run'[s].at \in Holding
          PROVE  gw'[run'[s].home].lock = s
      BY <2>3 DEF IInv, LockInv
    <2>4. ASSUME NEW i \in Instances, gw'[i].lock # NoRun
          PROVE  run'[gw'[i].lock].at \in Holding /\ run'[gw'[i].lock].home = i
      BY <2>1, <2>4, <1>2 DEF IInv, LockInv
    <2>5. EnvironmentRestored'
      BY DEF IInv, LockInv, EnvironmentRestored
    <2> QED
      BY <2>2, <2>3, <2>4, <2>5 DEF LockInv
  <1>4. SavedInv' /\ KeyInv'
    BY DEF IInv, SavedInv, KeyInv, Env, Holding
  <1>5. OwnKeysInForce'
    BY DEF IInv, OwnKeysInForce, KeyInv, NothingSaved
  <1> QED
    BY <1>1, <1>3, <1>4, <1>5 DEF IInv

\* The lock is taken, and nothing is in the environment yet.
LEMMA AcquireStep ==
  ASSUME IInv, NEW r \in Runs, Acquire(r)
  PROVE  IInv'
  <1> DEFINE i == run[r].home
             stored == vault[OwnerOf[r]]
  <1>1. /\ i \in Instances /\ gw[i].lock = NoRun /\ gw[i].env = BaseEnv
        /\ run[r].saved = NothingSaved /\ run[r].sidecars = NothingSaved
    BY DEF Acquire, IInv, LockInv, SavedInv, KeyInv, EnvironmentRestored, Holding
  <1>2. /\ OwnerOf[r] \in Contexts
        /\ \A p \in Providers : stored[p].key \in Values
        /\ \A p \in Mapped : p \in Providers
    BY CloudAssumption DEF IInv, Typed
  <1>3. /\ run' = [run EXCEPT ![r] = Listed(r)] /\ vault' = vault
        /\ gw' = [gw EXCEPT ![i].lock = r]
    BY DEF Acquire, adminVars
  <1>4. /\ Listed(r).at = "injecting" /\ Listed(r).home = i
        /\ Listed(r).saved = NothingSaved /\ Listed(r).sidecars = NothingSaved
        /\ Listed(r).todo = {p \in Providers : stored[p].key # NoKey}
        /\ Listed(r).inForce = [p \in Mapped |-> {stored[p].key}]
        /\ Listed(r) \in Thread
    <2> DEFINE T == {p \in Providers : stored[p].key # NoKey}
               F == [p \in Mapped |-> {stored[p].key}]
    <2>1. run[r] \in Thread
      BY DEF IInv, Typed
    <2>2. T \in SUBSET Providers /\ F \in [Mapped -> SUBSET Values]
      BY <1>2
    <2>3. Listed(r) = [run[r] EXCEPT !.at = "injecting", !.todo = T, !.inForce = F]
      BY DEF Listed
    <2> HIDE DEF T, F
    <2>4. /\ Listed(r) \in Thread /\ Listed(r).at = "injecting"
          /\ Listed(r).home = run[r].home /\ Listed(r).saved = run[r].saved
          /\ Listed(r).sidecars = run[r].sidecars
          /\ Listed(r).todo = T /\ Listed(r).inForce = F
      BY <2>1, <2>2, <2>3 DEF Thread
    <2> QED
      BY <2>4, <1>1 DEF T, F
  <1>5. Typed'
    <2>1. run' \in [Runs -> Thread]
      BY <1>3, <1>4 DEF IInv, Typed
    <2>2. gw' \in [Instances -> [master : Masters, env : [Mapped -> Values],
                                 lock : Runs \union {NoRun}]]
      BY <1>1, <1>3 DEF IInv, Typed
    <2> QED
      BY <2>1, <2>2, <1>3 DEF IInv, Typed
  <1>6. /\ \A s \in Runs \ {r} : run'[s] = run[s]
        /\ run'[r] = Listed(r)
        /\ \A j \in Instances \ {i} : gw'[j] = gw[j]
        /\ gw'[i].lock = r /\ gw'[i].env = BaseEnv
        /\ \A j \in Instances : gw'[j].env = gw[j].env
    BY <1>1, <1>3 DEF IInv, Typed
  <1>7. /\ \A j \in Instances : gw[j].lock \in Runs \union {NoRun}
        /\ \A j \in Instances : gw[j].lock # r
    BY Holder, CloudAssumption DEF IInv, LockInv, Acquire, Holding
  <1>8. \A s \in Runs \ {r} : run[s].at \in Holding => run[s].home # i
    BY <1>1, CloudAssumption DEF IInv, LockInv
  <1>9. LockInv'
    <2>1. \A s \in Runs : run'[s].at \in Holding \union {"queued", "opening"} =>
             run'[s].home \in Instances
      BY <1>1, <1>4, <1>6 DEF IInv, LockInv
    <2>2. \A s \in Runs : run'[s].at \in Holding => gw'[run'[s].home].lock = s
      BY <1>4, <1>6, <1>8 DEF IInv, LockInv
    <2>3. \A j \in Instances : gw'[j].lock # NoRun =>
             run'[gw'[j].lock].at \in Holding /\ run'[gw'[j].lock].home = j
      BY <1>4, <1>6, <1>7 DEF IInv, LockInv, Holding
    <2>4. EnvironmentRestored'
      BY <1>6 DEF IInv, LockInv, EnvironmentRestored
    <2> QED
      BY <2>1, <2>2, <2>3, <2>4 DEF LockInv
  <1>10. SavedInv'
    <2>1. \A s \in Runs : run'[s].at \in Holding => run'[s].home \in Instances
      BY <1>9 DEF LockInv
    <2> QED
      BY <1>1, <1>4, <1>6, <2>1 DEF IInv, SavedInv, Env, Holding, NothingSaved
  <1>11. KeyInv'
    <2>1. \A p \in Mapped :
             /\ p \in Listed(r).todo =>
                   stored[p].key # NoKey /\ stored[p].key \in Listed(r).inForce[p]
             /\ p \notin Listed(r).todo =>
                   \E k \in Listed(r).inForce[p] : BaseEnv[p] = Effective(p, k)
      BY <1>2, <1>4 DEF Effective
    <2>2. \A s \in Runs \ {r} : run[s].at = "injecting" => run[s].home \in Instances
      BY DEF IInv, LockInv, Holding
    <2>3. \A s \in Runs \ {r} : run[s].at = "injecting" =>
             gw'[run'[s].home].env = gw[run[s].home].env
      BY <1>6, <2>2
    <2> QED
      BY <1>3, <1>4, <1>6, <2>1, <2>3 DEF IInv, KeyInv, Env, Holding
  <1>12. OwnKeysInForce'
    BY <1>4, <1>6 DEF IInv, OwnKeysInForce, NothingSaved
  <1> QED
    BY <1>5, <1>9, <1>10, <1>11, <1>12 DEF IInv

\* The sidecars start with the environment all keys have been put into.
LEMMA SpawnStep ==
  ASSUME IInv, NEW r \in Runs, Spawn(r)
  PROVE  IInv'
  <1>1. /\ run[r] \in Thread /\ run[r].home \in Instances
        /\ run[r].at = "injecting" /\ run[r].todo = {}
        /\ Env(r) \in [Mapped -> Values]
    BY DEF Spawn, IInv, Typed, LockInv, Holding, Env
  <1>2. run' = [run EXCEPT ![r].sidecars = Env(r), ![r].at = "running"]
    BY DEF Spawn, Env
  <1> gw' = gw /\ vault' = vault
    BY DEF Spawn, adminVars
  <1>3. /\ run'[r].at = "running" /\ run'[r].home = run[r].home
        /\ run'[r].saved = run[r].saved /\ run'[r].sidecars = Env(r)
        /\ run'[r].inForce = run[r].inForce
        /\ \A s \in Runs \ {r} : run'[s] = run[s]
        /\ run'[r] \in Thread
    BY <1>1, <1>2 DEF IInv, Typed, Thread
  <1>4. Typed'
    BY <1>2, <1>3 DEF IInv, Typed
  <1>5. \A s \in Runs : run'[s].home = run[s].home /\ run'[s].saved = run[s].saved
                        /\ (run'[s].at \in Holding <=> run[s].at \in Holding)
                        /\ (run'[s].at \in Holding \/ run'[s] = run[s])
    BY <1>1, <1>3 DEF Holding
  <1>6. LockInv'
    <2>1. \A j \in Instances : gw[j].lock \in Runs \union {NoRun}
      BY Holder DEF IInv
    <2> QED
      BY <1>5, <2>1 DEF IInv, LockInv, EnvironmentRestored
  <1>7. SavedInv'
    <2>1. \A s \in Runs : run'[s].at = "injecting" => run'[s] = run[s]
      BY <1>3
    <2>2. SavedInv
      BY DEF IInv
    <2> QED
      BY <1>5, <2>1, <2>2 DEF SavedInv, Env
  <1>8. KeyInv'
    <2>1. \A s \in Runs \ {r} : run'[s] = run[s]
      BY <1>3
    <2>2. run'[r].at \in Holding /\ run'[r].at # "injecting"
      BY <1>3 DEF Holding
    <2>3. KeyInv
      BY DEF IInv
    <2> QED
      BY <2>1, <2>2, <2>3 DEF KeyInv, Env
  <1>9. OwnKeysInForce'
    BY <1>1, <1>3 DEF IInv, OwnKeysInForce, KeyInv
  <1> QED
    BY <1>4, <1>6, <1>7, <1>8, <1>9 DEF IInv

\* One key is injected, skipped, or cannot be decrypted.
LEMMA InjectStep ==
  ASSUME IInv, NEW r \in Runs, NEW p \in Providers, Inject(r, p)
  PROVE  IInv'
  <1> DEFINE i == run[r].home
             stored == vault[OwnerOf[r]][p]
  <1>1. /\ run[r] \in Thread /\ i \in Instances /\ gw[i].lock = r
        /\ run[r].at = "injecting" /\ p \in run[r].todo
        /\ run[r].sidecars = NothingSaved
        /\ stored.key \in Values /\ Env(r) \in [Mapped -> Values]
    BY CloudAssumption
    DEF Inject, IInv, Typed, LockInv, KeyInv, Holding, Env
  <1> vault' = vault
    BY DEF Inject, adminVars
  <1>2. \A s \in Runs \ {r} : run'[s] = run[s]
    BY DEF Inject, IInv, Typed
  <1>3. /\ run'[r] \in Thread /\ run'[r].home = i /\ run'[r].sidecars = NothingSaved
        /\ run'[r].inForce = run[r].inForce /\ run'[r].todo = run[r].todo \ {p}
        /\ run'[r].at \in Holding
        /\ run'[r].at = "injecting" \/ run'[r].at = "restoring"
    <2> DEFINE new == [run[r].saved EXCEPT ![p] = gw[i].env[p]]
    <2>0. p \in Mapped => new \in [Mapped -> Values \union {Unsaved}]
      BY <1>1 DEF Thread, Env
    <2> HIDE DEF new
    <2>1. CASE p \notin Mapped
      <3>1. run'[r] = [run[r] EXCEPT !.todo = run[r].todo \ {p}]
        BY <2>1 DEF Inject, IInv, Typed
      <3> QED
        BY <1>1, <3>1 DEF Thread, Holding
    <2>2. CASE p \in Mapped /\ stored.master = gw[i].master
      <3>1. run'[r] = [run[r] EXCEPT !.todo = run[r].todo \ {p}, !.saved = new]
        BY <2>2 DEF Inject, IInv, Typed, new
      <3> QED
        BY <1>1, <2>0, <2>2, <3>1 DEF Thread, Holding
    <2>3. CASE p \in Mapped /\ stored.master # gw[i].master
      <3>1. run'[r] = [run[r] EXCEPT !.todo = run[r].todo \ {p}, !.saved = new,
                                     !.at = "restoring"]
        BY <2>3 DEF Inject, IInv, Typed, new
      <3> QED
        BY <1>1, <2>0, <2>3, <3>1 DEF Thread, Holding
    <2> QED
      BY <2>1, <2>2, <2>3
  <1>4. \A q \in Mapped \ {p} : run'[r].saved[q] = run[r].saved[q]
    BY <1>1 DEF Inject, IInv, Typed, Thread
  <1>5. /\ \A j \in Instances \ {i} : gw'[j] = gw[j]
        /\ gw'[i].lock = r /\ \A j \in Instances : gw'[j].lock = gw[j].lock
        /\ \A q \in Mapped \ {p} : gw'[i].env[q] = gw[i].env[q]
        /\ gw' \in [Instances -> [master : Masters, env : [Mapped -> Values],
                                  lock : Runs \union {NoRun}]]
    <2>1. CASE gw' = gw
      BY <1>1, <2>1 DEF IInv, Typed
    <2>2. CASE gw' = [gw EXCEPT ![i].env[p] = stored.key]
      BY <1>1, <2>2 DEF IInv, Typed
    <2> QED
      BY <2>1, <2>2 DEF Inject
  <1>6. p \in Mapped => /\ run'[r].saved[p] = gw[i].env[p]
                        /\ run'[r].at = "injecting" => gw'[i].env[p] = stored.key
    BY <1>1 DEF Inject, IInv, Typed, Thread
  <1>7. Typed'
    <2>1. run' \in [Runs -> Thread]
      <3>1. run' = [s \in Runs |-> run'[s]]
        BY DEF Inject, IInv, Typed
      <3>2. \A s \in Runs : run'[s] \in Thread
        BY <1>2, <1>3 DEF IInv, Typed
      <3> QED
        BY <3>1, <3>2
    <2> QED
      BY <2>1, <1>5 DEF IInv, Typed
  <1>8. \A s \in Runs \ {r} : run[s].at \in Holding => run[s].home # i
    BY <1>1 DEF IInv, LockInv
  <1>9. LockInv'
    <2>1. \A j \in Instances : gw[j].lock \in Runs \union {NoRun}
      BY Holder DEF IInv
    <2>2. \A s \in Runs : run'[s].at \in Holding \union {"queued", "opening"} =>
             run'[s].home \in Instances
      BY <1>1, <1>2, <1>3 DEF IInv, LockInv
    <2>3. \A s \in Runs : run'[s].at \in Holding => gw'[run'[s].home].lock = s
      BY <1>2, <1>3, <1>5, <1>8 DEF IInv, LockInv, Holding
    <2>4. \A j \in Instances : gw'[j].lock # NoRun =>
             run'[gw'[j].lock].at \in Holding /\ run'[gw'[j].lock].home = j
      BY <2>1, <1>1, <1>2, <1>3, <1>5 DEF IInv, LockInv
    <2>5. EnvironmentRestored'
      BY <1>1, <1>5, CloudAssumption DEF IInv, LockInv, EnvironmentRestored
    <2> QED
      BY <2>2, <2>3, <2>4, <2>5 DEF LockInv
  <1>10. \A s \in Runs \ {r} : run[s].at \in Holding =>
            gw'[run'[s].home].env = gw[run[s].home].env
    BY <1>2, <1>5, <1>8 DEF IInv, LockInv
  <1>11. SavedInv'
    <2>1. p \in Mapped => gw[i].env[p] = BaseEnv[p] /\ gw[i].env[p] # Unsaved
      BY <1>1, CloudAssumption DEF IInv, SavedInv, Env, Holding, Values
    <2>2. \A q \in Mapped :
             /\ run'[r].saved[q] = Unsaved => gw'[i].env[q] = BaseEnv[q]
             /\ run'[r].saved[q] # Unsaved => run'[r].saved[q] = BaseEnv[q]
             /\ q \in run'[r].todo => run'[r].saved[q] = Unsaved
      BY <1>1, <1>3, <1>4, <1>5, <1>6, <2>1 DEF IInv, SavedInv, Env, Holding
    <2> QED
      BY <1>2, <1>3, <1>10, <2>2 DEF IInv, SavedInv, Env
  <1>12. KeyInv'
    <2>1. \A q \in Mapped : run'[r].at = "injecting" =>
             /\ q \in run'[r].todo => /\ vault[OwnerOf[r]][q].key # NoKey
                                      /\ vault[OwnerOf[r]][q].key \in run'[r].inForce[q]
             /\ q \notin run'[r].todo =>
                   \E k \in run'[r].inForce[q] : gw'[i].env[q] = Effective(q, k)
      BY <1>1, <1>3, <1>5, <1>6 DEF IInv, KeyInv, Env, Effective
    <2>2. \A s \in Runs \ {r} : run[s].at = "injecting" =>
             gw'[run'[s].home].env = gw[run[s].home].env
      BY <1>10 DEF Holding
    <2> QED
      BY <1>2, <1>3, <2>1, <2>2 DEF IInv, KeyInv, Env
  <1>13. OwnKeysInForce'
    BY <1>2, <1>3 DEF IInv, OwnKeysInForce, NothingSaved
  <1> QED
    BY <1>7, <1>9, <1>11, <1>12, <1>13 DEF IInv

\* The environment is as it was when the lock is released.
LEMMA RestoreStep ==
  ASSUME IInv, NEW r \in Runs, Restore(r)
  PROVE  IInv'
  <1> DEFINE i == run[r].home
             done == [NoThread EXCEPT !.at = "done", !.home = i]
  <1>1. i \in Instances /\ gw[i].lock = r /\ run[r].at \in Holding
    BY DEF Restore, IInv, LockInv, Holding
  <1>2. Restored(r) = BaseEnv
    <2>1. \A p \in Mapped : Restored(r)[p] = BaseEnv[p]
      BY <1>1 DEF Restored, IInv, SavedInv, Env
    <2> QED
      BY <2>1, CloudAssumption DEF Restored
  <1> vault' = vault
    BY DEF Restore, adminVars
  <1>3. /\ done \in Thread /\ done.at = "done" /\ done.saved = NothingSaved
        /\ done.sidecars = NothingSaved
    BY <1>1, NoThreadTyped DEF NoThread
  <1>4. /\ run' = [run EXCEPT ![r] = done]
        /\ gw' = [gw EXCEPT ![i].env = BaseEnv, ![i].lock = NoRun]
    BY <1>2 DEF Restore
  <1> HIDE DEF done
  <1>5. /\ run'[r] = done /\ \A s \in Runs \ {r} : run'[s] = run[s]
        /\ gw'[i].lock = NoRun /\ gw'[i].env = BaseEnv
        /\ \A j \in Instances \ {i} : gw'[j] = gw[j]
    BY <1>1, <1>4 DEF IInv, Typed
  <1>6. Typed'
    BY <1>1, <1>3, <1>4, CloudAssumption DEF IInv, Typed, Values
  <1>7. \A s \in Runs \ {r} : run[s].at \in Holding => run[s].home # i
    BY <1>1 DEF IInv, LockInv
  <1>8. \A s \in Runs \ {r} : run[s].at \in Holding =>
           gw'[run'[s].home] = gw[run[s].home]
    BY <1>5, <1>7 DEF IInv, LockInv
  <1>9. LockInv'
    <2>1. \A j \in Instances : gw[j].lock \in Runs \union {NoRun}
      BY Holder DEF IInv
    <2>2. \A s \in Runs : run'[s].at \in Holding \union {"queued", "opening"} =>
             run'[s].home \in Instances
      BY <1>3, <1>5 DEF IInv, LockInv, Holding
    <2>3. \A s \in Runs : run'[s].at \in Holding => gw'[run'[s].home].lock = s
      BY <1>3, <1>5, <1>8 DEF IInv, LockInv, Holding
    <2>4. \A j \in Instances : gw'[j].lock # NoRun =>
             run'[gw'[j].lock].at \in Holding /\ run'[gw'[j].lock].home = j
      BY <2>1, <1>1, <1>5 DEF IInv, LockInv
    <2>5. EnvironmentRestored'
      BY <1>5 DEF IInv, LockInv, EnvironmentRestored
    <2> QED
      BY <2>2, <2>3, <2>4, <2>5 DEF LockInv
  <1>10. SavedInv'
    BY <1>3, <1>5, <1>8 DEF IInv, SavedInv, Env, Holding
  <1>11. KeyInv'
    <2>1. \A s \in Runs \ {r} : run[s].at = "injecting" =>
             gw'[run'[s].home] = gw[run[s].home]
      BY <1>8 DEF Holding
    <2> QED
      BY <1>3, <1>5, <2>1 DEF IInv, KeyInv, Env, Holding
  <1>12. OwnKeysInForce'
    BY <1>3, <1>5 DEF IInv, OwnKeysInForce, NothingSaved
  <1> QED
    BY <1>6, <1>9, <1>10, <1>11, <1>12 DEF IInv

\* A process that is restarted loses its threads and starts from its own keys.
LEMMA RestartStep ==
  ASSUME IInv, NEW i \in Instances, NEW m \in Masters, Restart(i, m)
  PROVE  IInv'
  <1> DEFINE lost == [NoThread EXCEPT !.at = "gone"]
             fresh == [master |-> m, env |-> BaseEnv, lock |-> NoRun]
  <1> vault' = vault
    BY DEF Restart
  <1>1. /\ lost \in Thread /\ lost.at = "gone" /\ lost.saved = NothingSaved
        /\ lost.sidecars = NothingSaved
    BY NoThreadTyped DEF NoThread
  <1>2. /\ gw' = [gw EXCEPT ![i] = fresh]
        /\ run' = [r \in Runs |-> IF run[r].home = i THEN lost ELSE run[r]]
    BY DEF Restart
  <1> HIDE DEF lost
  <1>3. /\ gw'[i].lock = NoRun /\ gw'[i].env = BaseEnv
        /\ \A j \in Instances \ {i} : gw'[j] = gw[j]
        /\ \A r \in Runs : \/ run'[r] = lost
                           \/ run'[r] = run[r] /\ run[r].home # i
        /\ \A r \in Runs : run[r].home # i => run'[r] = run[r]
    BY <1>2 DEF IInv, Typed
  <1>4. Typed'
    BY <1>1, <1>2, CloudAssumption DEF IInv, Typed, Values
  <1>5. \A r \in Runs : run'[r].at \in Holding \union {"queued", "opening"} =>
           /\ run'[r] = run[r] /\ run[r].home # i /\ run[r].home \in Instances
           /\ gw'[run'[r].home] = gw[run[r].home]
    BY <1>1, <1>3 DEF IInv, LockInv, Holding
  <1>6. LockInv'
    <2>1. \A j \in Instances : gw[j].lock \in Runs \union {NoRun}
      BY Holder DEF IInv
    <2>2. \A r \in Runs : run'[r].at \in Holding \union {"queued", "opening"} =>
             run'[r].home \in Instances
      BY <1>5
    <2>3. \A r \in Runs : run'[r].at \in Holding => gw'[run'[r].home].lock = r
      BY <1>5 DEF IInv, LockInv
    <2>4. \A j \in Instances : gw'[j].lock # NoRun =>
             run'[gw'[j].lock].at \in Holding /\ run'[gw'[j].lock].home = j
      BY <2>1, <1>3 DEF IInv, LockInv
    <2>5. EnvironmentRestored'
      BY <1>3 DEF IInv, LockInv, EnvironmentRestored
    <2> QED
      BY <2>2, <2>3, <2>4, <2>5 DEF LockInv
  <1>7. SavedInv'
    BY <1>1, <1>3, <1>5 DEF IInv, SavedInv, Env, Holding
  <1>8. KeyInv'
    <2>1. \A r \in Runs : run'[r].at = "injecting" =>
             run'[r] = run[r] /\ gw'[run'[r].home] = gw[run[r].home]
      BY <1>5 DEF Holding
    <2> QED
      BY <1>1, <1>3, <2>1 DEF IInv, KeyInv, Env, Holding
  <1>9. OwnKeysInForce'
    BY <1>1, <1>3 DEF IInv, OwnKeysInForce, NothingSaved
  <1> QED
    BY <1>4, <1>6, <1>7, <1>8, <1>9 DEF IInv

\* Every step preserves the invariant.
LEMMA StepInv == IInv /\ [Next]_vars => IInv'
  <1> SUFFICES ASSUME IInv, [Next]_vars PROVE IInv'
    OBVIOUS
  <1> run \in [Runs -> Thread]
    BY DEF IInv, Typed
  <1>1. CASE UNCHANGED <<vault, gw, run>>
    BY <1>1 DEF IInv, Typed, LockInv, SavedInv, KeyInv, OwnKeysInForce,
                EnvironmentRestored, Env
  <1>2. ASSUME NEW c \in Contexts, Issue(c) PROVE IInv'
    BY <1>1, <1>2 DEF Issue
  <1>3. ASSUME NEW i \in Instances, NEW c \in Contexts, NEW p \in Providers,
               NEW k \in Keys, PutKey(i, c, p, k)
        PROVE  IInv'
    BY <1>3, PutKeyStep
  <1>4. ASSUME NEW i \in Instances, NEW r \in Runs, PostRun(i, r) PROVE IInv'
    <2>1. /\ run' = [run EXCEPT ![r].home = i, ![r].at = "opening"]
          /\ run[r].at = "none" /\ UNCHANGED <<vault, gw>>
      BY <1>4 DEF PostRun
    <2>2. run' \in [Runs -> Thread]
      BY <2>1 DEF Thread
    <2> QED
      BY <2>1, <2>2, EarlyStep DEF Thread, Holding
  <1>5. ASSUME NEW i \in Instances, NEW r \in Runs, Open(i, r) PROVE IInv'
    BY <1>1, <1>5 DEF Open, adminVars
  <1>6. ASSUME NEW i \in Instances, NEW r \in Runs, NEW d \in Decisions,
               PostGate(i, r, d)
        PROVE  IInv'
    <2>1. /\ run' = [run EXCEPT ![r].answer = d] /\ run[r].at = "asking"
          /\ UNCHANGED <<vault, gw>>
      BY <1>6 DEF PostGate, adminVars
    <2> QED
      BY <2>1, HeldStep DEF Thread, Holding
  <1>7. ASSUME NEW r \in Runs, Deliver(r) PROVE IInv'
    BY <1>1, <1>7 DEF Deliver, adminVars
  <1>8. ASSUME NEW r \in Runs, OpenVault(r) PROVE IInv'
    <2>1. PICK to \in {"queued", "dead"} : run' = [run EXCEPT ![r].at = to]
      BY <1>8 DEF OpenVault, Goes
    <2>2. run[r].at = "opening" /\ run[r].home \in Instances /\ UNCHANGED <<vault, gw>>
      BY <1>8 DEF OpenVault, adminVars, IInv, LockInv
    <2> QED
      BY <2>1, <2>2, EarlyStep DEF Thread, Holding
  <1>9. ASSUME NEW r \in Runs, Acquire(r) PROVE IInv'
    BY <1>9, AcquireStep
  <1>10. ASSUME NEW r \in Runs, NEW p \in Providers, Inject(r, p) PROVE IInv'
    BY <1>10, InjectStep
  <1>11. ASSUME NEW r \in Runs, Spawn(r) PROVE IInv'
    BY <1>11, SpawnStep
  <1>12. ASSUME NEW r \in Runs, AskGate(r) \/ Resume(r) \/ Finish(r) PROVE IInv'
    <2>1. /\ run[r].at \in {"running", "asking"} /\ UNCHANGED <<vault, gw>>
          /\ \E to \in {"running", "asking", "restoring"} : run' = [run EXCEPT ![r].at = to]
      BY <1>12 DEF AskGate, Resume, Finish, Goes, adminVars
    <2>2. PICK to \in {"running", "asking", "restoring"} : run' = [run EXCEPT ![r].at = to]
      BY <2>1
    <2> QED
      BY <2>1, <2>2, HeldStep DEF Thread, Holding
  <1>13. ASSUME NEW r \in Runs, Restore(r) PROVE IInv'
    BY <1>13, RestoreStep
  <1>14. ASSUME NEW i \in Instances, NEW m \in Masters, Restart(i, m) PROVE IInv'
    BY <1>14, RestartStep
  <1>15. CASE UNCHANGED vars
    BY <1>1, <1>15 DEF vars
  <1>16. CASE Next
    <2>1. ASSUME NEW r \in Runs, Step(r) PROVE IInv'
      BY <2>1, <1>8, <1>9, <1>10, <1>11, <1>12, <1>13 DEF Step
    <2> QED
      BY <1>16, <1>2, <1>3, <1>4, <1>5, <1>6, <1>7, <1>14, <2>1 DEF Next
  <1> QED
    BY <1>15, <1>16

THEOREM Invariance == Spec => []IInv
  <1> QED
    BY InitInv, StepInv, PTL DEF Spec

\* For any number of users, runs and instances, with restarts at any moment and
\* keys that cannot be decrypted: outside of a run the environment of a gateway
\* is the one it was started with (_run_bg).
THEOREM EnvironmentIsRestored == Spec => []EnvironmentRestored
  <1>1. IInv => EnvironmentRestored
    BY DEF IInv, LockInv
  <1> QED
    BY <1>1, Invariance, PTL

\* And whatever the interleaving, the sidecars of a run see keys of its own
\* owner only, in force since the run had its turn.
THEOREM OwnKeysAreInForce == Spec => []OwnKeysInForce
  <1>1. IInv => OwnKeysInForce
    BY DEF IInv
  <1> QED
    BY <1>1, Invariance, PTL

-----------------------------------------------------------------------------
(* Types *)

\* The rest of the types: the admin's side, the queues and the streams.
Signs == {"gate", "result", "error", "_end"}
RestTyped ==
    /\ issued \subseteq Contexts /\ shared \subseteq Runs
    /\ events \in [Runs -> Seq(Signs)]
    /\ stream \in [Runs -> {"closed", "open", "ended", "broken"}]
    /\ puts \in Nat /\ restarts \in Nat

\* A thread that says something says it in the words of a stream.
LEMMA SaysTyped ==
  ASSUME events \in [Runs -> Seq(Signs)], NEW r \in Runs, NEW sign \in Signs,
         Says(r, <<sign>>)
  PROVE  events' \in [Runs -> Seq(Signs)]
  <1>1. events[r] \o <<sign>> \in Seq(Signs)
    OBVIOUS
  <1> QED
    BY <1>1 DEF Says

LEMMA RestStep == RestTyped /\ [Next]_vars => RestTyped'
  <1> SUFFICES ASSUME RestTyped, [Next]_vars PROVE RestTyped'
    OBVIOUS
  <1>1. CASE UNCHANGED <<issued, shared, events, stream, puts, restarts>>
    BY <1>1 DEF RestTyped
  <1>2. ASSUME NEW r \in Runs, Step(r) PROVE RestTyped'
    <2>1. UNCHANGED <<issued, shared, stream, puts, restarts>>
      BY <1>2 DEF Step, OpenVault, Acquire, Inject, Spawn, AskGate, Resume, Finish,
                  Restore, adminVars
    <2>2. UNCHANGED events \/ \E sign \in Signs : Says(r, <<sign>>)
      BY <1>2 DEF Step, OpenVault, Acquire, Inject, Spawn, AskGate, Resume, Finish,
                  Restore, Signs
    <2>3. events' \in [Runs -> Seq(Signs)]
      BY <2>2, SaysTyped DEF RestTyped
    <2> QED
      BY <2>1, <2>3 DEF RestTyped
  <1>3. ASSUME NEW r \in Runs, Deliver(r) PROVE RestTyped'
    <2>1. Tail(events[r]) \in Seq(Signs)
      BY <1>3 DEF Deliver, RestTyped
    <2>2. events' \in [Runs -> Seq(Signs)]
      BY <1>3, <2>1 DEF Deliver, RestTyped
    <2>3. stream' \in [Runs -> {"closed", "open", "ended", "broken"}]
      BY <1>3 DEF Deliver, RestTyped
    <2> QED
      BY <1>3, <2>2, <2>3 DEF Deliver, adminVars, RestTyped
  <1>4. ASSUME NEW i \in Instances, NEW m \in Masters, Restart(i, m) PROVE RestTyped'
    <2>1. <<>> \in Seq(Signs)
      OBVIOUS
    <2>2. events' \in [Runs -> Seq(Signs)]
      BY <1>4, <2>1 DEF Restart, RestTyped
    <2>3. stream' \in [Runs -> {"closed", "open", "ended", "broken"}]
      BY <1>4 DEF Restart, RestTyped
    <2> QED
      BY <1>4, <2>2, <2>3 DEF Restart, RestTyped
  <1>5. ASSUME NEW c \in Contexts, Issue(c) PROVE RestTyped'
    BY <1>5 DEF Issue, RestTyped
  <1>6. ASSUME NEW i \in Instances, NEW c \in Contexts, NEW p \in Providers, NEW k \in Keys,
               PutKey(i, c, p, k)
        PROVE  RestTyped'
    BY <1>6 DEF PutKey, RestTyped
  <1>7. ASSUME NEW i \in Instances, NEW r \in Runs, PostRun(i, r) PROVE RestTyped'
    BY <1>7 DEF PostRun, Stored, RestTyped
  <1>8. ASSUME NEW i \in Instances, NEW r \in Runs, Open(i, r) PROVE RestTyped'
    BY <1>8 DEF Open, adminVars, RestTyped
  <1>9. ASSUME NEW i \in Instances, NEW r \in Runs, NEW d \in Decisions, PostGate(i, r, d)
        PROVE  RestTyped'
    BY <1>1, <1>9 DEF PostGate, adminVars
  <1> QED
    BY <1>1, <1>2, <1>3, <1>4, <1>5, <1>6, <1>7, <1>8, <1>9 DEF Next, vars

\* Type correctness for any number of instances, users and runs: a thread that
\* was queued has a home, what it saved and the environment it put there are
\* keys, and every queue holds the events a stream knows.
THEOREM CloudTypeCorrect == Spec => []TypeOK
  <1>1. Init => RestTyped
    BY CloudAssumption DEF Init, RestTyped
  <1>2. IInv /\ RestTyped => TypeOK
    BY DEF IInv, Typed, RestTyped, Signs, TypeOK
  <1> QED
    BY <1>1, <1>2, RestStep, Invariance, PTL DEF Spec

=============================================================================
