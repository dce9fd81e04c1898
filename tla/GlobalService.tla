---------------------------- MODULE GlobalService ---------------------------
(***************************************************************************)
(* The deployed cross-user service: deploy/global_service.py in front of   *)
(* memory/global_store.py, called over HTTP by memory/remote_global.py.    *)
(*                                                                         *)
(* One handler thread serves one request; an instance runs its handlers    *)
(* one at a time under _lock, but promote and revoke first SELECT a row    *)
(* and later write what Python computed from it, so two instances on one   *)
(* Postgres database interleave between the two.  A client waits at most   *)
(* 20 seconds for its answer; the handler of a request it gave up on still *)
(* runs.                                                                   *)
(*                                                                         *)
(* The committed table is the variable rows of GlobalMemory, which this    *)
(* module extends: what it is shown to implement is the Spec of that one.  *)
(*                                                                         *)
(* Left out: query and status, which the clients of this repository call   *)
(* only to display or to serve lessons, and vote_down, which has no HTTP   *)
(* route (module GlobalMemory has query and vote_down).                    *)
(***************************************************************************)
EXTENDS GlobalMemory

CONSTANTS
    Instances,      \* processes of global_service.py on the same database
    Threads,        \* handler threads, over all instances
    MaxTimeouts,    \* bound on the clients' timeouts, for TLC
    MaxCalls        \* bound on the calls of one user, for TLC

ASSUME ServiceAssumption == MaxTimeouts \in Nat /\ MaxCalls \in Nat

VARIABLES
    thread,     \* thread[t] is what handler thread t is doing
    failedTx,   \* the instances whose connection is in a failed transaction
    answered,   \* answered[f][s] is the last call of user f for lesson s, if
                \* it was answered ok, and "none" as soon as f calls again
    calls,      \* how many calls each user has made
    timeouts    \* how many timeouts there have been

serviceVars == <<rows, thread, failedTx, answered, calls, timeouts>>

Ops == {"promote", "revoke"}

\* A handler thread: waiting for _lock, or between its SELECT and its write.
\* waited says that the client is still waiting for the answer.
Thread == [pc : {"waiting", "writing"}, op : Ops, inst : Instances,
           from : Fingerprints, sig : Signatures, waited : BOOLEAN,
           found : BOOLEAN, seen : SUBSET Fingerprints]

Idle == [pc |-> "idle"]

ServiceTypeOK ==
    /\ TypeOK
    /\ thread \in [Threads -> Thread \union {Idle}]
    /\ failedTx \subseteq Instances
    /\ answered \in [Fingerprints -> [Signatures -> Ops \union {"none"}]]
    /\ calls \in [Fingerprints -> Nat]
    /\ timeouts \in Nat

ServiceInit ==
    /\ Init
    /\ thread = [t \in Threads |-> Idle]
    /\ failedTx = {}
    /\ answered = [f \in Fingerprints |-> [s \in Signatures |-> "none"]]
    /\ calls = [f \in Fingerprints |-> 0]
    /\ timeouts = 0

-----------------------------------------------------------------------------
Busy(t) == thread[t].pc # "idle"

\* The client of user f is blocked in urlopen.
Blocked(f) == \E t \in Threads :
                 Busy(t) /\ thread[t].from = f /\ thread[t].waited

\* Mutant of Locked: the handlers run without _lock.
NeverLocked(i) == FALSE

\* _lock of instance i is held by a handler.
Locked(i) == \E t \in Threads : thread[t].pc = "writing" /\ thread[t].inst = i

Finish(t) == thread' = [thread EXCEPT ![t] = Idle]

\* _post: user f sends a request, which some instance accepts.
Call(f, t, i, op, s) ==
    /\ ~ Blocked(f)
    /\ ~ Busy(t)
    /\ calls[f] < MaxCalls
    /\ thread' = [thread EXCEPT ![t] =
                    [pc |-> "waiting", op |-> op, inst |-> i, from |-> f,
                     sig |-> s, waited |-> TRUE, found |-> FALSE, seen |-> {}]]
    /\ answered' = [answered EXCEPT ![f][s] = "none"]
    /\ calls' = [calls EXCEPT ![f] = @ + 1]
    /\ UNCHANGED <<rows, failedTx, timeouts>>

\* Mutant of Begin: desensitize() is not asked.
BeginUnchecked(t) ==
    LET th == thread[t] IN
    /\ th.pc = "waiting"
    /\ ~ Locked(th.inst)
    /\ IF \/ th.inst \in failedTx
          \/ th.op = "revoke" /\ rows[th.sig].status = "absent"
       THEN Finish(t)
       ELSE thread' = [thread EXCEPT ![t].pc = "writing",
                                     ![t].found = (rows[th.sig].status # "absent"),
                                     ![t].seen = rows[th.sig].contributors]
    /\ UNCHANGED <<rows, failedTx, answered, calls, timeouts>>

\* The handler has _lock and runs up to its SELECT.  It ends there when
\* desensitize() refuses the lesson or there is nothing to revoke; on a
\* connection in a failed transaction the SELECT raises.
Begin(t) ==
    LET th == thread[t]
        row == rows[th.sig] IN
    /\ th.pc = "waiting"
    /\ ~ Locked(th.inst)
    /\ IF \/ th.inst \in failedTx
          \/ th.op = "promote" /\ th.sig \notin Abstract
          \/ th.op = "revoke" /\ row.status = "absent"
       THEN Finish(t)
       ELSE thread' = [thread EXCEPT ![t].pc = "writing",
                                     ![t].found = (row.status # "absent"),
                                     ![t].seen = row.contributors]
    /\ UNCHANGED <<rows, failedTx, answered, calls, timeouts>>

\* Mutant of Written: the contributors are merged in the database, the status
\* and the count are still those computed from what was read.
WrittenMerged(th) ==
    LET row == rows[th.sig] IN
    IF th.op = "revoke"
    THEN [Revoked(row, th.seen, th.from) EXCEPT
             !.contributors = row.contributors \ {th.from}]
    ELSE IF th.found
    THEN [Promoted(row, th.seen, th.from) EXCEPT
             !.contributors = row.contributors \union {th.from}]
    ELSE Inserted(th.from)

\* The row a handler writes, from what it read.
Written(th) ==
    IF th.op = "revoke" THEN Revoked(rows[th.sig], th.seen, th.from)
    ELSE IF th.found THEN Promoted(rows[th.sig], th.seen, th.from)
    ELSE Inserted(th.from)

\* The write and its commit.  An INSERT that finds the row of another
\* instance raises on the primary key, and psycopg refuses every later
\* statement of the connection: nothing in the code rolls back.
Commit(t) ==
    LET th == thread[t] IN
    /\ th.pc = "writing"
    /\ IF ~ th.found /\ rows[th.sig].status # "absent"
       THEN /\ failedTx' = failedTx \union {th.inst}
            /\ UNCHANGED <<rows, answered>>
       ELSE /\ rows' = [rows EXCEPT ![th.sig] = Written(th)]
            /\ answered' = IF th.waited
                           THEN [answered EXCEPT ![th.from][th.sig] = th.op]
                           ELSE answered
            /\ UNCHANGED failedTx
    /\ Finish(t)
    /\ UNCHANGED <<calls, timeouts>>

\* urlopen raises after its timeout: the user may go on, the handler does too.
Timeout(t) ==
    /\ Busy(t)
    /\ thread[t].waited
    /\ timeouts < MaxTimeouts
    /\ thread' = [thread EXCEPT ![t].waited = FALSE]
    /\ timeouts' = timeouts + 1
    /\ UNCHANGED <<rows, failedTx, answered, calls>>

\* An instance dies and is started again: its handlers are gone, what they
\* had not committed is rolled back, the new connection is sound.
Restart(i) ==
    /\ thread' = [t \in Threads |->
                    IF Busy(t) /\ thread[t].inst = i THEN Idle ELSE thread[t]]
    /\ failedTx' = failedTx \ {i}
    /\ UNCHANGED <<rows, answered, calls, timeouts>>

ServiceNext ==
    \/ \E f \in Fingerprints, t \in Threads, i \in Instances,
          op \in Ops, s \in Signatures : Call(f, t, i, op, s)
    \/ \E t \in Threads : Begin(t) \/ Commit(t) \/ Timeout(t)
    \/ \E i \in Instances : Restart(i)

ServiceSpec == ServiceInit /\ [][ServiceNext]_serviceVars

-----------------------------------------------------------------------------
(* Properties *)

\* Whatever the number of instances and however their reads and writes
\* interleave, no lesson is active without its gate (global_store.py:42 and
\* :65 write the contributors and the status computed from them together).
GateSurvivesRaces == QualityGate /\ CountsDistinctContributors

\* The service does what GlobalMemory promises, one atomic operation at a
\* time (the handlers under _lock, global_service.py:35).
ImplementsGlobalMemory == Spec

\* A user whose revocation was answered ok, and who asked for nothing since,
\* is no contributor of that lesson (docs/ARCHITECTURE.md:146, a contribution
\* can be withdrawn at any time).
RevocationHolds ==
    \A f \in Fingerprints, s \in Signatures :
        answered[f][s] = "revoke" => f \notin rows[s].contributors

\* A promotion that was answered ok counts until its user calls again, even
\* when others promote or revoke the same lesson meanwhile.
PromotionHolds ==
    \A f \in Fingerprints, s \in Signatures :
        answered[f][s] = "promote" => f \in rows[s].contributors

\* While no client has given up on an answer, what was answered ok stands.
AnswersStand == timeouts = 0 => RevocationHolds /\ PromotionHolds

\* No instance refuses all work because two users met on a new lesson
\* (deploy/STORAGE.md:32 describes the insertion as safe under concurrency): TLC
\* violates it with two instances, as the README tells.
NoInstanceWedged == failedTx = {}
=============================================================================
