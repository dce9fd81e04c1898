------------------------- MODULE GlobalMemoryProofs -------------------------
(***************************************************************************)
(* Proofs about the global memory: its table (GlobalMemory) for any sets   *)
(* of signatures and fingerprints and any gate of two contributors or      *)
(* more, the service in front of it (GlobalService) for any number of      *)
(* instances and threads, and the stores that feed it (Federation).        *)
(*                                                                         *)
(* The status of a row follows the cardinality of its contributors, but    *)
(* promote computes both from what it read: the invariant of the table     *)
(* must carry the gate, the count and the reuse of pending rows together.  *)
(*                                                                         *)
(* Lost updates cost the service's callers their contributions, never the  *)
(* gate; with one instance its lock makes it implement the table.  The     *)
(* federation implements the table too, and its own invariant ties the     *)
(* contributors counted there, and the marks of the stores, to what        *)
(* happened in another place and at another time.                          *)
(***************************************************************************)
EXTENDS GlobalService, Federation, FiniteSetTheorems, TLAPS

\* What is known of one row, for every row.
RowInv(row) ==
    /\ row.status = "absent" => row = NoRow
    /\ row.status = "active" => Cardinality(row.contributors) >= MinContributors
    /\ row.status = "pending" =>
           Cardinality(row.contributors) \in 1 .. (MinContributors - 1)
    /\ row.repro_count = Cardinality(row.contributors)
    /\ row.status = "pending" => row.reuse_count = 0

\* The inductive invariant: the four invariants the runs check, and that a
\* signature without a row has no trace.
IInv == TypeOK /\ \A s \in Signatures : RowInv(rows[s])

-----------------------------------------------------------------------------
\* Cardinalities of contributor sets are natural numbers, one more or one
\* less when a contributor is added or removed.
LEMMA ContributorCount ==
  ASSUME NEW C \in SUBSET Fingerprints, NEW f \in Fingerprints
  PROVE  /\ IsFiniteSet(C)
         /\ Cardinality(C) \in Nat
         /\ Cardinality(C \union {f}) \in Nat
         /\ Cardinality(C \ {f}) \in Nat
         /\ Cardinality(C \union {f}) =
              IF f \in C THEN Cardinality(C) ELSE Cardinality(C) + 1
         /\ C \union {f} \in SUBSET Fingerprints
         /\ C \ {f} \in SUBSET Fingerprints
  <1>1. IsFiniteSet(C)
    BY FS_Subset, FingerprintsAssumption
  <1>2. IsFiniteSet(C \union {f}) /\ IsFiniteSet(C \ {f})
    BY <1>1, FS_AddElement, FS_RemoveElement
  <1>3. /\ Cardinality(C) \in Nat
        /\ Cardinality(C \union {f}) \in Nat
        /\ Cardinality(C \ {f}) \in Nat
    BY <1>1, <1>2, FS_CardinalityType
  <1>4. Cardinality(C \union {f}) =
          IF f \in C THEN Cardinality(C) ELSE Cardinality(C) + 1
    BY <1>1, FS_AddElement
  <1> QED
    BY <1>1, <1>3, <1>4

\* The row inserted by the first promotion is pending below the gate.
LEMMA InsertedRow ==
  ASSUME NEW f \in Fingerprints
  PROVE  Inserted(f) \in Row /\ RowInv(Inserted(f))
  <1>1. Cardinality({f}) = 1
    BY FS_Singleton
  <1>2. 1 \in 1 .. (MinContributors - 1)
    BY GateAssumption
  <1> QED
    BY <1>1, <1>2 DEF Inserted, NoRow, Row, RowInv

\* A promotion of an existing row keeps the row invariant.
LEMMA PromotedRow ==
  ASSUME NEW row \in Row, RowInv(row), row.status # "absent",
         NEW f \in Fingerprints
  PROVE  /\ Promoted(row, row.contributors, f) \in Row
         /\ RowInv(Promoted(row, row.contributors, f))
  <1> DEFINE C == row.contributors
             D == C \union {f}
             new == Promoted(row, C, f)
  <1>1. C \in SUBSET Fingerprints
    BY DEF Row
  <1>2. /\ Cardinality(C) \in Nat /\ Cardinality(D) \in Nat
        /\ Cardinality(D) = IF f \in C THEN Cardinality(C) ELSE Cardinality(C) + 1
        /\ D \in SUBSET Fingerprints
    BY <1>1, ContributorCount
  <1>3. new \in Row
    BY <1>2 DEF Promoted, Row
  <1>4. /\ new.contributors = D /\ new.repro_count = Cardinality(D)
        /\ new.reuse_count = row.reuse_count
        /\ new.status = IF row.status = "retracted" THEN "retracted"
                        ELSE IF Cardinality(D) >= MinContributors
                             THEN "active" ELSE "pending"
    BY DEF Promoted, Row
  <1>5. Cardinality(D) >= 1
    <2>1. IsFiniteSet(D) /\ f \in D
      BY <1>2, FS_Subset, FingerprintsAssumption
    <2>2. Cardinality(D) # 0
      BY <2>1, FS_EmptySet
    <2> QED
      BY <2>2, <1>2
  <1>6. new.status = "pending" => row.status = "pending"
    BY <1>2, <1>4, GateAssumption DEF RowInv, Row
  <1> QED
    BY <1>2, <1>3, <1>4, <1>5, <1>6, GateAssumption DEF RowInv

\* A revocation keeps the row invariant, whoever calls it.
LEMMA RevokedRow ==
  ASSUME NEW row \in Row, RowInv(row), NEW f \in Fingerprints
  PROVE  /\ Revoked(row, row.contributors, f) \in Row
         /\ RowInv(Revoked(row, row.contributors, f))
  <1> DEFINE D == row.contributors \ {f}
             new == Revoked(row, row.contributors, f)
  <1>1. row.contributors \in SUBSET Fingerprints
    BY DEF Row
  <1>2. Cardinality(D) \in Nat /\ D \in SUBSET Fingerprints
    BY <1>1, ContributorCount
  <1>3. new \in Row
    BY <1>2 DEF Revoked, Row
  <1>4. /\ new.contributors = D /\ new.repro_count = Cardinality(D)
        /\ new.status = IF Cardinality(D) < MinContributors
                        THEN "retracted" ELSE "active"
    BY DEF Revoked, Row
  <1> QED
    BY <1>2, <1>3, <1>4, GateAssumption DEF RowInv

\* What a vote leaves, and what it may change.
LEMMA VotedDownFields ==
  ASSUME NEW row \in Row
  PROVE  /\ VotedDown(row) \in Row
         /\ VotedDown(row).contributors = row.contributors
         /\ VotedDown(row).repro_count = row.repro_count
         /\ VotedDown(row).reuse_count = row.reuse_count
         /\ VotedDown(row).status \in {"retracted", row.status}
  <1> DEFINE n == row.votes_down + 1
             st == IF n >= VoteLimit THEN "retracted" ELSE row.status
             new == [row EXCEPT !.votes_down = n, !.status = st]
  <1>1. n \in Nat
    BY DEF Row
  <1>2. /\ st \in {"absent", "pending", "active", "retracted"}
        /\ st \in {"retracted", row.status}
    BY DEF Row
  <1>3. VotedDown(row) = new
    BY DEF VotedDown
  <1> HIDE DEF n, st
  <1>4. /\ new \in Row
        /\ new.contributors = row.contributors
        /\ new.repro_count = row.repro_count
        /\ new.reuse_count = row.reuse_count
        /\ new.status = st
    BY <1>1, <1>2 DEF Row
  <1> QED
    BY <1>2, <1>3, <1>4

\* A vote keeps the row invariant: it leaves the status or retracts.
LEMMA VotedDownRow ==
  ASSUME NEW row \in Row, RowInv(row), row.status # "absent"
  PROVE  VotedDown(row) \in Row /\ RowInv(VotedDown(row))
  <1> DEFINE new == VotedDown(row)
  <1>1. /\ new \in Row /\ new.contributors = row.contributors
        /\ new.repro_count = row.repro_count /\ new.reuse_count = row.reuse_count
        /\ new.status \in {"retracted", row.status}
    BY VotedDownFields
  <1> HIDE DEF new
  <1>2. RowInv(new)
    BY <1>1 DEF RowInv
  <1> QED
    BY <1>1, <1>2 DEF new

-----------------------------------------------------------------------------
\* The empty table satisfies the inductive invariant.
LEMMA InitIInv == Init => IInv
  <1>1. Cardinality({}) = 0
    BY FS_EmptySet
  <1> QED
    BY <1>1 DEF Init, IInv, TypeOK, Row, NoRow, RowInv

\* Every operation of the table preserves the inductive invariant.
LEMMA NextIInv == IInv /\ [Next]_vars => IInv'
  <1> SUFFICES ASSUME IInv, [Next]_vars
               PROVE  IInv'
    OBVIOUS
  <1> USE DEF IInv, TypeOK
  <1>1. ASSUME NEW f \in Fingerprints, NEW s \in Signatures,
               NEW consent \in BOOLEAN, Promote(f, s, consent)
        PROVE  IInv'
    <2>1. CASE rows[s].status = "absent"
      BY <1>1, <2>1, InsertedRow DEF Promote
    <2>2. CASE rows[s].status # "absent"
      <3>1. /\ Promoted(rows[s], rows[s].contributors, f) \in Row
            /\ RowInv(Promoted(rows[s], rows[s].contributors, f))
        BY <2>2, PromotedRow
      <3> QED
        BY <1>1, <2>2, <3>1 DEF Promote
    <2> QED
      BY <2>1, <2>2
  <1>2. ASSUME NEW f \in Fingerprints, NEW s \in Signatures, Revoke(f, s)
        PROVE  IInv'
    <2>1. /\ Revoked(rows[s], rows[s].contributors, f) \in Row
          /\ RowInv(Revoked(rows[s], rows[s].contributors, f))
      BY RevokedRow
    <2> QED
      BY <1>2, <2>1 DEF Revoke
  <1>3. ASSUME NEW s \in Signatures, VoteDown(s)
        PROVE  IInv'
    <2>1. /\ VotedDown(rows[s]) \in Row
          /\ RowInv(VotedDown(rows[s]))
      BY <1>3, VotedDownRow DEF VoteDown
    <2> QED
      BY <1>3, <2>1 DEF VoteDown
  <1>4. ASSUME NEW asked \in SUBSET Signatures, Query(asked)
        PROVE  IInv'
    <2>1. ASSUME NEW s \in Signatures
          PROVE  rows'[s] \in Row /\ RowInv(rows'[s])
      <3>1. CASE s \in Served(asked)
        <4>1. rows'[s] = [rows[s] EXCEPT !.reuse_count = @ + 1]
          BY <1>4, <3>1 DEF Query
        <4>2. rows[s].status = "active"
          BY <3>1 DEF Served
        <4> QED
          BY <4>1, <4>2 DEF Row, RowInv
      <3>2. CASE s \notin Served(asked)
        BY <1>4, <3>2 DEF Query
      <3> QED
        BY <3>1, <3>2
    <2>2. rows' = [s \in Signatures |-> rows'[s]]
      BY <1>4 DEF Query
    <2> QED
      BY <2>1, <2>2
  <1>5. CASE UNCHANGED vars
    BY <1>5 DEF vars
  <1> QED
    BY <1>1, <1>2, <1>3, <1>4, <1>5 DEF Next

-----------------------------------------------------------------------------
\* The rows of the table have their types (schema, global_store.py:11-21).
THEOREM TypeCorrect == Spec => []TypeOK
  <1>1. IInv => TypeOK
    BY DEF IInv
  <1> QED
    BY <1>1, InitIInv, NextIInv, PTL DEF Spec

\* The gate that global_store.py:2 promises: no lesson is active with fewer
\* than MinContributors different contributors, none is pending above it.
THEOREM GateHolds == Spec => []QualityGate
  <1>1. IInv => QualityGate
    BY DEF IInv, RowInv, QualityGate
  <1> QED
    BY <1>1, InitIInv, NextIInv, PTL DEF Spec

\* The number reported as distinct_contributors is the number of different
\* contributors (promote, revoke).
THEOREM CountIsExact == Spec => []CountsDistinctContributors
  <1>1. IInv => CountsDistinctContributors
    BY DEF IInv, RowInv, CountsDistinctContributors
  <1> QED
    BY <1>1, InitIInv, NextIInv, PTL DEF Spec

\* No reuse is ever counted for a lesson below the gate (query).
THEOREM NoReuseBelowGate == Spec => []PendingNeverReused
  <1>1. IInv => PendingNeverReused
    BY DEF IInv, RowInv, PendingNeverReused
  <1> QED
    BY <1>1, InitIInv, NextIInv, PTL DEF Spec

\* No promotion, vote or query brings a retracted lesson back: a step that
\* does removes contributors and leaves enough of them (revoke).
THEOREM RetractionHolds == Spec => RetractedUnlessRevoked
  <1> DEFINE A(s) ==
        rows[s].status = "retracted" /\ rows'[s].status # "retracted" =>
           /\ rows'[s].contributors \subseteq rows[s].contributors
           /\ Cardinality(rows'[s].contributors) >= MinContributors
  <1>1. ASSUME IInv, IInv', [Next]_vars, NEW t \in Signatures
        PROVE  A(t)
    <2> USE DEF IInv, TypeOK, Row
    <2>1. ASSUME NEW f \in Fingerprints, NEW s \in Signatures,
                 NEW consent \in BOOLEAN, Promote(f, s, consent)
          PROVE  A(t)
      BY <1>1, <2>1 DEF Promote, Promoted
    <2>2. ASSUME NEW f \in Fingerprints, NEW s \in Signatures, Revoke(f, s)
          PROVE  A(t)
      <3>1. CASE t = s
        <4>1. rows'[t] = Revoked(rows[t], rows[t].contributors, f)
          BY <1>1, <2>2, <3>1 DEF Revoke
        <4>2. Cardinality(rows[t].contributors \ {f}) \in Nat
          BY <1>1, ContributorCount
        <4>3. rows'[t].contributors = rows[t].contributors \ {f}
          BY <1>1, <4>1 DEF Revoked
        <4>4. rows'[t].status # "retracted" =>
                Cardinality(rows[t].contributors \ {f}) >= MinContributors
          BY <1>1, <4>1, <4>2, GateAssumption DEF Revoked
        <4> QED
          BY <4>3, <4>4
      <3>2. CASE t # s
        BY <1>1, <2>2, <3>2 DEF Revoke
      <3> QED
        BY <3>1, <3>2
    <2>3. ASSUME NEW s \in Signatures, VoteDown(s)
          PROVE  A(t)
      BY <1>1, <2>3 DEF VoteDown, VotedDown
    <2>4. ASSUME NEW asked \in SUBSET Signatures, Query(asked)
          PROVE  A(t)
      BY <1>1, <2>4 DEF Query, Served
    <2>5. CASE UNCHANGED vars
      BY <1>1, <2>5 DEF vars
    <2> QED
      BY <1>1, <2>1, <2>2, <2>3, <2>4, <2>5 DEF Next
  <1>2. IInv /\ IInv' /\ [Next]_vars => [\A s \in Signatures : A(s)]_vars
    BY <1>1
  <1>3. Spec => []IInv
    BY InitIInv, NextIInv, PTL DEF Spec
  <1>4. []IInv /\ [][Next]_vars => [][\A s \in Signatures : A(s)]_vars
    BY <1>2, PTL
  <1> QED
    BY <1>3, <1>4, PTL DEF Spec, RetractedUnlessRevoked

-----------------------------------------------------------------------------
(* The service.  Its handlers read a row and write it back later, in       *)
(* another statement: the gate and the count of what they write do not     *)
(* depend on how stale it is, what the callers were told does.             *)

\* The gate and the count, of one row.
RowGate(row) ==
    /\ row.status = "active" => Cardinality(row.contributors) >= MinContributors
    /\ row.status = "pending" =>
           Cardinality(row.contributors) \in 1 .. (MinContributors - 1)
    /\ row.repro_count = Cardinality(row.contributors)

ServiceInv == ServiceTypeOK /\ \A s \in Signatures : RowGate(rows[s])

\* A handler that writes has read a set of contributors and writes a row
\* that satisfies the gate, however stale what it read is.
LEMMA WrittenRow ==
  ASSUME ServiceTypeOK, NEW t \in Threads, thread[t] \in Thread
  PROVE  Written(thread[t]) \in Row /\ RowGate(Written(thread[t]))
  <1> DEFINE th == thread[t]
             row == rows[th.sig]
             f == th.from
             C == th.seen \union {f}
             D == th.seen \ {f}
  <1>1. /\ row \in Row /\ f \in Fingerprints
        /\ th.seen \in SUBSET Fingerprints
    BY DEF ServiceTypeOK, TypeOK, Thread
  <1>2. /\ IsFiniteSet(C) /\ C \in SUBSET Fingerprints
        /\ IsFiniteSet(D) /\ D \in SUBSET Fingerprints
    BY <1>1, FS_Subset, FingerprintsAssumption
  <1>3. Cardinality(C) \in Nat /\ Cardinality(D) \in Nat
    BY <1>2, FS_CardinalityType
  <1>4. Cardinality(C) >= 1
    <2>1. Cardinality(C) # 0
      BY <1>2, FS_EmptySet
    <2> QED
      BY <2>1, <1>3
  <1>5. CASE th.op = "revoke"
    <2> DEFINE new == Revoked(row, th.seen, f)
    <2>1. new \in Row
      BY <1>1, <1>2, <1>3 DEF Revoked, Row
    <2>2. /\ new.contributors = D /\ new.repro_count = Cardinality(D)
          /\ new.status = IF Cardinality(D) < MinContributors
                          THEN "retracted" ELSE "active"
      BY <1>1 DEF Revoked, Row
    <2>3. RowGate(new)
      BY <2>2, <1>3, GateAssumption DEF RowGate
    <2> QED
      BY <1>5, <2>1, <2>3 DEF Written
  <1>6. CASE th.op # "revoke" /\ th.found
    <2> DEFINE new == Promoted(row, th.seen, f)
    <2>1. new \in Row
      BY <1>1, <1>2, <1>3 DEF Promoted, Row
    <2>2. /\ new.contributors = C /\ new.repro_count = Cardinality(C)
          /\ new.status = IF row.status = "retracted" THEN "retracted"
                          ELSE IF Cardinality(C) >= MinContributors
                               THEN "active" ELSE "pending"
      BY <1>1 DEF Promoted, Row
    <2>3. RowGate(new)
      BY <2>2, <1>3, <1>4, GateAssumption DEF RowGate
    <2> QED
      BY <1>6, <2>1, <2>3 DEF Written
  <1>7. CASE th.op # "revoke" /\ ~ th.found
    <2>1. Cardinality({f}) = 1
      BY FS_Singleton
    <2> DEFINE new == Inserted(f)
    <2>3. new \in Row
      BY <1>1 DEF Inserted, NoRow, Row
    <2>4. new.contributors = {f} /\ new.repro_count = 1 /\ new.status = "pending"
      BY DEF Inserted, NoRow
    <2> HIDE DEF new
    <2>5. RowGate(new)
      BY <2>1, <2>4, GateAssumption DEF RowGate
    <2>2. Inserted(f) \in Row /\ RowGate(Inserted(f))
      BY <2>3, <2>5 DEF new
    <2> QED
      BY <1>7, <2>2 DEF Written
  <1> QED
    BY <1>5, <1>6, <1>7

-----------------------------------------------------------------------------
\* The empty table, with no request in flight, satisfies the invariant.
LEMMA InitService == ServiceInit => ServiceInv
  <1>1. Cardinality({}) = 0
    BY FS_EmptySet
  <1>2. ServiceInit => ServiceTypeOK
    BY DEF ServiceInit, Init, ServiceTypeOK, TypeOK, Row, NoRow
  <1>3. RowGate(NoRow)
    BY <1>1 DEF NoRow, RowGate
  <1>4. ServiceInit => \A s \in Signatures : RowGate(rows[s])
    BY <1>3 DEF ServiceInit, Init
  <1> QED
    BY <1>2, <1>4 DEF ServiceInv

\* Every step of clients, handlers and instances preserves the invariant.
LEMMA NextService == ServiceInv /\ [ServiceNext]_serviceVars => ServiceInv'
  <1> SUFFICES ASSUME ServiceInv, [ServiceNext]_serviceVars
               PROVE  ServiceInv'
    OBVIOUS
  <1>1. ASSUME NEW f \in Fingerprints, NEW t \in Threads, NEW i \in Instances,
               NEW op \in Ops, NEW s \in Signatures, Call(f, t, i, op, s)
        PROVE  ServiceInv'
    <2>1. thread' \in [Threads -> Thread \union {Idle}]
      BY <1>1 DEF Call, ServiceInv, ServiceTypeOK, TypeOK, Thread
    <2>2. calls' \in [Fingerprints -> Nat]
      BY <1>1 DEF Call, ServiceInv, ServiceTypeOK, TypeOK
    <2>3. answered' \in [Fingerprints -> [Signatures -> Ops \union {"none"}]]
      BY <1>1 DEF Call, ServiceInv, ServiceTypeOK, TypeOK
    <2> QED
      BY <1>1, <2>1, <2>2, <2>3 DEF Call, ServiceInv, ServiceTypeOK, TypeOK
  <1>2. ASSUME NEW t \in Threads, Begin(t)
        PROVE  ServiceInv'
    <2>1. thread[t] \in Thread
      BY <1>2 DEF Begin, ServiceInv, ServiceTypeOK, TypeOK, Idle
    <2>2. rows[thread[t].sig] \in Row
      BY <2>1 DEF ServiceInv, ServiceTypeOK, TypeOK, Thread
    <2>3. rows[thread[t].sig].contributors \in SUBSET Fingerprints
      BY <2>2 DEF Row
    <2>4. thread' \in [Threads -> Thread \union {Idle}]
      BY <1>2, <2>1, <2>3 DEF Begin, Finish, ServiceInv, ServiceTypeOK, TypeOK, Thread
    <2> QED
      BY <1>2, <2>4 DEF Begin, ServiceInv, ServiceTypeOK, TypeOK
  <1>3. ASSUME NEW t \in Threads, Commit(t)
        PROVE  ServiceInv'
    <2>1. thread[t] \in Thread
      BY <1>3 DEF Commit, ServiceInv, ServiceTypeOK, TypeOK, Idle
    <2>2. Written(thread[t]) \in Row /\ RowGate(Written(thread[t]))
      BY <2>1, WrittenRow DEF ServiceInv
    <2>3. thread' \in [Threads -> Thread \union {Idle}]
      BY <1>3 DEF Commit, Finish, ServiceInv, ServiceTypeOK, TypeOK
    <2>4. failedTx' \subseteq Instances
      BY <1>3, <2>1 DEF Commit, ServiceInv, ServiceTypeOK, TypeOK, Thread
    <2>5. answered' \in [Fingerprints -> [Signatures -> Ops \union {"none"}]]
      <3>1. CASE answered' = answered
        BY <3>1 DEF ServiceInv, ServiceTypeOK, TypeOK
      <3>2. CASE answered' = [answered EXCEPT
                                ![thread[t].from][thread[t].sig] = thread[t].op]
        BY <3>2, <2>1 DEF ServiceInv, ServiceTypeOK, TypeOK, Thread
      <3> QED
        BY <1>3, <3>1, <3>2 DEF Commit
    <2>6. /\ rows' \in [Signatures -> Row]
          /\ \A s \in Signatures : RowGate(rows'[s])
      <3>1. CASE rows' = rows
        BY <3>1 DEF ServiceInv, ServiceTypeOK, TypeOK
      <3>2. CASE rows' = [rows EXCEPT ![thread[t].sig] = Written(thread[t])]
        BY <3>2, <2>2 DEF ServiceInv, ServiceTypeOK, TypeOK
      <3> QED
        BY <1>3, <3>1, <3>2 DEF Commit
    <2> QED
      BY <1>3, <2>3, <2>4, <2>5, <2>6 DEF Commit, ServiceInv, ServiceTypeOK, TypeOK
  <1>4. ASSUME NEW t \in Threads, Timeout(t)
        PROVE  ServiceInv'
    <2>1. thread[t] \in Thread
      BY <1>4 DEF Timeout, Busy, ServiceInv, ServiceTypeOK, TypeOK, Idle
    <2>2. thread' \in [Threads -> Thread \union {Idle}]
      BY <1>4, <2>1 DEF Timeout, ServiceInv, ServiceTypeOK, TypeOK, Thread
    <2>3. timeouts' \in Nat
      BY <1>4 DEF Timeout, ServiceInv, ServiceTypeOK, TypeOK
    <2> QED
      BY <1>4, <2>2, <2>3 DEF Timeout, ServiceInv, ServiceTypeOK, TypeOK
  <1>5. ASSUME NEW i \in Instances, Restart(i)
        PROVE  ServiceInv'
    <2>1. thread' \in [Threads -> Thread \union {Idle}]
      BY <1>5 DEF Restart, ServiceInv, ServiceTypeOK, TypeOK
    <2> QED
      BY <1>5, <2>1 DEF Restart, ServiceInv, ServiceTypeOK, TypeOK
  <1>6. CASE UNCHANGED serviceVars
    BY <1>6 DEF serviceVars, ServiceInv, ServiceTypeOK, TypeOK
  <1> QED
    BY <1>1, <1>2, <1>3, <1>4, <1>5, <1>6 DEF ServiceNext

-----------------------------------------------------------------------------
\* The table, the handlers and what the users were told keep their types.
THEOREM ServiceTypeCorrect == ServiceSpec => []ServiceTypeOK
  <1>1. ServiceInv => ServiceTypeOK
    BY DEF ServiceInv
  <1> QED
    BY <1>1, InitService, NextService, PTL DEF ServiceSpec

\* However many instances interleave their reads and writes on one database,
\* and whoever crashes in between, no lesson is active below the gate and
\* the reported number of contributors is exact.
THEOREM GateHoldsUnderRaces == ServiceSpec => []GateSurvivesRaces
  <1>1. ServiceInv => GateSurvivesRaces
    BY DEF ServiceInv, RowGate, GateSurvivesRaces, QualityGate,
           CountsDistinctContributors
  <1> QED
    BY <1>1, InitService, NextService, PTL DEF ServiceSpec

-----------------------------------------------------------------------------
(* With one instance the lock of its handlers makes promote and revoke     *)
(* atomic.  The invariant: at most one handler is between its read and its *)
(* write, and what it read is still in the table.                          *)

Writing(t) == thread[t].pc = "writing"

Fresh(t) ==
    LET th == thread[t] IN
    /\ th.found = (rows[th.sig].status # "absent")
    /\ th.seen = rows[th.sig].contributors
    /\ th.op = "promote" => th.sig \in Abstract
    /\ th.op = "revoke" => th.found

LockInv ==
    /\ ServiceTypeOK
    /\ \A t, u \in Threads : Writing(t) /\ Writing(u) => t = u
    /\ \A t \in Threads : Writing(t) => Fresh(t)

\* With a single instance, every step preserves LockInv.
LEMMA LockStep ==
  ASSUME NEW one, Instances = {one}, LockInv, ServiceTypeOK', [ServiceNext]_serviceVars
  PROVE  LockInv'
  <1>1. ASSUME NEW f \in Fingerprints, NEW t \in Threads, NEW i \in Instances,
               NEW op \in Ops, NEW s \in Signatures, Call(f, t, i, op, s)
        PROVE  LockInv'
    <2>1. /\ rows' = rows
          /\ thread'[t].pc = "waiting"
          /\ \A u \in Threads \ {t} : thread'[u] = thread[u]
      BY <1>1 DEF Call, LockInv, ServiceTypeOK, TypeOK
    <2> QED
      BY <2>1 DEF LockInv, Writing, Fresh
  <1>2. ASSUME NEW t \in Threads, Begin(t)
        PROVE  LockInv'
    <2>1. rows' = rows /\ \A u \in Threads \ {t} : thread'[u] = thread[u]
      BY <1>2 DEF Begin, Finish, LockInv, ServiceTypeOK, TypeOK
    <2>2. thread[t] \in Thread
      BY <1>2 DEF Begin, LockInv, ServiceTypeOK, TypeOK, Idle
    <2>3. \A u \in Threads : ~ Writing(u)
      <3>1. ASSUME NEW u \in Threads, Writing(u)
            PROVE  FALSE
        <4>1. thread[u] \in Thread
          BY <3>1 DEF Writing, LockInv, ServiceTypeOK, TypeOK, Idle
        <4>2. thread[u].inst = thread[t].inst
          BY <4>1, <2>2 DEF Thread
        <4> QED
          BY <1>2, <3>1, <4>2 DEF Begin, Locked, Writing
      <3> QED
        BY <3>1
    <2>4. Writing(t)' => Fresh(t)'
      <3>1. CASE thread'[t] = Idle
        BY <3>1 DEF Writing, Idle
      <3>2. CASE thread'[t] # Idle
        <4> DEFINE th == thread[t]
                   row == rows[th.sig]
        <4>1. /\ ~ (th.op = "promote" /\ th.sig \notin Abstract)
              /\ ~ (th.op = "revoke" /\ row.status = "absent")
              /\ thread'[t] = [th EXCEPT !.pc = "writing",
                                         !.found = (row.status # "absent"),
                                         !.seen = row.contributors]
          BY <1>2, <3>2 DEF Begin, Finish, LockInv, ServiceTypeOK, TypeOK
        <4>2. /\ thread'[t].sig = th.sig /\ thread'[t].op = th.op
              /\ thread'[t].found = (row.status # "absent")
              /\ thread'[t].seen = row.contributors
          BY <4>1, <2>2 DEF Thread
        <4> QED
          BY <4>1, <4>2, <2>1 DEF Fresh
      <3> QED
        BY <3>1, <3>2
    <2> QED
      BY <2>1, <2>3, <2>4 DEF LockInv, Writing
  <1>3. ASSUME NEW t \in Threads, Commit(t)
        PROVE  LockInv'
    <2>1. /\ thread'[t] = Idle
          /\ \A u \in Threads \ {t} : thread'[u] = thread[u]
      BY <1>3 DEF Commit, Finish, LockInv, ServiceTypeOK, TypeOK
    <2>2. \A u \in Threads : ~ Writing(u)'
      BY <2>1, <1>3 DEF Commit, Writing, LockInv, Idle
    <2> QED
      BY <2>2 DEF LockInv
  <1>4. ASSUME NEW t \in Threads, Timeout(t)
        PROVE  LockInv'
    <2>1. thread[t] \in Thread
      BY <1>4 DEF Timeout, Busy, LockInv, ServiceTypeOK, TypeOK, Idle
    <2>2. /\ rows' = rows
          /\ thread'[t] = [thread[t] EXCEPT !.waited = FALSE]
          /\ \A u \in Threads \ {t} : thread'[u] = thread[u]
      BY <1>4 DEF Timeout, LockInv, ServiceTypeOK, TypeOK
    <2>3. /\ thread'[t].pc = thread[t].pc /\ thread'[t].sig = thread[t].sig
          /\ thread'[t].op = thread[t].op /\ thread'[t].seen = thread[t].seen
          /\ thread'[t].found = thread[t].found
      BY <2>1, <2>2 DEF Thread
    <2>4. \A u \in Threads : /\ Writing(u)' = Writing(u)
                             /\ Fresh(u)' = Fresh(u)
      BY <2>2, <2>3 DEF Writing, Fresh
    <2> QED
      BY <2>4 DEF LockInv
  <1>5. ASSUME NEW i \in Instances, Restart(i)
        PROVE  LockInv'
    <2>1. /\ rows' = rows
          /\ \A u \in Threads : thread'[u] = Idle \/ thread'[u] = thread[u]
      BY <1>5 DEF Restart
    <2>2. \A u \in Threads : Writing(u)' => thread'[u] = thread[u]
      BY <2>1 DEF Writing, Idle
    <2> QED
      BY <2>1, <2>2 DEF LockInv, Writing, Fresh
  <1>6. CASE UNCHANGED serviceVars
    BY <1>6 DEF serviceVars, LockInv, Writing, Fresh
  <1> QED
    BY <1>1, <1>2, <1>3, <1>4, <1>5, <1>6 DEF ServiceNext

\* One instance implements GlobalMemory: its lock makes the read and the
\* write of a handler one atomic promote or revoke, and whatever else
\* happens (timeouts, restarts, refusals) leaves the table alone.
THEOREM SingleInstanceImplements ==
  ASSUME NEW one, Instances = {one}
  PROVE  ServiceSpec => ImplementsGlobalMemory
  <1>1. ServiceInit => LockInv
    BY InitService DEF ServiceInv, LockInv, Writing, ServiceInit, Init, Idle
  <1>2. LockInv /\ ServiceTypeOK' /\ [ServiceNext]_serviceVars => LockInv'
    BY LockStep
  <1>3. ServiceInit => Init
    BY DEF ServiceInit, Init, Init
  <1>4. LockInv /\ [ServiceNext]_serviceVars => [Next]_vars
    <2> SUFFICES ASSUME LockInv, ServiceNext
                 PROVE  Next \/ rows' = rows
      BY DEF serviceVars, vars
    <2>1. ASSUME NEW t \in Threads, Commit(t)
          PROVE  Next \/ rows' = rows
      <3> DEFINE th == thread[t]
                 f == th.from
                 s == th.sig
      <3>1. th \in Thread
        BY <2>1 DEF Commit, LockInv, ServiceTypeOK, TypeOK, Idle
      <3>2. f \in Fingerprints /\ s \in Signatures /\ th.op \in Ops
        BY <3>1 DEF Thread
      <3>3. Fresh(t)
        BY <2>1 DEF Commit, LockInv, Writing
      <3>4. rows' = [rows EXCEPT ![s] = Written(th)]
        BY <2>1, <3>3 DEF Commit, Fresh
      <3>5. CASE th.op = "revoke"
        <4>1. Revoke(f, s)
          BY <3>3, <3>4, <3>5 DEF Revoke, Written, Fresh
        <4> QED
          BY <4>1, <3>2 DEF Next
      <3>6. CASE th.op = "promote"
        <4>1. Promote(f, s, TRUE)
          BY <3>3, <3>4, <3>6 DEF Promote, Written, Fresh
        <4> QED
          BY <4>1, <3>2 DEF Next
      <3> QED
        BY <3>2, <3>5, <3>6 DEF Ops
    <2>2. (\A t \in Threads : ~ Commit(t)) => rows' = rows
      BY DEF ServiceNext, Call, Begin, Timeout, Restart
    <2> QED
      BY <2>1, <2>2
  <1> QED
    BY <1>1, <1>2, <1>3, <1>4, ServiceTypeCorrect, PTL
    DEF ServiceSpec, Spec, ImplementsGlobalMemory

-----------------------------------------------------------------------------
(* What a user was answered stands.  While no client has given up, a user  *)
(* has one request at most, and no answer for the lesson it is about; so   *)
(* the write that answers it is the only one that moves this user in or    *)
(* out of the contributors, and what it read of the others is not stale.   *)

AnswerInv ==
    /\ \A s \in Signatures : rows[s].status = "absent" => rows[s].contributors = {}
    /\ timeouts = 0 =>
          /\ \A t \in Threads : Busy(t) =>
                /\ thread[t].waited
                /\ answered[thread[t].from][thread[t].sig] = "none"
                /\ \A u \in Threads : Busy(u) /\ thread[u].from = thread[t].from => u = t
          /\ RevocationHolds /\ PromotionHolds

\* A write takes its own user in or out, and leaves the others.
LEMMA WrittenContributors ==
  ASSUME LockInv, AnswerInv, NEW t \in Threads, Writing(t)
  PROVE  LET th == thread[t]
             old == rows[th.sig].contributors
         IN Written(th).contributors = IF th.op = "revoke" THEN old \ {th.from}
                                       ELSE old \union {th.from}
  <1> DEFINE th == thread[t]
  <1>1. th \in Thread
    BY DEF LockInv, ServiceTypeOK, TypeOK, Idle, Writing
  <1>2. rows[th.sig] \in Row /\ Fresh(t)
    BY <1>1 DEF LockInv, ServiceTypeOK, TypeOK, Thread
  <1>3. th.seen = rows[th.sig].contributors /\ (~ th.found => th.seen = {})
    BY <1>1, <1>2 DEF Fresh, AnswerInv, Thread
  <1>4. CASE th.op = "revoke"
    BY <1>2, <1>3, <1>4 DEF Written, Revoked, Row
  <1>5. CASE th.op # "revoke" /\ th.found
    BY <1>2, <1>3, <1>5 DEF Written, Promoted, Row
  <1>6. CASE th.op # "revoke" /\ ~ th.found
    BY <1>2, <1>3, <1>6 DEF Written, Inserted, NoRow
  <1> QED
    BY <1>4, <1>5, <1>6

LEMMA WrittenPresent ==
  ASSUME LockInv, NEW t \in Threads, Writing(t)
  PROVE  Written(thread[t]).status # "absent"
  <1> DEFINE th == thread[t]
  <1>1. th \in Thread
    BY DEF LockInv, ServiceTypeOK, TypeOK, Idle, Writing
  <1>2. rows[th.sig] \in Row
    BY <1>1 DEF LockInv, ServiceTypeOK, TypeOK, Thread
  <1>3. CASE th.op = "revoke"
    BY <1>2, <1>3 DEF Written, Revoked, Row
  <1>4. CASE th.op # "revoke" /\ th.found
    BY <1>2, <1>4 DEF Written, Promoted, Row
  <1>5. CASE th.op # "revoke" /\ ~ th.found
    BY <1>5 DEF Written, Inserted, NoRow
  <1> QED
    BY <1>3, <1>4, <1>5

LEMMA AnswerStep ==
  ASSUME LockInv, AnswerInv, [ServiceNext]_serviceVars
  PROVE  AnswerInv'
  <1>1. ASSUME NEW f \in Fingerprints, NEW t \in Threads, NEW i \in Instances,
               NEW op \in Ops, NEW s \in Signatures, Call(f, t, i, op, s)
        PROVE  AnswerInv'
    <2>1. /\ rows' = rows /\ timeouts' = timeouts
          /\ thread'[t].pc = "waiting" /\ thread'[t].waited
          /\ thread'[t].from = f /\ thread'[t].sig = s
          /\ \A u \in Threads \ {t} : thread'[u] = thread[u]
      BY <1>1 DEF Call, LockInv, ServiceTypeOK, TypeOK
    <2>2. \A g \in Fingerprints, r \in Signatures :
             answered'[g][r] = IF g = f /\ r = s THEN "none" ELSE answered[g][r]
      BY <1>1 DEF Call, LockInv, ServiceTypeOK, TypeOK
    <2>3. timeouts = 0 => \A u \in Threads : Busy(u) => thread[u].from # f
      BY <1>1 DEF Call, Blocked, AnswerInv
    <2>4. \A u \in Threads : Busy(u) => thread[u].from \in Fingerprints
                                        /\ thread[u].sig \in Signatures
      BY DEF LockInv, ServiceTypeOK, TypeOK, Thread, Idle, Busy
    <2>5. (RevocationHolds /\ PromotionHolds) => (RevocationHolds /\ PromotionHolds)'
      BY <2>1, <2>2 DEF RevocationHolds, PromotionHolds
    <2> QED
      BY <1>1, <2>1, <2>2, <2>3, <2>4, <2>5 DEF AnswerInv, Busy
  <1>2. ASSUME NEW t \in Threads, Begin(t)
        PROVE  AnswerInv'
    <2>1. thread[t] \in Thread
      BY <1>2 DEF Begin, LockInv, ServiceTypeOK, TypeOK, Idle
    <2>2. /\ UNCHANGED <<rows, timeouts, answered>>
          /\ \A u \in Threads \ {t} : thread'[u] = thread[u]
          /\ \/ thread'[t] = Idle
             \/ /\ Busy(t) /\ thread'[t].from = thread[t].from
                /\ thread'[t].sig = thread[t].sig /\ thread'[t].waited = thread[t].waited
      BY <1>2, <2>1 DEF Begin, Finish, LockInv, ServiceTypeOK, TypeOK, Thread, Busy
    <2> QED
      BY <2>2 DEF AnswerInv, Busy, Idle, RevocationHolds, PromotionHolds
  <1>3. ASSUME NEW t \in Threads, Commit(t)
        PROVE  AnswerInv'
    <2> DEFINE th == thread[t]
    <2>1. Writing(t) /\ Busy(t) /\ Fresh(t) /\ th \in Thread
      BY <1>3 DEF Commit, LockInv, ServiceTypeOK, TypeOK, Idle, Writing, Busy
    <2>2. /\ UNCHANGED timeouts /\ thread'[t] = Idle
          /\ \A u \in Threads \ {t} : thread'[u] = thread[u]
          /\ rows' = [rows EXCEPT ![th.sig] = Written(th)]
          /\ th.waited => answered' = [answered EXCEPT ![th.from][th.sig] = th.op]
      BY <1>3, <2>1 DEF Commit, Finish, LockInv, ServiceTypeOK, TypeOK, Fresh
    <2>3. \A s \in Signatures : rows'[s].status = "absent" => rows'[s].contributors = {}
      BY <2>1, <2>2, WrittenPresent DEF AnswerInv, LockInv, ServiceTypeOK, TypeOK, Thread
    <2>4. CASE timeouts = 0
      <3>1. th.waited /\ th.op \in Ops /\ th.from \in Fingerprints /\ th.sig \in Signatures
        BY <2>1, <2>4 DEF AnswerInv, Thread
      <3>2. \A f \in Fingerprints, s \in Signatures :
               answered'[f][s] = IF f = th.from /\ s = th.sig THEN th.op ELSE answered[f][s]
        BY <2>2, <3>1 DEF LockInv, ServiceTypeOK, TypeOK
      <3>3. /\ \A s \in Signatures \ {th.sig} : rows'[s] = rows[s]
            /\ rows'[th.sig].contributors =
                  IF th.op = "revoke" THEN rows[th.sig].contributors \ {th.from}
                  ELSE rows[th.sig].contributors \union {th.from}
        BY <2>1, <2>2, <3>1, WrittenContributors DEF LockInv, ServiceTypeOK, TypeOK
      <3>4. (RevocationHolds /\ PromotionHolds)'
        BY <2>4, <3>1, <3>2, <3>3 DEF AnswerInv, RevocationHolds, PromotionHolds, Ops
      <3>5. ASSUME NEW u \in Threads, Busy(u)'
            PROVE  /\ u # t /\ thread'[u] = thread[u] /\ Busy(u) /\ thread[u].from # th.from
                   /\ thread[u].from \in Fingerprints /\ thread[u].sig \in Signatures
        BY <2>1, <2>2, <2>4, <3>5 DEF Busy, Idle, AnswerInv, LockInv, ServiceTypeOK, TypeOK, Thread
      <3> QED
        BY <2>2, <2>3, <2>4, <3>2, <3>4, <3>5 DEF AnswerInv, Busy
    <2> QED
      BY <2>2, <2>3, <2>4 DEF AnswerInv
  <1>4. ASSUME NEW t \in Threads, Timeout(t)
        PROVE  AnswerInv'
    <2>1. rows' = rows /\ timeouts' # 0
      BY <1>4 DEF Timeout, LockInv, ServiceTypeOK, TypeOK
    <2> QED
      BY <2>1 DEF AnswerInv
  <1>5. ASSUME NEW i \in Instances, Restart(i)
        PROVE  AnswerInv'
    <2>1. /\ UNCHANGED <<rows, timeouts, answered>>
          /\ \A u \in Threads : thread'[u] = Idle \/ thread'[u] = thread[u]
      BY <1>5 DEF Restart
    <2> QED
      BY <2>1 DEF AnswerInv, Busy, Idle, RevocationHolds, PromotionHolds
  <1>6. CASE UNCHANGED serviceVars
    BY <1>6 DEF serviceVars, AnswerInv, Busy, RevocationHolds, PromotionHolds
  <1> QED
    BY <1>1, <1>2, <1>3, <1>4, <1>5, <1>6 DEF ServiceNext

\* With one instance and no client that gives up, a revocation answered ok
\* takes the user out and a promotion answered ok takes the user in, for as
\* long as this user asks for nothing else (the handlers under _lock).
THEOREM AnswersAreKept ==
  ASSUME NEW one, Instances = {one}
  PROVE  ServiceSpec => []AnswersStand
  <1>1. ServiceInit => LockInv /\ AnswerInv
    <2>1. ServiceInit => LockInv
      BY InitService DEF ServiceInv, LockInv, Writing, ServiceInit, Init, Idle
    <2>2. ServiceInit => AnswerInv
      BY DEF ServiceInit, Init, AnswerInv, Busy, Idle, RevocationHolds, PromotionHolds, NoRow
    <2> QED
      BY <2>1, <2>2
  <1>2. LockInv /\ ServiceTypeOK' /\ [ServiceNext]_serviceVars => LockInv'
    BY LockStep
  <1>3. LockInv /\ AnswerInv /\ [ServiceNext]_serviceVars => AnswerInv'
    BY AnswerStep
  <1>4. AnswerInv => AnswersStand
    BY DEF AnswerInv, AnswersStand
  <1> QED
    BY <1>1, <1>2, <1>3, <1>4, ServiceTypeCorrect, PTL DEF ServiceSpec

-----------------------------------------------------------------------------
(* The federation.  A fingerprint that has been sent is that of a stored   *)
(* row, which neither goes away nor changes its author; an answer that is  *)
(* still on its way, "active", is about a lesson that has been served.     *)

FederationInv ==
    /\ FederationTypeOK
    /\ \A d \in Stores, s \in Signatures : Has(d, s) => author[d][s] \in Fingerprints
    /\ \A d \in Stores : uplink[d].status = "active" => uplink[d].sig \in everActive
    /\ ContributorsReproduced
    /\ GlobalMarkEarned

\* A call of the global memory, seen from a store: the table stays a table,
\* and only a promotion adds a contributor, its caller, to its lesson.
LEMMA GlobalCall ==
  ASSUME TypeOK, NEW f \in Fingerprints, NEW s \in Signatures,
         NEW consent \in BOOLEAN,
         Promote(f, s, consent) \/ Revoke(f, s) \/ VoteDown(s)
  PROVE  /\ TypeOK'
         /\ \A t \in Signatures : rows'[t].contributors \subseteq
               rows[t].contributors \union
                 (IF t = s /\ Promote(f, s, consent) THEN {f} ELSE {})
         /\ Promote(f, s, consent) => rows'[s].status \in {"pending", "active", "retracted"}
  <1> USE DEF TypeOK
  <1>1. CASE Promote(f, s, consent)
    <2> DEFINE row == rows[s]
               new == IF row.status = "absent" THEN Inserted(f)
                      ELSE Promoted(row, row.contributors, f)
    <2>1. row \in Row /\ row.contributors \in SUBSET Fingerprints
      BY DEF Row
    <2>2. Cardinality(row.contributors \union {f}) \in Nat
      BY <2>1, ContributorCount
    <2>3. /\ new \in Row
          /\ new.contributors \subseteq row.contributors \union {f}
          /\ new.status \in {"pending", "active", "retracted"}
      <3>1. CASE row.status = "absent"
        BY <3>1 DEF Inserted, NoRow, Row
      <3>2. CASE row.status # "absent"
        BY <2>1, <2>2, <3>2 DEF Promoted, Row
      <3> QED
        BY <3>1, <3>2
    <2>4. rows' = [rows EXCEPT ![s] = new]
      BY <1>1 DEF Promote
    <2> HIDE DEF new
    <2> QED
      BY <1>1, <2>3, <2>4
  <1>2. CASE Revoke(f, s) /\ ~ Promote(f, s, consent)
    <2> DEFINE row == rows[s]
               new == Revoked(row, row.contributors, f)
    <2>1. row \in Row /\ row.contributors \in SUBSET Fingerprints
      BY DEF Row
    <2>2. Cardinality(row.contributors \ {f}) \in Nat
      BY <2>1, ContributorCount
    <2>3. new \in Row /\ new.contributors \subseteq row.contributors
      BY <2>1, <2>2 DEF Revoked, Row
    <2>4. rows' = [rows EXCEPT ![s] = new]
      BY <1>2 DEF Revoke
    <2> HIDE DEF new
    <2> QED
      BY <1>2, <2>3, <2>4
  <1>3. CASE VoteDown(s) /\ ~ Promote(f, s, consent)
    <2> DEFINE new == VotedDown(rows[s])
    <2>1. new \in Row /\ new.contributors = rows[s].contributors
      BY VotedDownFields
    <2>2. rows' = [rows EXCEPT ![s] = new]
      BY <1>3 DEF VoteDown
    <2> HIDE DEF new
    <2> QED
      BY <1>3, <2>1, <2>2
  <1> QED
    BY <1>1, <1>2, <1>3

\* What the methods of the local store write is a row, present once it has
\* been, and marked global by a promotion only.
LEMMA LocalRows ==
  ASSUME NEW row \in Lesson, NEW target \in {"team", "global"}
  PROVE  /\ NewLesson \in Lesson /\ NewLesson.status = "active" /\ NewLesson.scope = "local"
         /\ Repeated(row) \in Lesson /\ Repeated(row).status = row.status
         /\ Repeated(row).scope = row.scope /\ Repeated(row).repro_count = row.repro_count + 1
         /\ Shared(row, target) \in Lesson /\ Shared(row, target).status = row.status
         /\ Shared(row, target).repro_count = row.repro_count
         /\ Withdrawn(row) \in Lesson /\ Withdrawn(row).status = "retracted"
         /\ Withdrawn(row).scope = "local"
  <1>1. NewLesson \in Lesson /\ NewLesson.status = "active" /\ NewLesson.scope = "local"
    BY DEF Lesson, NoLesson, NewLesson, Scopes
  <1>2. /\ Repeated(row) \in Lesson /\ Repeated(row).status = row.status
        /\ Repeated(row).scope = row.scope /\ Repeated(row).repro_count = row.repro_count + 1
    BY DEF Lesson, Repeated
  <1>3. /\ Shared(row, target) \in Lesson /\ Shared(row, target).status = row.status
        /\ Shared(row, target).repro_count = row.repro_count
    BY DEF Lesson, Shared, Scopes
  <1>4. /\ Withdrawn(row) \in Lesson /\ Withdrawn(row).status = "retracted"
        /\ Withdrawn(row).scope = "local"
    BY DEF Lesson, Withdrawn, Scopes
  <1> QED
    BY <1>1, <1>2, <1>3, <1>4

\* A step of one store that writes one of its rows, present or marked global
\* only as the row before it was, or as it has earned, keeps the invariant.
LEMMA LocalWrite ==
  ASSUME FederationInv, NEW d \in Stores, NEW s \in Signatures, NEW row \in Lesson,
         row.status # "absent", author[d][s] \in Fingerprints,
         row.scope = "global" => row.repro_count >= MinRepro \/ s \in everActive,
         local' = [local EXCEPT ![d][s] = row],
         UNCHANGED <<rows, author, everActive>>,
         \A e \in Stores : uplink'[e] = uplink[e] \/ uplink'[e] = NoAnswer,
         uplink' \in [Stores -> Answers \union {NoAnswer}]
  PROVE  FederationInv'
  <1>1. \A e \in Stores, t \in Signatures :
           local'[e][t] = IF e = d /\ t = s THEN row ELSE local[e][t]
    BY DEF FederationInv, FederationTypeOK
  <1>2. FederationTypeOK'
    BY DEF FederationInv, FederationTypeOK, TypeOK
  <1>3. \A e \in Stores, t \in Signatures : Has(e, t)' <=> (e = d /\ t = s) \/ Has(e, t)
    BY <1>1 DEF Has
  <1>4. (\A e \in Stores, t \in Signatures : Has(e, t) => author[e][t] \in Fingerprints)'
    BY <1>3 DEF FederationInv
  <1>5. (\A e \in Stores : uplink[e].status = "active" => uplink[e].sig \in everActive)'
    BY DEF FederationInv, NoAnswer
  <1>6. ContributorsReproduced'
    BY <1>3 DEF FederationInv, ContributorsReproduced
  <1>7. GlobalMarkEarned'
    BY <1>1 DEF FederationInv, GlobalMarkEarned
  <1> QED
    BY <1>2, <1>4, <1>5, <1>6, <1>7 DEF FederationInv

\* A step of the global memory alone, called with the fingerprint of a stored
\* row, keeps the invariant.
LEMMA GlobalWrite ==
  ASSUME FederationInv, TypeOK', RecordActive, UNCHANGED <<local, author>>,
         \A s \in Signatures : \A f \in rows'[s].contributors \ rows[s].contributors :
            \E d \in Stores : Has(d, s) /\ author[d][s] = f,
         \A e \in Stores : \/ uplink'[e] = uplink[e]
                           \/ uplink'[e].status = rows'[uplink'[e].sig].status,
         uplink' \in [Stores -> Answers \union {NoAnswer}]
  PROVE  FederationInv'
  <1>1. everActive \subseteq everActive' /\ everActive' \subseteq Signatures
    BY DEF RecordActive, FederationInv, FederationTypeOK
  <1>2. FederationTypeOK'
    BY <1>1 DEF FederationInv, FederationTypeOK
  <1>3. \A e \in Stores, t \in Signatures : Has(e, t)' <=> Has(e, t)
    BY DEF Has
  <1>4. (\A e \in Stores, t \in Signatures : Has(e, t) => author[e][t] \in Fingerprints)'
    BY <1>3 DEF FederationInv
  <1>5. (\A e \in Stores : uplink[e].status = "active" => uplink[e].sig \in everActive)'
    <2>1. ASSUME NEW e \in Stores, uplink'[e].status = "active"
          PROVE  uplink'[e].sig \in everActive'
      <3>1. CASE uplink'[e] = uplink[e]
        BY <1>1, <2>1, <3>1 DEF FederationInv
      <3>2. CASE uplink'[e].status = rows'[uplink'[e].sig].status
        <4>1. uplink'[e].sig \in Signatures
          BY <2>1 DEF NoAnswer, Answers
        <4> QED
          BY <2>1, <3>2, <4>1 DEF RecordActive
      <3> QED
        BY <3>1, <3>2
    <2> QED
      BY <2>1
  <1>6. ContributorsReproduced'
    BY <1>3 DEF FederationInv, ContributorsReproduced
  <1>7. GlobalMarkEarned'
    BY <1>1 DEF FederationInv, GlobalMarkEarned
  <1> QED
    BY <1>2, <1>4, <1>5, <1>6, <1>7 DEF FederationInv

\* No store, no row, no contributor.
LEMMA InitFederation == FederationInit => FederationInv
  <1> SUFFICES ASSUME FederationInit PROVE FederationInv
    OBVIOUS
  <1>1. TypeOK
    BY InitIInv DEF FederationInit, IInv
  <1>2. NoLesson \in Lesson /\ NoLesson.status = "absent" /\ NoLesson.scope = "local"
    BY DEF NoLesson, Lesson, Scopes
  <1>3. FederationTypeOK
    BY <1>1, <1>2 DEF FederationInit, FederationTypeOK
  <1>4. \A d \in Stores, s \in Signatures : ~ Has(d, s) /\ local[d][s].scope = "local"
    BY <1>2 DEF FederationInit, Has
  <1>5. \A s \in Signatures : rows[s].contributors = {}
    BY DEF FederationInit, Init, NoRow
  <1> QED
    BY <1>3, <1>4, <1>5
    DEF FederationInit, FederationInv, NoAnswer, ContributorsReproduced, GlobalMarkEarned

\* Every method of a store, every answer and every call of the global memory
\* preserves the invariant.
LEMMA NextFederation ==
  ASSUME FederationInv, [FederationNext]_federationVars
  PROVE  FederationInv'
  <1> USE DEF FederationInv, FederationTypeOK
  <1>1. ASSUME NEW d \in Stores, NEW s \in Signatures, NEW f \in Fingerprints, Fail(d, f, s)
        PROVE  FederationInv'
    <2>1. local[d][s] \in Lesson
      OBVIOUS
    <2>2. CASE Has(d, s)
      <3>1. author' = author
        BY <1>1, <2>2 DEF Fail
      <3>2. local' = [local EXCEPT ![d][s] = Repeated(local[d][s])]
        BY <1>1, <2>2 DEF Fail
      <3>3. /\ Repeated(local[d][s]) \in Lesson
            /\ Repeated(local[d][s]).status # "absent"
            /\ Repeated(local[d][s]).scope = local[d][s].scope
            /\ Repeated(local[d][s]).repro_count = local[d][s].repro_count + 1
        BY <2>1, <2>2, LocalRows DEF Has
      <3>4. local[d][s].repro_count \in Nat
        BY <2>1 DEF Lesson
      <3>5. local[d][s].scope = "global" =>
               local[d][s].repro_count >= MinRepro \/ s \in everActive
        BY DEF GlobalMarkEarned
      <3> DEFINE row == Repeated(local[d][s])
      <3>6. row \in Lesson /\ row.status # "absent" /\ author[d][s] \in Fingerprints
        BY <2>2, <3>3
      <3>7. row.scope = "global" => row.repro_count >= MinRepro \/ s \in everActive
        BY <3>3, <3>4, <3>5, ReproAssumption
      <3>8. local' = [local EXCEPT ![d][s] = row] /\ UNCHANGED <<rows, author, uplink, everActive>>
        BY <1>1, <3>1, <3>2 DEF Fail
      <3>9. /\ \A e \in Stores : uplink'[e] = uplink[e] \/ uplink'[e] = NoAnswer
            /\ uplink' \in [Stores -> Answers \union {NoAnswer}]
        BY <3>8
      <3> HIDE DEF row, FederationInv, FederationTypeOK
      <3> QED
        BY <3>6, <3>7, <3>8, <3>9, LocalWrite
    <2>3. CASE ~ Has(d, s)
      <3>1. /\ local' = [local EXCEPT ![d][s] = NewLesson]
            /\ author' = [author EXCEPT ![d][s] = f]
            /\ UNCHANGED <<rows, uplink, everActive>>
        BY <1>1, <2>3 DEF Fail
      <3>2. NewLesson \in Lesson /\ NewLesson.status = "active" /\ NewLesson.scope = "local"
        BY <2>1, LocalRows
      <3>3. \A e \in Stores, t \in Signatures :
               /\ local'[e][t] = IF e = d /\ t = s THEN NewLesson ELSE local[e][t]
               /\ author'[e][t] = IF e = d /\ t = s THEN f ELSE author[e][t]
        BY <3>1
      <3>4. FederationTypeOK'
        BY <3>1, <3>2 DEF TypeOK
      <3>5. \A e \in Stores, t \in Signatures :
               Has(e, t) => Has(e, t)' /\ author'[e][t] = author[e][t]
        BY <2>3, <3>3 DEF Has
      <3>6. (\A e \in Stores, t \in Signatures : Has(e, t) => author[e][t] \in Fingerprints)'
        BY <3>3 DEF Has
      <3>7. ContributorsReproduced'
        BY <3>1, <3>5 DEF ContributorsReproduced
      <3>8. GlobalMarkEarned'
        BY <3>1, <3>2, <3>3 DEF GlobalMarkEarned
      <3> QED
        BY <3>1, <3>4, <3>6, <3>7, <3>8
    <2> QED
      BY <2>2, <2>3
  <1>2. ASSUME NEW d \in Stores, NEW s \in Signatures, NEW consent \in BOOLEAN,
               NEW target \in {"team", "global"}, PromoteLocal(d, s, target, consent)
        PROVE  FederationInv'
    <2>1. local[d][s] \in Lesson
      OBVIOUS
    <2>2. /\ Shared(local[d][s], target) \in Lesson
          /\ Shared(local[d][s], target).status # "absent"
          /\ Shared(local[d][s], target).repro_count >= MinRepro
      BY <1>2, <2>1, LocalRows DEF PromoteLocal, Has
    <2> DEFINE row == Shared(local[d][s], target)
    <2>3. /\ row \in Lesson /\ row.status # "absent" /\ row.repro_count >= MinRepro
          /\ author[d][s] \in Fingerprints
      BY <1>2, <2>2 DEF PromoteLocal
    <2>4. /\ local' = [local EXCEPT ![d][s] = row]
          /\ UNCHANGED <<rows, author, uplink, everActive>>
      BY <1>2 DEF PromoteLocal
    <2>5. /\ \A e \in Stores : uplink'[e] = uplink[e] \/ uplink'[e] = NoAnswer
          /\ uplink' \in [Stores -> Answers \union {NoAnswer}]
      BY <2>4
    <2> HIDE DEF row, FederationInv, FederationTypeOK
    <2> QED
      BY <2>3, <2>4, <2>5, LocalWrite
  <1>3. ASSUME NEW d \in Stores, NEW s \in Signatures, RevokeLocal(d, s)
        PROVE  FederationInv'
    <2>1. local[d][s] \in Lesson
      OBVIOUS
    <2>2. /\ Withdrawn(local[d][s]) \in Lesson
          /\ Withdrawn(local[d][s]).status = "retracted"
          /\ Withdrawn(local[d][s]).scope = "local"
      BY <2>1, LocalRows
    <2>3. local' = [local EXCEPT ![d][s] = Withdrawn(local[d][s])]
      BY <1>3 DEF RevokeLocal
    <2> QED
      BY <1>3, <2>2, <2>3, LocalWrite DEF RevokeLocal
  <1>4. ASSUME NEW d \in Stores, NEW s \in Signatures, NEW consent \in BOOLEAN,
               Uplink(d, s, consent)
        PROVE  FederationInv'
    <2> DEFINE f == author[d][s]
    <2>1. f \in Fingerprints /\ Promote(f, s, consent) /\ Has(d, s)
      BY <1>4 DEF Uplink
    <2>2. /\ TypeOK'
          /\ \A t \in Signatures : rows'[t].contributors \subseteq
                rows[t].contributors \union (IF t = s THEN {f} ELSE {})
          /\ rows'[s].status \in {"pending", "active", "retracted"}
      BY <2>1, GlobalCall
    <2>3. \A t \in Signatures : \A g \in rows'[t].contributors \ rows[t].contributors :
             \E e \in Stores : Has(e, t) /\ author[e][t] = g
      BY <2>1, <2>2
    <2>4. uplink' = [uplink EXCEPT ![d] = [sig |-> s, status |-> rows'[s].status]]
      BY <1>4 DEF Uplink
    <2>5. /\ uplink' \in [Stores -> Answers \union {NoAnswer}]
          /\ \A e \in Stores : \/ uplink'[e] = uplink[e]
                               \/ uplink'[e].status = rows'[uplink'[e].sig].status
      BY <2>2, <2>4 DEF Answers
    <2> QED
      BY <1>4, <2>2, <2>3, <2>5, GlobalWrite DEF Uplink
  <1>5. ASSUME NEW d \in Stores, UplinkAnswer(d)
        PROVE  FederationInv'
    <2> DEFINE s == uplink[d].sig
    <2>1. /\ UNCHANGED <<rows, author, everActive>>
          /\ uplink' \in [Stores -> Answers \union {NoAnswer}]
          /\ \A e \in Stores : uplink'[e] = uplink[e] \/ uplink'[e] = NoAnswer
      BY <1>5 DEF UplinkAnswer
    <2>2. CASE uplink[d].status = "active"
      <3>1. s \in Signatures /\ s \in everActive
        BY <1>5, <2>2 DEF UplinkAnswer, Answers
      <3>2. local' = [local EXCEPT ![d][s] = Shared(local[d][s], "global")]
        BY <1>5, <2>2 DEF UplinkAnswer
      <3>3. local[d][s] \in Lesson
        BY <3>1
      <3>4. \A e \in Stores, t \in Signatures :
               local'[e][t] = IF e = d /\ t = s THEN Shared(local[d][s], "global")
                              ELSE local[e][t]
        BY <3>1, <3>2
      <3>5. /\ Shared(local[d][s], "global") \in Lesson
            /\ Shared(local[d][s], "global").status = local[d][s].status
        BY <3>3, LocalRows
      <3>6. FederationTypeOK'
        BY <2>1, <3>1, <3>2, <3>5 DEF TypeOK
      <3>7. \A e \in Stores, t \in Signatures : Has(e, t)' <=> Has(e, t)
        BY <3>4, <3>5 DEF Has
      <3>8. GlobalMarkEarned'
        BY <2>1, <3>1, <3>4 DEF GlobalMarkEarned
      <3>9. ContributorsReproduced'
        BY <2>1, <3>7 DEF ContributorsReproduced
      <3>10. (\A e \in Stores, t \in Signatures : Has(e, t) => author[e][t] \in Fingerprints)'
        BY <2>1, <3>7
      <3>11. (\A e \in Stores : uplink[e].status = "active" => uplink[e].sig \in everActive)'
        BY <2>1 DEF NoAnswer
      <3> QED
        BY <3>6, <3>8, <3>9, <3>10, <3>11
    <2>3. CASE uplink[d].status # "active"
      <3>1. local' = local
        BY <1>5, <2>3 DEF UplinkAnswer
      <3> QED
        BY <2>1, <3>1 DEF NoAnswer, Has, ContributorsReproduced, GlobalMarkEarned, TypeOK
    <2> QED
      BY <2>2, <2>3
  <1>6. ASSUME NEW d \in Stores, AnswerLost(d)
        PROVE  FederationInv'
    <2>1. /\ uplink' \in [Stores -> Answers \union {NoAnswer}]
          /\ \A e \in Stores : uplink'[e] = uplink[e] \/ uplink'[e] = NoAnswer
      BY <1>6 DEF AnswerLost
    <2> QED
      BY <1>6, <2>1
      DEF AnswerLost, NoAnswer, Has, ContributorsReproduced, GlobalMarkEarned, TypeOK
  <1>7. ASSUME NEW d \in Stores, NEW s \in Signatures, RevokeGlobal(d, s)
        PROVE  FederationInv'
    <2>1. author[d][s] \in Fingerprints /\ Revoke(author[d][s], s)
      BY <1>7 DEF RevokeGlobal
    <2>2. ~ Promote(author[d][s], s, FALSE)
      BY DEF Promote
    <2>3. TypeOK' /\ \A t \in Signatures : rows'[t].contributors \subseteq rows[t].contributors
      BY <2>1, <2>2, GlobalCall
    <2> QED
      BY <1>7, <2>3, GlobalWrite DEF RevokeGlobal
  <1>8. ASSUME NEW s \in Signatures, CommunityVote(s)
        PROVE  FederationInv'
    <2>1. TypeOK' /\ \A t \in Signatures : rows'[t].contributors = rows[t].contributors
      <3> DEFINE new == VotedDown(rows[s])
      <3>1. new \in Row /\ new.contributors = rows[s].contributors
        BY VotedDownFields DEF TypeOK
      <3>2. rows' = [rows EXCEPT ![s] = new]
        BY <1>8 DEF CommunityVote, VoteDown
      <3> HIDE DEF new
      <3> QED
        BY <3>1, <3>2 DEF TypeOK
    <2> QED
      BY <1>8, <2>1, GlobalWrite DEF CommunityVote
  <1>9. CASE UNCHANGED federationVars
    BY <1>9 DEF federationVars, Has, ContributorsReproduced, GlobalMarkEarned, TypeOK
  <1> QED
    BY <1>1, <1>2, <1>3, <1>4, <1>5, <1>6, <1>7, <1>8, <1>9 DEF FederationNext

-----------------------------------------------------------------------------
\* The invariant of the federation, for the theorems.
LEMMA FederationInvariant == FederationSpec => []FederationInv
  <1>1. FederationInv /\ [FederationNext]_federationVars => FederationInv'
    BY NextFederation
  <1> QED
    BY <1>1, InitFederation, PTL DEF FederationSpec

\* However many stores promote, retry, withdraw and lose answers, a
\* contributor counted by the gate has a stored failure of their own
\* (promote_to_global sends the fingerprint of the row).
THEOREM CountedContributorsFailed == FederationSpec => []ContributorsReproduced
  <1>1. FederationInv => ContributorsReproduced
    BY DEF FederationInv
  <1> QED
    BY <1>1, FederationInvariant, PTL

\* A lesson marked global in a store has passed the store's own gate or was
\* active in the global memory, at the latest when the answer was sent
\* (promote, promote_to_global).
THEOREM GlobalMarksAreEarned == FederationSpec => []GlobalMarkEarned
  <1>1. FederationInv => GlobalMarkEarned
    BY DEF FederationInv
  <1> QED
    BY <1>1, FederationInvariant, PTL

\* The federation implements the global memory: whatever its stores do, its
\* table moves by whole operations of GlobalMemory, with known contributors.
THEOREM FederationImplementsMemory == FederationSpec => Spec
  <1>1. FederationInv /\ [FederationNext]_federationVars => [Next]_vars
    <2> SUFFICES ASSUME FederationInv, [FederationNext]_federationVars
                 PROVE  [Next]_vars
      OBVIOUS
    <2>1. ASSUME NEW d \in Stores, NEW s \in Signatures, NEW consent \in BOOLEAN,
                 Uplink(d, s, consent)
          PROVE  Next
      BY <2>1 DEF FederationInv, Uplink, Next
    <2>2. ASSUME NEW d \in Stores, NEW s \in Signatures, RevokeGlobal(d, s)
          PROVE  Next
      BY <2>2 DEF FederationInv, RevokeGlobal, Next
    <2>3. ASSUME NEW s \in Signatures, CommunityVote(s)
          PROVE  Next
      BY <2>3 DEF CommunityVote, Next
    <2> QED
      BY <2>1, <2>2, <2>3
      DEF FederationNext, federationVars, vars, Fail, PromoteLocal, RevokeLocal,
          UplinkAnswer, AnswerLost
  <1>2. FederationInit => Init
    BY DEF FederationInit
  <1> QED
    BY <1>1, <1>2, FederationInvariant, PTL DEF FederationSpec, Spec

\* So its quality gate holds, also while answers are on their way or lost.
THEOREM FederationKeepsGate == FederationSpec => []QualityGate
  BY FederationImplementsMemory, GateHolds
=============================================================================
