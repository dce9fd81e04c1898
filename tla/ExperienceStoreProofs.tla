------------------------ MODULE ExperienceStoreProofs ------------------------
(***************************************************************************)
(* Proofs about ExperienceStore, for any number of sidecars and lessons.   *)
(***************************************************************************)
EXTENDS ExperienceStore, FiniteSetTheorems, TLAPS

\* A row that is not there has no count, and a SELECT that found a row has not
\* become wrong since: rows are never deleted.
RowInv ==
    /\ \A l \in Lessons : lesson[l].status = "absent" => lesson[l].repro_count = 0
    /\ \A p \in Procs : proc[p].pc = "upsert" /\ proc[p].found =>
          lesson[proc[p].l].status # "absent"

\* The sidecars that are about to INSERT a row for l.
Inserting(l) == {p \in Procs : proc[p].pc = "upsert" /\ proc[p].l = l /\ ~ proc[p].found}

\* Until there is a row nobody has lost an INSERT; from then on those who lost
\* theirs and those who still will are fewer than the sidecars, since the one
\* that made the row is not among them.
LossInv == \A l \in Lessons :
    /\ lesson[l].status = "absent" => raised[l] = 0
    /\ lesson[l].status # "absent" =>
          raised[l] + Cardinality(Inserting(l)) < Cardinality(Procs)

IInv == TypeOK /\ RowInv /\ EveryUpsertCounts /\ LossInv

-----------------------------------------------------------------------------
(* What a sidecar holds, by what it is doing; what is written into a row.  *)

LEMMA ProcTyped ==
  ASSUME TypeOK, NEW p \in Procs
  PROVE  /\ proc[p] \in Proc
         /\ proc[p].pc = "report" => proc[p].todo \subseteq Lessons
         /\ proc[p].pc = "upsert" => /\ proc[p].l \in Lessons
                                     /\ proc[p].todo \subseteq Lessons
                                     /\ proc[p].found \in BOOLEAN
         /\ proc[p].pc = "promote" => /\ proc[p].l \in Lessons
                                      /\ proc[p].target \in {"team", "global"}
         /\ proc[p].pc = "uplink" => proc[p].l \in Lessons
  <1>1. proc[p] \in Proc
    BY DEF TypeOK
  <1> QED
    BY <1>1 DEF Proc, Idle

LEMMA RowsWritten ==
  ASSUME NEW row \in Lesson, NEW target \in {"team", "global"}
  PROVE  /\ NewLesson \in Lesson /\ NewLesson.status = "active" /\ NewLesson.repro_count = 1
         /\ Repeated(row) \in Lesson /\ Repeated(row).status = row.status
         /\ Repeated(row).repro_count = row.repro_count + 1
         /\ Shared(row, target) \in Lesson /\ Shared(row, target).status = row.status
         /\ Shared(row, target).repro_count = row.repro_count
         /\ Withdrawn(row) \in Lesson /\ Withdrawn(row).status = "retracted"
         /\ Withdrawn(row).repro_count = row.repro_count
  <1>1. NewLesson \in Lesson /\ NewLesson.status = "active" /\ NewLesson.repro_count = 1
    BY DEF Lesson, NoLesson, NewLesson, Scopes
  <1>2. /\ Repeated(row) \in Lesson /\ Repeated(row).status = row.status
        /\ Repeated(row).repro_count = row.repro_count + 1
    BY DEF Lesson, Repeated
  <1>3. /\ Shared(row, target) \in Lesson /\ Shared(row, target).status = row.status
        /\ Shared(row, target).repro_count = row.repro_count
    BY DEF Lesson, Shared, Scopes
  <1>4. /\ Withdrawn(row) \in Lesson /\ Withdrawn(row).status = "retracted"
        /\ Withdrawn(row).repro_count = row.repro_count
    BY DEF Lesson, Withdrawn, Scopes
  <1> QED
    BY <1>1, <1>2, <1>3, <1>4

-----------------------------------------------------------------------------
(* The invariant *)

LEMMA InsertingFinite ==
  ASSUME NEW l
  PROVE  /\ IsFiniteSet(Inserting(l)) /\ Cardinality(Inserting(l)) \in Nat
         /\ Cardinality(Procs) \in Nat
         /\ Cardinality(Inserting(l)) <= Cardinality(Procs)
  <1>1. Inserting(l) \in SUBSET Procs
    BY DEF Inserting
  <1>2. IsFiniteSet(Inserting(l)) /\ Cardinality(Inserting(l)) <= Cardinality(Procs)
    BY <1>1, StoreAssumption, FS_Subset
  <1> QED
    BY <1>2, StoreAssumption, FS_CardinalityType

LEMMA InitInv == Init => IInv
  <1> SUFFICES ASSUME Init PROVE IInv
    OBVIOUS
  <1>1. TypeOK /\ RowInv /\ EveryUpsertCounts
    BY StoreAssumption
       DEF Init, TypeOK, RowInv, EveryUpsertCounts, NoLesson, Lesson, Scopes, Idle, Proc
  <1>2. LossInv
    BY DEF Init, LossInv, NoLesson
  <1> QED
    BY <1>1, <1>2 DEF IInv

\* A sidecar that leaves the set of those about to INSERT, or stays in or out of
\* it, while nobody else moves.
LEMMA LossKept ==
  ASSUME TypeOK, LossInv, NEW l \in Lessons, raised'[l] = raised[l],
         lesson'[l].status = "absent" <=> lesson[l].status = "absent",
         lesson[l].status # "absent" => Inserting(l)' \subseteq Inserting(l)
  PROVE  /\ lesson'[l].status = "absent" => raised'[l] = 0
         /\ lesson'[l].status # "absent" =>
               raised'[l] + Cardinality(Inserting(l)') < Cardinality(Procs)
  <1>1. CASE lesson[l].status = "absent"
    BY <1>1 DEF LossInv
  <1>2. CASE lesson[l].status # "absent"
    <2>1. Cardinality(Inserting(l)') <= Cardinality(Inserting(l))
          /\ IsFiniteSet(Inserting(l)')
      BY <1>2, InsertingFinite, FS_Subset
    <2>2. Cardinality(Inserting(l)') \in Nat
      BY <2>1, FS_CardinalityType
    <2>3. raised[l] \in Nat
      BY DEF TypeOK
    <2>4. raised[l] + Cardinality(Inserting(l)) < Cardinality(Procs)
      BY <1>2 DEF LossInv
    <2>5. raised[l] + Cardinality(Inserting(l)') < Cardinality(Procs)
      BY <2>1, <2>2, <2>3, <2>4, InsertingFinite
    <2> QED
      BY <1>2, <2>5
  <1> QED
    BY <1>1, <1>2

\* A sidecar that only changes what it is doing itself leaves the rows alone.
LEMMA OwnStep ==
  ASSUME IInv, NEW p \in Procs, NEW q \in Proc,
         proc' = [proc EXCEPT ![p] = q],
         UNCHANGED <<lesson, log, upserts, raised>>,
         constraints' \in [Procs -> SUBSET Lessons],
         q.pc = "upsert" => (q.found <=> lesson[q.l].status # "absent")
  PROVE  IInv'
  <1>1. TypeOK'
    BY DEF IInv, TypeOK
  <1>2. RowInv'
    BY DEF IInv, TypeOK, RowInv
  <1>3. EveryUpsertCounts'
    BY DEF IInv, EveryUpsertCounts
  <1>4. LossInv'
    <2>1. ASSUME NEW l \in Lessons, lesson[l].status # "absent"
          PROVE  Inserting(l)' \subseteq Inserting(l)
      BY <2>1 DEF IInv, TypeOK, Inserting
    <2> QED
      BY <2>1, LossKept DEF IInv, LossInv
  <1> QED
    BY <1>1, <1>2, <1>3, <1>4 DEF IInv

\* A row is overwritten, and its count, if it changes, with the upserts; a row
\* that is new is made by one that was about to INSERT it; the sidecar that did
\* it has no SELECT pending.
LEMMA RowStep ==
  ASSUME IInv, NEW p \in Procs, NEW q \in Proc, NEW l \in Lessons, NEW row \in Lesson,
         NEW n \in Nat,
         proc' = [proc EXCEPT ![p] = q], q.pc # "upsert",
         lesson' = [lesson EXCEPT ![l] = row], upserts' = [upserts EXCEPT ![l] = n],
         row.repro_count = n,
         row.status = "absent" => lesson[l].status = "absent" /\ n = 0,
         lesson[l].status = "absent" /\ row.status # "absent" => p \in Inserting(l),
         log' \subseteq Lessons \X Scopes, constraints' = constraints, raised' = raised
  PROVE  IInv'
  <1>1. TypeOK'
    BY DEF IInv, TypeOK
  <1>2. RowInv'
    <2>1. \A k \in Lessons : lesson'[k].status = "absent" =>
             lesson[k].status = "absent" /\ lesson'[k].repro_count = 0
      BY DEF IInv, TypeOK, RowInv
    <2>2. ASSUME NEW o \in Procs, proc'[o].pc = "upsert", proc'[o].found
          PROVE  lesson'[proc'[o].l].status # "absent"
      <3>1. proc'[o] = proc[o]
        BY <2>2 DEF IInv, TypeOK
      <3>2. proc[o].l \in Lessons /\ lesson[proc[o].l].status # "absent"
        BY <2>2, <3>1, ProcTyped DEF IInv, RowInv
      <3> QED
        BY <2>1, <3>1, <3>2
    <2> QED
      BY <2>1, <2>2 DEF RowInv
  <1>3. EveryUpsertCounts'
    BY DEF IInv, TypeOK, EveryUpsertCounts
  <1>4. ASSUME NEW k \in Lessons
        PROVE  /\ lesson'[k].status = "absent" => raised'[k] = 0
               /\ lesson'[k].status # "absent" =>
                     raised'[k] + Cardinality(Inserting(k)') < Cardinality(Procs)
    <2>1. Inserting(k)' \subseteq Inserting(k) \ {p}
      BY DEF IInv, TypeOK, Inserting
    <2>2. CASE k = l /\ lesson[l].status = "absent" /\ row.status # "absent"
      <3>1. p \in Inserting(k) /\ raised'[k] = 0
        BY <2>2 DEF IInv, LossInv
      <3>2. /\ IsFiniteSet(Inserting(k) \ {p})
            /\ Cardinality(Inserting(k) \ {p}) = Cardinality(Inserting(k)) - 1
        BY <3>1, InsertingFinite, FS_RemoveElement
      <3>3. Cardinality(Inserting(k)') <= Cardinality(Inserting(k) \ {p})
            /\ IsFiniteSet(Inserting(k)')
        BY <2>1, <3>2, FS_Subset
      <3>4. Cardinality(Inserting(k)') \in Nat
        BY <3>3, FS_CardinalityType
      <3>5. raised'[k] + Cardinality(Inserting(k)') < Cardinality(Procs)
        BY <3>1, <3>2, <3>3, <3>4, InsertingFinite
      <3> QED
        BY <3>1, <3>5
    <2>3. CASE ~ (k = l /\ lesson[l].status = "absent" /\ row.status # "absent")
      <3>1. lesson'[k].status = "absent" <=> lesson[k].status = "absent"
        BY <2>3 DEF IInv, TypeOK
      <3> QED
        BY <2>1, <3>1, LossKept DEF IInv
    <2> QED
      BY <2>2, <2>3
  <1>5. LossInv'
    BY <1>4 DEF LossInv
  <1> QED
    BY <1>1, <1>2, <1>3, <1>5 DEF IInv

\* An INSERT that raises takes its sidecar out of those about to INSERT.
LEMMA RaiseStep ==
  ASSUME IInv, NEW p \in Procs, NEW l \in Lessons, p \in Inserting(l),
         lesson[l].status # "absent",
         proc' = [proc EXCEPT ![p] = Idle],
         raised' = [raised EXCEPT ![l] = raised[l] + 1],
         UNCHANGED <<lesson, log, constraints, upserts>>
  PROVE  IInv'
  <1>i. Idle \in Proc /\ Idle.pc = "idle"
    BY DEF Idle, Proc
  <1>1. TypeOK'
    BY <1>i DEF IInv, TypeOK
  <1>2. RowInv' /\ EveryUpsertCounts'
    BY <1>i DEF IInv, TypeOK, RowInv, EveryUpsertCounts
  <1>3. ASSUME NEW k \in Lessons
        PROVE  /\ lesson'[k].status = "absent" => raised'[k] = 0
               /\ lesson'[k].status # "absent" =>
                     raised'[k] + Cardinality(Inserting(k)') < Cardinality(Procs)
    <2>1. Inserting(k)' \subseteq Inserting(k) \ {p}
      BY <1>i DEF IInv, TypeOK, Inserting
    <2>2. CASE k # l
      BY <2>1, <2>2, LossKept DEF IInv, TypeOK
    <2>3. CASE k = l
      <3>1. /\ IsFiniteSet(Inserting(k) \ {p})
            /\ Cardinality(Inserting(k) \ {p}) = Cardinality(Inserting(k)) - 1
        BY <2>3, InsertingFinite, FS_RemoveElement
      <3>2. Cardinality(Inserting(k)') <= Cardinality(Inserting(k) \ {p})
            /\ IsFiniteSet(Inserting(k)')
        BY <2>1, <3>1, FS_Subset
      <3>3. Cardinality(Inserting(k)') \in Nat
        BY <3>2, FS_CardinalityType
      <3>4. raised[k] \in Nat /\ raised'[k] = raised[k] + 1
            /\ raised[k] + Cardinality(Inserting(k)) < Cardinality(Procs)
        BY <2>3 DEF IInv, TypeOK, LossInv
      <3>5. raised'[k] + Cardinality(Inserting(k)') < Cardinality(Procs)
        BY <3>1, <3>2, <3>3, <3>4, InsertingFinite
      <3> QED
        BY <2>3, <3>5
    <2> QED
      BY <2>2, <2>3
  <1>4. LossInv'
    BY <1>3 DEF LossInv
  <1> QED
    BY <1>1, <1>2, <1>4 DEF IInv

\* A row that keeps its count, and is there if it was.
LEMMA MarkStep ==
  ASSUME IInv, NEW p \in Procs, NEW l \in Lessons, NEW row \in Lesson,
         proc' = [proc EXCEPT ![p] = Idle],
         lesson' = [lesson EXCEPT ![l] = row],
         row.repro_count = lesson[l].repro_count,
         row.status = "absent" <=> lesson[l].status = "absent",
         log' \subseteq Lessons \X Scopes, UNCHANGED <<constraints, upserts, raised>>
  PROVE  IInv'
  <1> DEFINE n == upserts[l]
  <1>1. n \in Nat /\ upserts' = [upserts EXCEPT ![l] = n]
    BY DEF IInv, TypeOK
  <1>2. row.repro_count = n /\ (row.status = "absent" => lesson[l].status = "absent" /\ n = 0)
    BY DEF IInv, RowInv, EveryUpsertCounts
  <1>3. Idle \in Proc /\ Idle.pc # "upsert"
    BY DEF Idle, Proc
  <1>4. constraints' = constraints /\ raised' = raised
    OBVIOUS
  <1>5. lesson[l].status = "absent" /\ row.status # "absent" => p \in Inserting(l)
    OBVIOUS
  <1>6. proc' = [proc EXCEPT ![p] = Idle] /\ lesson' = [lesson EXCEPT ![l] = row]
        /\ log' \subseteq Lessons \X Scopes
    OBVIOUS
  <1> HIDE DEF n
  <1> QED
    BY ONLY IInv, p \in Procs, l \in Lessons, row \in Lesson, <1>1, <1>2, <1>3, <1>4, <1>5,
            <1>6, RowStep

LEMMA StepInv == IInv /\ [Next]_vars => IInv'
  <1> SUFFICES ASSUME IInv, [Next]_vars PROVE IInv'
    OBVIOUS
  <1>t. TypeOK
    BY DEF IInv
  <1>c. constraints \in [Procs -> SUBSET Lessons]
    BY <1>t DEF TypeOK
  <1>i. Idle \in Proc /\ Idle.pc = "idle"
    BY DEF Idle, Proc
  <1>1. ASSUME NEW p \in Procs, NEW ls \in SUBSET Lessons, WriteFromReport(p, ls)
        PROVE  IInv'
    <2> DEFINE q == [pc |-> "report", todo |-> ls]
    <2>1. q \in Proc /\ q.pc = "report"
      BY DEF Proc
    <2>2. proc' = [proc EXCEPT ![p] = q] /\ UNCHANGED <<lesson, log, upserts, raised, constraints>>
      BY <1>1 DEF WriteFromReport
    <2> HIDE DEF q
    <2> QED
      BY <2>1, <2>2, <1>c, OwnStep
  <1>2. ASSUME NEW p \in Procs, NEW l \in Lessons, NEW again \in BOOLEAN,
               UpsertSelect(p, l, again)
        PROVE  IInv'
    <2> DEFINE q == [pc |-> "upsert", l |-> l,
                     todo |-> IF again THEN proc[p].todo ELSE proc[p].todo \ {l},
                     found |-> lesson[l].status # "absent"]
    <2>1. proc[p].todo \subseteq Lessons
      BY <1>2, <1>t, ProcTyped DEF UpsertSelect
    <2>2. q \in Proc /\ q.l = l /\ (q.found <=> lesson[l].status # "absent")
      BY <2>1 DEF Proc
    <2>3. proc' = [proc EXCEPT ![p] = q] /\ UNCHANGED <<lesson, log, upserts, raised, constraints>>
      BY <1>2 DEF UpsertSelect
    <2> HIDE DEF q
    <2> QED
      BY <2>2, <2>3, <1>c, OwnStep
  <1>3. ASSUME NEW p \in Procs, UpsertWrite(p)
        PROVE  IInv'
    <2> DEFINE l == proc[p].l
               found == proc[p].found
               row == IF found THEN Repeated(lesson[l]) ELSE NewLesson
               q == [pc |-> "report", todo |-> proc[p].todo]
    <2>1. l \in Lessons /\ proc[p].todo \subseteq Lessons /\ lesson[l] \in Lesson
          /\ upserts[l] \in Nat
      BY <1>3, <1>t, ProcTyped DEF UpsertWrite, TypeOK
    <2>2. CASE ~ found /\ lesson[l].status # "absent"
      <3>1. /\ proc' = [proc EXCEPT ![p] = Idle]
            /\ raised' = [raised EXCEPT ![l] = raised[l] + 1]
            /\ UNCHANGED <<lesson, log, upserts, constraints>>
        BY <1>3, <2>2 DEF UpsertWrite
      <3>2. p \in Inserting(l)
        BY <1>3, <2>2 DEF UpsertWrite, Inserting
      <3> HIDE DEF l
      <3> QED
        BY <2>1, <2>2, <3>1, <3>2, RaiseStep
    <2>3. CASE ~ (~ found /\ lesson[l].status # "absent")
      <3>1. /\ lesson' = [lesson EXCEPT ![l] = row]
            /\ upserts' = [upserts EXCEPT ![l] = upserts[l] + 1]
            /\ proc' = [proc EXCEPT ![p] = q] /\ UNCHANGED <<log, constraints, raised>>
        BY <1>3, <2>3 DEF UpsertWrite
      <3>2. q \in Proc /\ q.pc # "upsert"
        BY <2>1 DEF Proc
      <3>3. lesson[l].repro_count = upserts[l]
            /\ (lesson[l].status = "absent" => lesson[l].repro_count = 0)
        BY <2>1 DEF IInv, RowInv, EveryUpsertCounts
      <3>4. found => lesson[l].status # "absent"
        BY <1>3 DEF IInv, RowInv, UpsertWrite
      <3>5. row \in Lesson /\ row.repro_count = upserts[l] + 1 /\ row.status # "absent"
        BY <2>1, <2>3, <3>3, <3>4, RowsWritten
      <3>6. log' \subseteq Lessons \X Scopes /\ upserts[l] + 1 \in Nat
        BY <3>1, <1>t, <2>1 DEF TypeOK
      <3>7. lesson[l].status = "absent" => p \in Inserting(l)
        BY <1>3, <3>4 DEF UpsertWrite, Inserting
      <3> HIDE DEF l, row, q
      <3> QED
        BY <2>1, <3>1, <3>2, <3>5, <3>6, <3>7, RowStep
    <2> QED
      BY <2>2, <2>3
  <1>4. ASSUME NEW p \in Procs, FinishOrDie(p)
        PROVE  IInv'
    BY <1>4, <1>i, <1>c, OwnStep DEF FinishOrDie
  <1>5. ASSUME NEW p \in Procs, NEW scope_max \in Scopes, Inject(p, scope_max)
        PROVE  IInv'
    <2>1. constraints' \in [Procs -> SUBSET Lessons]
      BY <1>5, <1>c, StoreAssumption DEF Inject
    <2>2. proc' = [proc EXCEPT ![p] = proc[p]] /\ proc[p] \in Proc /\ proc[p] = Idle
      BY <1>5, <1>t DEF Inject, TypeOK
    <2> QED
      BY <1>5, <2>1, <2>2, <1>i, OwnStep DEF Inject
  <1>6. ASSUME NEW p \in Procs, NEW l \in Lessons, NEW target \in {"team", "global"},
               NEW consent \in BOOLEAN, PromoteSelect(p, l, target, consent)
        PROVE  IInv'
    <2> DEFINE q == [pc |-> "promote", l |-> l, target |-> target]
    <2>1. q \in Proc /\ q.pc = "promote"
      BY DEF Proc
    <2>2. proc' = [proc EXCEPT ![p] = q] /\ UNCHANGED <<lesson, log, upserts, raised, constraints>>
      BY <1>6 DEF PromoteSelect
    <2> HIDE DEF q
    <2> QED
      BY <2>1, <2>2, <1>c, OwnStep
  <1>7. ASSUME NEW p \in Procs, PromoteWrite(p)
        PROVE  IInv'
    <2> DEFINE l == proc[p].l
               target == proc[p].target
               row == Shared(lesson[l], target)
    <2>1. l \in Lessons /\ target \in {"team", "global"} /\ lesson[l] \in Lesson
      BY <1>7, <1>t, ProcTyped DEF PromoteWrite, TypeOK
    <2>2. row \in Lesson /\ row.status = lesson[l].status /\ row.repro_count = lesson[l].repro_count
      BY <2>1, RowsWritten
    <2>3. /\ lesson' = [lesson EXCEPT ![l] = row]
          /\ proc' = [proc EXCEPT ![p] = Idle] /\ UNCHANGED <<constraints, upserts, raised>>
          /\ log' = log \union {<<l, target>>}
      BY <1>7 DEF PromoteWrite
    <2>4. log' \subseteq Lessons \X Scopes
      BY <2>1, <2>3, <1>t DEF TypeOK, Scopes
    <2> HIDE DEF l, target, row
    <2> QED
      BY <2>1, <2>2, <2>3, <2>4, MarkStep
  <1>8. ASSUME NEW p \in Procs, NEW l \in Lessons, UplinkAsk(p, l)
        PROVE  IInv'
    <2> DEFINE q == [pc |-> "uplink", l |-> l]
    <2>1. q \in Proc /\ q.pc = "uplink"
      BY DEF Proc
    <2>2. proc' = [proc EXCEPT ![p] = q] /\ UNCHANGED <<lesson, log, upserts, raised, constraints>>
      BY <1>8 DEF UplinkAsk
    <2> HIDE DEF q
    <2> QED
      BY <2>1, <2>2, <1>c, OwnStep
  <1>9. ASSUME NEW p \in Procs, UplinkActive(p)
        PROVE  IInv'
    <2> DEFINE l == proc[p].l
               row == Shared(lesson[l], "global")
    <2>1. l \in Lessons /\ lesson[l] \in Lesson
      BY <1>9, <1>t, ProcTyped DEF UplinkActive, TypeOK
    <2>2. row \in Lesson /\ row.status = lesson[l].status /\ row.repro_count = lesson[l].repro_count
      BY <2>1, RowsWritten
    <2>3. /\ lesson' = [lesson EXCEPT ![l] = row]
          /\ proc' = [proc EXCEPT ![p] = Idle] /\ UNCHANGED <<log, constraints, upserts, raised>>
      BY <1>9 DEF UplinkActive
    <2>4. log' \subseteq Lessons \X Scopes
      BY <2>3, <1>t DEF TypeOK
    <2> HIDE DEF l, row
    <2> QED
      BY <2>1, <2>2, <2>3, <2>4, MarkStep
  <1>10. ASSUME NEW p \in Procs, NEW l \in Lessons, Revoke(p, l)
         PROVE  IInv'
    <2> DEFINE row == Withdrawn(lesson[l])
    <2>1. proc' = [proc EXCEPT ![p] = Idle]
      BY <1>10, <1>t DEF Revoke, TypeOK
    <2>2. row \in Lesson /\ row.status = "retracted" /\ row.repro_count = lesson[l].repro_count
      BY <1>t, RowsWritten DEF TypeOK
    <2>3. lesson' = [lesson EXCEPT ![l] = row] /\ UNCHANGED <<log, constraints, upserts, raised>>
          /\ lesson[l].status # "absent"
      BY <1>10 DEF Revoke
    <2>4. log' \subseteq Lessons \X Scopes
      BY <2>3, <1>t DEF TypeOK
    <2> HIDE DEF row
    <2> QED
      BY <2>1, <2>2, <2>3, <2>4, MarkStep
  <1>11. CASE UNCHANGED vars
    <2>1. UNCHANGED <<lesson, proc, log, constraints, upserts, raised>>
      BY <1>11 DEF vars
    <2>2. \A l \in Lessons : Inserting(l)' = Inserting(l)
      BY <2>1 DEF Inserting
    <2>3. LossInv'
      BY <2>1, <2>2 DEF IInv, LossInv
    <2> QED
      BY <2>1, <2>3 DEF IInv, TypeOK, RowInv, EveryUpsertCounts
  <1> QED
    BY <1>1, <1>2, <1>3, <1>4, <1>5, <1>6, <1>7, <1>8, <1>9, <1>10, <1>11 DEF Next

LEMMA Invariance == Spec => []IInv
  BY InitInv, StepInv, PTL DEF Spec

\* The rows, the promotion log and what each sidecar holds between two of its
\* statements keep their types (store.py:6, _SCHEMA).
THEOREM StoreTypeCorrect == Spec => []TypeOK
  <1>1. IInv => TypeOK
    BY DEF IInv
  <1> QED
    BY Invariance, <1>1, PTL

\* Whatever the interleaving of the sidecars and whichever of them are
\* terminated, the count the gate of promote reads is that of the upserts that
\* were committed (_upsert, store.py:81).
THEOREM UpsertsCount == Spec => []EveryUpsertCounts
  <1>1. IInv => EveryUpsertCounts
    BY DEF IInv
  <1> QED
    BY Invariance, <1>1, PTL

\* However often a failure recurs, the INSERT on a signature already there
\* (store.py:87) costs fewer upserts than there are sidecars.
THEOREM LossesAreBounded == Spec => []LostAtBirthOnly
  <1>1. ASSUME IInv, NEW l \in Lessons PROVE raised[l] < Cardinality(Procs)
    <2>1. raised[l] \in Nat
      BY <1>1 DEF IInv, TypeOK
    <2>2. CASE lesson[l].status = "absent"
      <3>1. Cardinality(Procs) # 0
        BY StoreAssumption, FS_EmptySet
      <3> QED
        BY <1>1, <2>2, <3>1, InsertingFinite DEF IInv, LossInv
    <2>3. CASE lesson[l].status # "absent"
      BY <1>1, <2>1, <2>3, InsertingFinite DEF IInv, LossInv
    <2> QED
      BY <2>2, <2>3
  <1>2. IInv => LostAtBirthOnly
    BY <1>1 DEF LostAtBirthOnly
  <1> QED
    BY Invariance, <1>2, PTL

-----------------------------------------------------------------------------
(* Withdrawing *)

\* No step changes the status of a withdrawn lesson: an INSERT needs that there
\* is no row, and the other statements leave the status alone.
LEMMA StatusStep ==
  ASSUME IInv, Next, NEW k \in Lessons, lesson[k].status = "retracted"
  PROVE  lesson'[k].status = "retracted"
  <1>t. TypeOK /\ lesson[k] \in Lesson
    BY DEF IInv, TypeOK
  <1>1. ASSUME NEW p \in Procs, UpsertWrite(p)
        PROVE  lesson'[k].status = "retracted"
    <2>1. proc[p].l \in Lessons /\ (proc[p].l = k /\ ~ proc[p].found => UNCHANGED lesson)
      BY <1>1, <1>t, ProcTyped DEF UpsertWrite
    <2>2. Repeated(lesson[k]).status = "retracted"
      BY <1>t, RowsWritten
    <2> QED
      BY <1>1, <1>t, <2>1, <2>2 DEF UpsertWrite, TypeOK
  <1>2. ASSUME NEW p \in Procs, PromoteWrite(p) \/ UplinkActive(p)
        PROVE  lesson'[k].status = "retracted"
    <2>1. \E target \in {"team", "global"} :
             lesson' = [lesson EXCEPT ![proc[p].l] = Shared(lesson[proc[p].l], target)]
      BY <1>2, <1>t, ProcTyped DEF PromoteWrite, UplinkActive
    <2>2. \A target \in {"team", "global"} : Shared(lesson[k], target).status = "retracted"
      BY <1>t, RowsWritten
    <2> QED
      BY <1>t, <2>1, <2>2 DEF TypeOK
  <1>3. ASSUME NEW p \in Procs, NEW l \in Lessons, Revoke(p, l)
        PROVE  lesson'[k].status = "retracted"
    <2>1. Withdrawn(lesson[k]).status = "retracted"
      BY <1>t, RowsWritten
    <2> QED
      BY <1>3, <1>t, <2>1 DEF Revoke, TypeOK
  <1> QED
    BY <1>1, <1>2, <1>3
       DEF Next, WriteFromReport, UpsertSelect, UplinkAsk, FinishOrDie, Inject, PromoteSelect

\* What inject returns is active.
LEMMA ConstraintStep ==
  ASSUME IInv, Next, NEW k \in Lessons, lesson[k].status = "retracted", NEW p \in Procs
  PROVE  k \notin constraints'[p] \/ k \in constraints[p]
  <1>1. ASSUME NEW o \in Procs, NEW scope_max \in Scopes, Inject(o, scope_max)
        PROVE  k \notin constraints'[p] \/ k \in constraints[p]
    BY <1>1 DEF Inject, IInv, TypeOK
  <1> QED
    BY <1>1
       DEF Next, WriteFromReport, UpsertSelect, UpsertWrite, UplinkAsk, UplinkActive, Revoke,
           FinishOrDie, PromoteSelect, PromoteWrite

\* A withdrawn lesson stays withdrawn and is never injected again, whatever was
\* under way when it was withdrawn (revoke, store.py:127).
THEOREM WithdrawalHolds == Spec => WithdrawnForGood
  <1> DEFINE Kept == \A l \in Lessons : lesson[l].status = "retracted" =>
                        /\ lesson'[l].status = "retracted"
                        /\ \A p \in Procs : l \notin constraints'[p] \/ l \in constraints[p]
  <1>1. IInv /\ [Next]_vars => [Kept]_vars
    BY StatusStep, ConstraintStep
  <1> QED
    BY Invariance, <1>1, PTL DEF Spec, WithdrawnForGood
=============================================================================
