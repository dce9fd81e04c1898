-------------------------- MODULE OrchestratorProofs --------------------------
(***************************************************************************)
(* Proofs about Orchestrator, for any claims, levels, verdicts and bounds: *)
(* what is signed was all green and confirmed by a human, the orchestrator *)
(* implements the pre-signoff gate, what blocks a run is remembered, and   *)
(* the guard goes back to a rejected citation.                             *)
(*                                                                         *)
(* Package checks nothing again: that it is reached only with a green      *)
(* report and an approval must be carried along from Check and Decide,     *)
(* together with the fact that no step between Verify and the next Start   *)
(* changes the draft or the report.                                        *)
(***************************************************************************)
EXTENDS Orchestrator, FiniteSetTheorems, TLAPS

Early == {"topic_confirm", "inject", "generate", "experiment_design", "verify"}
Late == {"share_consent", "pre_signoff", "package"}

\* The inductive invariant.
GateInv ==
    /\ stage \in Stages /\ result \in Results /\ all_green \in BOOLEAN
    /\ human \in [GateIds -> {"unasked", "approve", "decline"}]
    /\ stage # "idle" => result = "none"
    /\ stage \in Early => ~ all_green
    /\ stage \in Late => all_green
    /\ stage = "package" \/ result = "signed" =>
           all_green /\ human["pre_signoff"] = "approve"
    /\ all_green => /\ DOMAIN report = draft
                    /\ \A c \in draft : report[c] = "pass"

-----------------------------------------------------------------------------
\* A step that leaves the stage, the result, the human's answers and the
\* report alone preserves the invariant and the abstract state.
LEMMA Aside ==
  ASSUME GateInv,
         UNCHANGED <<stage, result, human, all_green, report, draft>>
  PROVE  GateInv' /\ UNCHANGED <<phase, all_green>>
  BY DEF GateInv, phase

LEMMA InitGateInv == Init => GateInv
  BY DEF Init, GateInv, Stages, GateIds, Results, Early, Late, Unasked

\* Every step preserves the invariant and is a step of the gate or none.
LEMMA NextGateInv ==
  ASSUME GateInv, Next
  PROVE  GateInv' /\ (Gate!Next \/ UNCHANGED <<phase, all_green>>)
<1> USE DEF Stages, GateIds, Results, Early, Late, HardGates, GateShouldPause,
            Gate!Next, Gate!Start, Gate!Verify, Gate!Confirm, Gate!Sign,
            Gate!Stop, Gate!Over, phase
<1>1. ASSUME NEW level \in Levels, Start(level)
      PROVE  GateInv' /\ (Gate!Next \/ UNCHANGED <<phase, all_green>>)
  BY <1>1 DEF Start, GateInv, Unasked
<1>2. ASSUME NEW gate \in GateIds, AutoApprove(gate)
      PROVE  GateInv' /\ (Gate!Next \/ UNCHANGED <<phase, all_green>>)
  BY <1>2 DEF AutoApprove, GateInv, Proceeds, After, runVars
<1>3. ASSUME NEW gate \in GateIds, NEW decision \in Decisions,
             Decide(gate, decision)
      PROVE  GateInv' /\ (Gate!Next \/ UNCHANGED <<phase, all_green>>)
  <2> USE <1>3
  <2>0. decision \in {"approve", "decline"}
    BY OrchestratorAssumption
  <2>1. human' \in [GateIds -> {"unasked", "approve", "decline"}]
    BY <2>0 DEF Decide, GateInv
  <2>2. CASE decision = "approve" \/ gate = "share_consent"
    BY <2>1, <2>2 DEF Decide, GateInv, Proceeds, After, runVars
  <2>3. CASE ~ (decision = "approve" \/ gate = "share_consent")
    BY <2>1, <2>3 DEF Decide, GateInv, Ends, Declined, runVars
  <2> QED BY <2>2, <2>3
<1>4. ASSUME Inject
      PROVE  GateInv' /\ (Gate!Next \/ UNCHANGED <<phase, all_green>>)
  BY <1>4 DEF Inject, Asks, GateInv, Proceeds
<1>5. ASSUME NEW found \in SUBSET Claims,
             NEW said \in ArxivAnswers \union {"none"}, Generate(found, said)
      PROVE  GateInv' /\ (Gate!Next \/ UNCHANGED <<phase, all_green>>)
  BY <1>5 DEF Generate, Asks, GateInv, Proceeds
<1>6. ASSUME Verify
      PROVE  GateInv' /\ (Gate!Next \/ UNCHANGED <<phase, all_green>>)
  BY <1>6 DEF Verify, Asks, GateInv, Proceeds, AllGreen
<1>7. ASSUME Flywheel
      PROVE  GateInv' /\ (Gate!Next \/ UNCHANGED <<phase, all_green>>)
  BY <1>7 DEF Flywheel, Asks, GateInv, Proceeds
<1>8. ASSUME Check
      PROVE  GateInv' /\ (Gate!Next \/ UNCHANGED <<phase, all_green>>)
  BY <1>8 DEF Check, GateInv, Proceeds, Ends, runVars
<1>9. ASSUME Package
      PROVE  GateInv' /\ (Gate!Next \/ UNCHANGED <<phase, all_green>>)
  BY <1>9 DEF Package, GateInv, Ends, runVars
<1>10. ASSUME CallDead
       PROVE  GateInv' /\ (Gate!Next \/ UNCHANGED <<phase, all_green>>)
  BY <1>10 DEF CallDead, GateInv, Ends, runVars, Callee
<1>11. ASSUME NEW reached \in SUBSET draft, CallFails(reached)
       PROVE  GateInv' /\ (Gate!Next \/ UNCHANGED <<phase, all_green>>)
  BY <1>11 DEF CallFails, GateInv, Ends, runVars, Callee
<1>12. ASSUME NEW s \in Sidecars, Dies(s)
       PROVE  GateInv' /\ (Gate!Next \/ UNCHANGED <<phase, all_green>>)
  BY <1>12, Aside DEF Dies, runVars
<1>13. ASSUME NEW p \in Patterns, RevokeFromPanel(p)
       PROVE  GateInv' /\ (Gate!Next \/ UNCHANGED <<phase, all_green>>)
  BY <1>13, Aside DEF RevokeFromPanel, runVars
<1> QED
  BY <1>1, <1>2, <1>3, <1>4, <1>5, <1>6, <1>7, <1>8, <1>9, <1>10, <1>11,
     <1>12, <1>13
  DEF Next, RunStep

\* Stuttering is covered too.
LEMMA StepGateInv ==
  ASSUME GateInv, [Next]_vars
  PROVE  GateInv' /\ [Gate!Next]_Gate!vars
  <1>1. CASE Next
    BY <1>1, NextGateInv DEF Gate!vars
  <1>2. CASE UNCHANGED vars
    BY <1>2, Aside DEF vars, runVars, Gate!vars
  <1> QED BY <1>1, <1>2

-----------------------------------------------------------------------------
\* Whatever the level of autonomy, the store and the sidecars do, a signed run
\* had a report without an open claim and the approval of a human at
\* pre_signoff (HARD_GATES, state_machine.py:4).
THEOREM HumanSigns == Spec => []HumanSignsGreen
  <1>1. GateInv => HumanSignsGreen
    BY DEF GateInv, HumanSignsGreen
  <1>2. GateInv /\ [Next]_vars => GateInv'
    BY StepGateInv
  <1> QED BY InitGateInv, <1>1, <1>2, PTL DEF Spec

\* The orchestrator implements the pre-signoff gate: no path through run()
\* verifies, confirms or signs out of turn (orchestrator.py:31-69).
THEOREM ImplementsGate == Spec => SignedIsEarned
  <1>1. Init => Gate!Init
    BY DEF Init, Gate!Init, phase
  <1>2. GateInv /\ [Next]_vars => GateInv' /\ [Gate!Next]_Gate!vars
    BY StepGateInv
  <1> QED BY InitGateInv, <1>1, <1>2, PTL DEF Spec, SignedIsEarned, Gate!Spec
-----------------------------------------------------------------------------
(* What the runs leave behind: types, and the lessons of their reports.    *)

\* Every failure of the report that yields a lesson has reached the store.
Remembered ==
    \A c \in DOMAIN report, p \in Patterns :
        p \in Distilled(TypeOf(c), report[c]) => lesson[p].status # "absent"

CitationRejected == \E c \in rejected : TypeOf(c) = "citation"

\* What TypeOK and GateInv need besides for the lessons: a lesson about fabricated
\* citations, like the guard it gives, comes from a citation that was rejected.
MemInv ==
    /\ \A c \in DOMAIN report : report[c] = "reject" => c \in rejected
    /\ stage = "flywheel" => DOMAIN report = draft
    /\ stage = "check" \/ result = "blocked_pre_signoff" => Remembered
    /\ lesson["NONEXISTENT_CITATION"].status # "absent" => CitationRejected
    /\ guard => CitationRejected

StoreInv == TypeOK /\ GateInv /\ MemInv

LEMMA RowFacts ==
  ASSUME NEW row \in Lesson
  PROVE  /\ Shared(row, "global") \in Lesson /\ Shared(row, "global").status = row.status
         /\ Withdrawn(row) \in Lesson /\ Withdrawn(row).status = "retracted"
  BY DEF Lesson, Shared, Withdrawn, Scopes

\* write_from_report creates what its claims yield, removes nothing, and creates
\* a lesson about fabricated citations for a rejected one only.
LEMMA UpsertedFacts ==
  ASSUME StoreInv, NEW cs \in SUBSET draft
  PROVE  /\ Upserted(cs, report) \in [Patterns -> Lesson]
         /\ \A p \in Patterns : Upserted(cs, report)[p].status # "absent" <=>
               lesson[p].status # "absent" \/ Yielding(p, report) \intersect cs # {}
         /\ Yielding("NONEXISTENT_CITATION", report) \intersect cs # {} => CitationRejected
  <1> DEFINE N(p) == Cardinality(Yielding(p, report) \intersect cs)
  <1>1. ASSUME NEW p \in Patterns
        PROVE  N(p) \in Nat /\ (N(p) = 0 <=> Yielding(p, report) \intersect cs = {})
    <2>1. IsFiniteSet(AllClaims)
      BY OrchestratorAssumption, FS_AddElement DEF AllClaims
    <2>2. Yielding(p, report) \intersect cs \subseteq AllClaims
      BY DEF StoreInv, TypeOK
    <2>3. IsFiniteSet(Yielding(p, report) \intersect cs)
      BY <2>1, <2>2, FS_Subset
    <2> QED
      BY <2>3, FS_CardinalityType, FS_EmptySet
  <1>2. ASSUME NEW p \in Patterns, NEW n \in Nat
        PROVE  LET row == [(IF lesson[p].status = "absent" THEN NewLesson ELSE lesson[p])
                              EXCEPT !.repro_count = lesson[p].repro_count + n] IN
               row \in Lesson /\ row.status # "absent"
    <2>1. lesson[p] \in Lesson
      BY DEF StoreInv, TypeOK
    <2>2. NewLesson \in Lesson /\ NewLesson.status = "active"
      BY DEF Lesson, NewLesson, NoLesson, Scopes
    <2>3. lesson[p].repro_count + n \in Nat
      BY <2>1 DEF Lesson
    <2> QED
      BY <2>1, <2>2, <2>3 DEF Lesson
  <1>3. Upserted(cs, report) \in [Patterns -> Lesson]
    BY <1>1, <1>2 DEF Upserted, StoreInv, TypeOK
  <1>4. ASSUME NEW p \in Patterns
        PROVE  Upserted(cs, report)[p].status # "absent" <=>
                  lesson[p].status # "absent" \/ Yielding(p, report) \intersect cs # {}
    BY <1>1, <1>2, <1>4 DEF Upserted
  <1>5. ASSUME NEW c \in Yielding("NONEXISTENT_CITATION", report)
        PROVE  CitationRejected
    <2>1. TypeOf(c) = "citation" /\ report[c] = "reject" /\ c \in DOMAIN report
      BY <1>5 DEF Yielding, Distilled
    <2> QED
      BY <2>1 DEF StoreInv, MemInv, CitationRejected
  <1> QED
    BY <1>3, <1>4, <1>5

LEMMA InitStoreInv == Init => StoreInv
  <1> SUFFICES ASSUME Init PROVE StoreInv
    OBVIOUS
  <1>1. NoReport \in UNION {[cs -> Statuses] : cs \in SUBSET AllClaims} /\ DOMAIN NoReport = {}
    BY DEF NoReport
  <1>2. NoLesson \in Lesson /\ NoLesson.status = "absent"
    BY DEF NoLesson, Lesson, Scopes
  <1>3. TypeOK
    BY <1>1, <1>2 DEF Init, TypeOK, Stages, Results, GateIds, Unasked, Patterns
  <1>4. MemInv
    BY <1>1, <1>2 DEF Init, MemInv, Patterns
  <1> QED
    BY <1>3, <1>4, InitGateInv DEF StoreInv

\* A step of the run that leaves the report, the store and the guard alone.
LEMMA PlainStep ==
  ASSUME StoreInv, GateInv', TypeOK',
         UNCHANGED <<report, draft, guard, lesson, rejected>>,
         stage' # "flywheel",
         stage' = "check" \/ result' = "blocked_pre_signoff" =>
            stage = "check" \/ result = "blocked_pre_signoff"
  PROVE  StoreInv'
  BY DEF StoreInv, MemInv, Remembered, CitationRejected, TypeOf

LEMMA StepStoreInv ==
  ASSUME StoreInv, Next
  PROVE  StoreInv'
<1>g. GateInv'
  BY NextGateInv DEF StoreInv
<1>t. TypeOK /\ GateInv /\ MemInv
  BY DEF StoreInv
<1>1. ASSUME NEW level \in Levels, Start(level)
      PROVE  StoreInv'
  <2>1. NoReport \in UNION {[cs -> Statuses] : cs \in SUBSET AllClaims} /\ DOMAIN NoReport = {}
    BY DEF NoReport
  <2>2. spent' \in [{"runs", "errors", "revokes"} -> Nat]
    BY <1>1, <1>t DEF Start, TypeOK
  <2>4. human' \in [GateIds -> {"unasked", "approve", "decline"}]
    BY <1>1 DEF Start, Unasked
  <2>5. TypeOK'
    BY <1>1, <1>t, <2>1, <2>2, <2>4 DEF Start, TypeOK, Stages, Results, GateIds
  <2>3. MemInv'
    BY <1>1, <1>t, <2>1 DEF Start, MemInv, CitationRejected, TypeOf
  <2> QED
    BY <1>g, <2>5, <2>3 DEF StoreInv
<1>2. ASSUME NEW gate \in GateIds, AutoApprove(gate)
      PROVE  StoreInv'
  <2>1. TypeOK'
    BY <1>2, <1>g, <1>t DEF AutoApprove, Proceeds, TypeOK, GateInv, runVars
  <2>2. stage' \notin {"flywheel", "check"}
    BY <1>2 DEF AutoApprove, Proceeds, After, GateIds
  <2> QED
    BY <1>2, <1>g, <2>1, <2>2, PlainStep DEF AutoApprove, Proceeds, runVars
<1>3. ASSUME NEW gate \in GateIds, NEW decision \in Decisions, Decide(gate, decision)
      PROVE  StoreInv'
  <2>1. /\ lesson' \in [Patterns -> Lesson]
        /\ \A p \in Patterns : lesson'[p].status = lesson[p].status
    BY <1>3, <1>t, RowFacts DEF Decide, TypeOK
  <2>2. /\ stage' \notin {"flywheel", "check"}
        /\ result' = "blocked_pre_signoff" => result = "blocked_pre_signoff"
    BY <1>3 DEF Decide, Proceeds, Ends, After, Declined, GateIds
  <2>3. UNCHANGED <<autonomy, guard, answer, draft, report, written, dead, rejected, spent>>
    BY <1>3 DEF Decide, runVars
  <2>4. TypeOK'
    BY <1>g, <1>t, <2>1, <2>3 DEF TypeOK, GateInv
  <2>5. MemInv'
    BY <1>t, <2>1, <2>2, <2>3 DEF MemInv, Remembered, CitationRejected, TypeOf, Patterns
  <2> QED
    BY <1>g, <2>4, <2>5 DEF StoreInv
<1>4. ASSUME Inject
      PROVE  StoreInv'
  <2>1. TypeOK'
    BY <1>4, <1>g, <1>t DEF Inject, Proceeds, TypeOK, GateInv
  <2>2. MemInv'
    BY <1>4, <1>t DEF Inject, Proceeds, Asks, MemInv, GateInv, Stages, Remembered, CitationRejected, TypeOf
  <2> QED
    BY <1>g, <2>1, <2>2 DEF StoreInv
<1>5. ASSUME NEW found \in SUBSET Claims, NEW said \in ArxivAnswers \union {"none"},
             Generate(found, said)
      PROVE  StoreInv'
  <2>1. draft' \subseteq AllClaims /\ answer' \in {"none", "denied", "unknown"}
    BY <1>5, OrchestratorAssumption DEF Generate, Cites, AllClaims
  <2>2. TypeOK'
    BY <1>5, <1>g, <1>t, <2>1 DEF Generate, Proceeds, TypeOK, GateInv
  <2>3. MemInv'
    BY <1>5, <1>t DEF Generate, Proceeds, MemInv, Remembered, CitationRejected, TypeOf
  <2> QED
    BY <1>g, <2>2, <2>3 DEF StoreInv
<1>6. ASSUME Verify
      PROVE  StoreInv'
  <2>1. report' \in UNION {[cs -> Statuses] : cs \in SUBSET AllClaims} /\ DOMAIN report' = draft
    BY <1>6, <1>t DEF Verify, TypeOK
  <2>2. TypeOK'
    BY <1>6, <1>g, <1>t, <2>1 DEF Verify, Proceeds, TypeOK, GateInv
  <2>3. result' # "blocked_pre_signoff"
    BY <1>6, <1>t DEF Verify, Asks, Proceeds, GateInv
  <2>4. MemInv'
    BY <1>6, <1>t, <2>1, <2>3 DEF Verify, Proceeds, MemInv, CitationRejected, TypeOf
  <2> QED
    BY <1>g, <2>2, <2>4 DEF StoreInv
<1>7. ASSUME Flywheel
      PROVE  StoreInv'
  <2>1. /\ lesson' = Upserted(draft, report) /\ DOMAIN report = draft
        /\ UNCHANGED <<report, draft, guard, rejected>> /\ stage' = "check"
    BY <1>7, <1>t DEF Flywheel, Proceeds, Asks, MemInv
  <2>2. /\ lesson' \in [Patterns -> Lesson]
        /\ \A p \in Patterns : lesson'[p].status # "absent" <=>
              lesson[p].status # "absent" \/ Yielding(p, report) \intersect draft # {}
        /\ Yielding("NONEXISTENT_CITATION", report) \intersect draft # {} => CitationRejected
    BY <2>1, UpsertedFacts
  <2>3. TypeOK'
    BY <1>7, <1>g, <1>t, <2>2 DEF Flywheel, TypeOK, GateInv
  <2>4. Remembered'
    BY <2>1, <2>2 DEF Remembered, Yielding, TypeOf
  <2>5. MemInv'
    BY <1>t, <2>1, <2>2, <2>4 DEF MemInv, CitationRejected, TypeOf, Patterns
  <2> QED
    BY <1>g, <2>3, <2>5 DEF StoreInv
<1>8. ASSUME Check
      PROVE  StoreInv'
  <2>1. TypeOK'
    BY <1>8, <1>g, <1>t DEF Check, TypeOK, GateInv, runVars
  <2> QED
    BY <1>8, <1>g, <2>1, PlainStep DEF Check, Ends, Proceeds, runVars
<1>9. ASSUME Package \/ CallDead
      PROVE  StoreInv'
  <2>1. TypeOK'
    BY <1>9, <1>g, <1>t DEF Package, CallDead, TypeOK, GateInv, runVars
  <2> QED
    BY <1>9, <1>g, <2>1, PlainStep DEF Package, CallDead, Ends, runVars
<1>10. ASSUME NEW reached \in SUBSET draft, CallFails(reached)
       PROVE  StoreInv'
  <2>1. /\ stage' = "idle" /\ result' = "failed" /\ UNCHANGED <<report, draft, guard, rejected>>
        /\ lesson' = lesson \/ lesson' = Upserted(reached, report)
    BY <1>10 DEF CallFails, Ends, runVars
  <2>2. /\ lesson' \in [Patterns -> Lesson]
        /\ lesson'["NONEXISTENT_CITATION"].status # "absent" => CitationRejected
    BY <1>t, <2>1, UpsertedFacts DEF TypeOK, MemInv, Patterns
  <2>3. TypeOK'
    BY <1>10, <1>g, <1>t, <2>2 DEF CallFails, TypeOK, GateInv, runVars
  <2>4. MemInv'
    BY <1>t, <2>1, <2>2 DEF MemInv, CitationRejected, TypeOf
  <2> QED
    BY <1>g, <2>3, <2>4 DEF StoreInv
<1>11. ASSUME NEW s \in Sidecars, Dies(s)
       PROVE  StoreInv'
  <2>1. TypeOK'
    BY <1>11, <1>t DEF Dies, TypeOK, runVars
  <2>2. MemInv'
    BY <1>11, <1>t DEF Dies, MemInv, Remembered, CitationRejected, TypeOf, runVars
  <2> QED
    BY <1>g, <2>1, <2>2 DEF StoreInv
<1>12. ASSUME NEW p \in Patterns, RevokeFromPanel(p)
       PROVE  StoreInv'
  <2>1. /\ lesson' \in [Patterns -> Lesson]
        /\ \A q \in Patterns : lesson'[q].status # "absent" <=> lesson[q].status # "absent"
    BY <1>12, <1>t, RowFacts DEF RevokeFromPanel, TypeOK
  <2>2. UNCHANGED <<stage, result, autonomy, human, runVars, dead, rejected>>
    BY <1>12 DEF RevokeFromPanel
  <2>3. TypeOK'
    BY <1>12, <1>t, <2>1, <2>2 DEF RevokeFromPanel, TypeOK, runVars
  <2>4. MemInv'
    BY <1>t, <2>1, <2>2 DEF MemInv, Remembered, CitationRejected, TypeOf, runVars, Patterns
  <2> QED
    BY <1>g, <2>3, <2>4 DEF StoreInv
<1> QED
  BY <1>1, <1>2, <1>3, <1>4, <1>5, <1>6, <1>7, <1>8, <1>9, <1>10, <1>11, <1>12
  DEF Next, RunStep

LEMMA StoreInvariance == Spec => []StoreInv
  <1>1. StoreInv /\ [Next]_vars => StoreInv'
    <2> SUFFICES ASSUME StoreInv, [Next]_vars PROVE StoreInv'
      OBVIOUS
    <2>1. CASE UNCHANGED vars
      <3>1. GateInv' /\ TypeOK'
        BY <2>1, Aside DEF StoreInv, TypeOK, vars, runVars
      <3>2. MemInv'
        BY <2>1 DEF StoreInv, MemInv, Remembered, CitationRejected, TypeOf, vars, runVars
      <3> QED
        BY <3>1, <3>2 DEF StoreInv
    <2> QED
      BY <2>1, StepStoreInv
  <1> QED
    BY InitStoreInv, <1>1, PTL DEF Spec

\* Whatever happens to the sidecars and the store, the orchestrator keeps its
\* types: no run ends in a status the code does not have (orchestrator.py:27-69).
THEOREM OrchestratorTypeCorrect == Spec => []TypeOK
  <1>1. StoreInv => TypeOK
    BY DEF StoreInv
  <1> QED
    BY StoreInvariance, <1>1, PTL

\* No run is blocked whose failures have not reached the store, and no panel
\* makes the store forget them (orchestrator.py:51-58).
THEOREM BlocksAreRemembered == Spec => []BlockedIsRemembered
  <1>1. StoreInv => BlockedIsRemembered
    BY DEF StoreInv, MemInv, Remembered, BlockedIsRemembered
  <1> QED
    BY StoreInvariance, <1>1, PTL

\* The guard of the generator goes back to a citation some report rejected,
\* never to one nobody could see (rule R2, store.py:45, :96).
THEOREM GuardNeedsRejection == Spec => []GuardedByRejection
  <1>1. StoreInv => GuardedByRejection
    BY DEF StoreInv, MemInv, CitationRejected, GuardedByRejection
  <1> QED
    BY StoreInvariance, <1>1, PTL

-----------------------------------------------------------------------------
(* The flywheel.  The lesson about the made-up citation and the citation   *)
(* itself exclude each other: a guard set at inject is still right when    *)
(* the draft is generated, and a draft that holds the citation was         *)
(* generated before there was a lesson.                                    *)

Made == lesson["NONEXISTENT_CITATION"]

\* The hypothesis of NeverDraftedAgain, in one state.
Calm ==
    /\ ArxivInReach
    /\ \A c \in rejected : c = Fabricated \/ TypeOf(c) # "citation"
    /\ spent.revokes = 0

CaughtInv ==
    /\ Made.status \in {"absent", "active"}
    /\ stage = "generate" => (guard <=> Made.status = "active")
    /\ stage \in {"experiment_design", "verify", "flywheel"} /\ Made.status # "absent" =>
          Fabricated \notin draft

\* write_from_report never withdraws a lesson.
LEMMA UpsertedActive ==
  ASSUME TypeOK, CaughtInv, NEW cs
  PROVE  Upserted(cs, report)["NONEXISTENT_CITATION"].status \in {"absent", "active"}
  <1>1. "NONEXISTENT_CITATION" \in Patterns /\ Made \in Lesson
    BY DEF Patterns, TypeOK, Made
  <1>2. NewLesson.status = "active" /\ NewLesson \in Lesson
    BY DEF NewLesson, NoLesson, Lesson, Scopes
  <1>3. \A row \in Lesson : \A n : [row EXCEPT !.repro_count = n].status = row.status
    BY DEF Lesson
  <1> QED
    BY <1>1, <1>2, <1>3 DEF Upserted, CaughtInv, Made

\* A step that leaves the lesson's status alone, and leads neither to
\* a new draft nor to a new guard.
LEMMA CaughtAside ==
  ASSUME CaughtInv, UNCHANGED <<guard, draft>>,
         Made'.status = Made.status,
         stage' = "generate" => stage = "generate",
         stage' \in {"experiment_design", "verify", "flywheel"} =>
            stage \in {"experiment_design", "verify", "flywheel"}
  PROVE  CaughtInv'
  BY DEF CaughtInv

LEMMA CaughtStep ==
  ASSUME StoreInv, CaughtInv, Calm, Calm', Next
  PROVE  CaughtInv'
<1>t. TypeOK
  BY DEF StoreInv
<1>1. ASSUME NEW level \in Levels, Start(level) PROVE CaughtInv'
  BY <1>1 DEF Start, CaughtInv, Made
<1>2. ASSUME NEW gate \in GateIds, AutoApprove(gate) PROVE CaughtInv'
  <2>1. UNCHANGED <<guard, draft, lesson>>
    BY <1>2 DEF AutoApprove, runVars
  <2>2. /\ stage' # "generate"
        /\ stage' \in {"experiment_design", "verify", "flywheel"} => stage = "experiment_design"
    BY <1>2 DEF AutoApprove, Proceeds, After, GateIds
  <2> QED BY <2>1, <2>2, CaughtAside DEF Made
<1>3. ASSUME NEW gate \in GateIds, NEW decision \in Decisions, Decide(gate, decision)
      PROVE  CaughtInv'
  <2>1. UNCHANGED <<guard, draft>>
    BY <1>3 DEF Decide, runVars
  <2>2. /\ stage' # "generate"
        /\ stage' \in {"experiment_design", "verify", "flywheel"} => stage = "experiment_design"
    BY <1>3 DEF Decide, Proceeds, Ends, After, GateIds
  <2>3. \A row \in Lesson : Shared(row, "global").status = row.status
    BY DEF Lesson, Shared
  <2>4. Made'.status = Made.status
    BY <1>3, <1>t, <2>3 DEF Decide, Made, TypeOK, Patterns
  <2> QED BY <2>1, <2>2, <2>4, CaughtAside
<1>4. CASE Inject
  BY <1>4 DEF Inject, Asks, Proceeds, CaughtInv, Made
<1>5. ASSUME NEW found \in SUBSET Claims, NEW said \in ArxivAnswers \union {"none"},
             Generate(found, said)
      PROVE  CaughtInv'
  <2>1. stage = "generate" /\ stage' = "experiment_design" /\ UNCHANGED lesson
    BY <1>5 DEF Generate, Asks, Proceeds
  <2>2. ASSUME Made.status # "absent" PROVE Fabricated \notin draft'
    <3>1. guard
      BY <2>1, <2>2 DEF CaughtInv
    <3>2. said \in ArxivAnswers /\ said # "unknown"
      BY <1>5, <3>1 DEF Generate, Calm, ArxivInReach
    <3>3. Cites(said) = {}
      BY <3>2, OrchestratorAssumption DEF Cites
    <3> QED BY <1>5, <3>3, OrchestratorAssumption DEF Generate
  <2> QED BY <2>1, <2>2 DEF CaughtInv, Made
<1>6. CASE Verify
  BY <1>6, CaughtAside DEF Verify, Asks, Proceeds, Made
<1>7. CASE Flywheel
  <2>1. stage = "flywheel" /\ stage' = "check" /\ lesson' = Upserted(draft, report)
    BY <1>7 DEF Flywheel, Asks, Proceeds
  <2> QED BY <2>1, <1>t, UpsertedActive DEF CaughtInv, Made
<1>8. CASE Check \/ Package \/ CallDead
  BY <1>8, CaughtAside DEF Check, Package, CallDead, Ends, Proceeds, runVars, Made
<1>9. ASSUME NEW reached \in SUBSET draft, CallFails(reached) PROVE CaughtInv'
  <2>1. stage' = "idle" /\ UNCHANGED <<guard, draft>>
    BY <1>9 DEF CallFails, Ends, runVars
  <2>2. CASE stage = "flywheel"
    BY <1>9, <2>1, <2>2, <1>t, UpsertedActive DEF CallFails, CaughtInv, Made
  <2>3. CASE stage # "flywheel"
    BY <1>9, <2>1, <2>3, CaughtAside DEF CallFails, Made
  <2> QED BY <2>2, <2>3
<1>10. ASSUME NEW s \in Sidecars, Dies(s) PROVE CaughtInv'
  BY <1>10, CaughtAside DEF Dies, runVars, Made
<1>11. ASSUME NEW p \in Patterns, RevokeFromPanel(p) PROVE CaughtInv'
  <2>1. spent'.revokes = spent.revokes + 1 /\ spent.revokes \in Nat
    BY <1>11, <1>t DEF RevokeFromPanel, TypeOK
  <2> QED BY <2>1 DEF Calm
<1> QED
  BY <1>1, <1>2, <1>3, <1>4, <1>5, <1>6, <1>7, <1>8, <1>9, <1>10, <1>11 DEF Next, RunStep

\* The flywheel works at the first turn: in calm, once the lesson of the made-up
\* citation is in the store no run drafts it again, whatever dies, fails or is
\* declined (store.py:38-57, pipeline.py:116).
THEOREM LessonKeepsItOut == Spec => NeverDraftedAgain
  <1>1. Init => CaughtInv
    BY DEF Init, CaughtInv, Made, NoLesson, Patterns
  <1>2. StoreInv /\ CaughtInv /\ Calm /\ Calm' /\ [Next]_vars => CaughtInv'
    <2> SUFFICES ASSUME StoreInv, CaughtInv, Calm, Calm', [Next]_vars PROVE CaughtInv'
      OBVIOUS
    <2>1. CASE UNCHANGED vars
      BY <2>1, CaughtAside DEF vars, runVars, Made
    <2> QED BY <2>1, CaughtStep
  <1>3. CaughtInv => (/\ stage \in {"experiment_design", "verify", "flywheel"}
                      /\ Made.status # "absent"
                      => Fabricated \notin draft)
    BY DEF CaughtInv
  <1> QED
    BY <1>1, <1>2, <1>3, StoreInvariance, PTL DEF Spec, NeverDraftedAgain, Calm, Made
=============================================================================
