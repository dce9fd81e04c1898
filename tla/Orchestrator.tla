---------------------------- MODULE Orchestrator ----------------------------
(***************************************************************************)
(* orchestrator/orchestrator.py: one Orchestrator object, its three        *)
(* sidecar processes (pipe, coe and mem) and the runs it executes one      *)
(* after the other, with the gates of state_machine.py, the generator of   *)
(* pipeline/pipeline.py as far as it answers to the injected lessons, the  *)
(* verdicts of coe_kernel and the lessons mem keeps between the runs.      *)
(*                                                                         *)
(* run() is a straight line, and stage is where it stands: either about to *)
(* ask at a gate or about to call a sidecar.  The panel of the user may    *)
(* revoke a lesson between any two steps; a sidecar may answer with an     *)
(* error, and may die.  Nothing starts a sidecar again.                    *)
(*                                                                         *)
(* A draft is a set of claims.  Fabricated is the citation hypothesize()   *)
(* makes up; the other claims are real and their verdicts are free, within *)
(* what coe_kernel can answer for their type.                              *)
(***************************************************************************)
EXTENDS LessonRow, FiniteSets

CONSTANTS
    Levels,        \* the autonomy levels runs are started with
    Claims,        \* the claims of a draft besides the made-up citation
    Fabricated,    \* the made-up citation
    Type,          \* Type[c], the type of a claim of Claims
    ArxivAnswers,  \* what arXiv says of the made-up citation
    Verdicts,      \* what coe may say of a real claim
    Decisions,     \* what the human may answer at a gate
    MinRepro,      \* min_repro of promote, 2 in the code
    MaxRuns,       \* bound on the number of runs
    MaxDeaths,     \* bound on the number of sidecars that die
    MaxErrors,     \* bound on the number of calls answered with an error
    MaxRevokes     \* bound on the number of revocations from the panel

AllClaims == Claims \union {Fabricated}
Statuses == {"pass", "reject", "unresolved", "manual"}

ASSUME OrchestratorAssumption ==
    /\ Fabricated \notin Claims /\ IsFiniteSet(Claims)
    /\ Type \in [Claims -> {"citation", "number", "mechanism"}]
    /\ ArxivAnswers \subseteq {"denied", "unknown"}
    /\ Verdicts \subseteq Statuses
    /\ Decisions \subseteq {"approve", "decline"}
    /\ Levels \subseteq 0 .. 6
    /\ {MinRepro, MaxRuns, MaxDeaths, MaxErrors, MaxRevokes} \subseteq Nat

\* The patterns distill() abstracts a failed claim to, each its own lesson.
Patterns == {"NONEXISTENT_CITATION", "UNINDEXED_CITATION",
             "UNSOURCED_RESULT_NUMBER", "UNVERIFIABLE_DERIVED_NUMBER"}
FabricationPatterns == {"NONEXISTENT_CITATION", "UNSOURCED_RESULT_NUMBER"}

Sidecars == {"pipe", "coe", "mem"}
GateIds == {"topic_confirm", "experiment_design", "share_consent", "pre_signoff"}
HardGates == {"pre_signoff"}
Results == {"none", "signed", "aborted_at_topic", "aborted_at_design",
            "blocked_pre_signoff", "aborted_at_signoff", "failed"}
Stages == GateIds \union {"idle", "inject", "generate", "verify", "flywheel",
                          "check", "package"}

VARIABLES
    stage,     \* where run() stands; idle when no run is executing
    result,    \* the status the last run ended with
    autonomy,  \* the level of the current run
    human,     \* what the human answered at each gate of the current run
    guard,     \* a fake_cite lesson was injected into the current run
    answer,    \* what arXiv said when the guard asked, if it did
    draft,     \* the claims generated for the current run
    report,    \* the verdict of every claim, once verified
    all_green, \* the field of the report
    written,   \* the lessons mem.write_from_report answered
    lesson,    \* verify_lesson, by pattern
    dead,      \* the sidecars that died
    rejected,  \* the claims a report ever rejected, for the properties
    spent      \* how much of the bounds is used up

runVars == <<guard, answer, draft, report, all_green, written>>
vars == <<stage, result, autonomy, human, runVars, lesson, dead, rejected, spent>>

TypeOK ==
    /\ stage \in Stages
    /\ result \in Results
    /\ autonomy \in Levels \union {0}
    /\ human \in [GateIds -> {"unasked", "approve", "decline"}]
    /\ guard \in BOOLEAN
    /\ answer \in {"none", "denied", "unknown"}
    /\ draft \subseteq AllClaims
    /\ report \in UNION {[cs -> Statuses] : cs \in SUBSET AllClaims}
    /\ all_green \in BOOLEAN
    /\ written \subseteq Patterns
    /\ lesson \in [Patterns -> Lesson]
    /\ dead \subseteq Sidecars
    /\ rejected \subseteq AllClaims
    /\ spent \in [{"runs", "errors", "revokes"} -> Nat]

NoReport == [c \in {} |-> "pass"]

Unasked == [g \in GateIds |-> "unasked"]

Init ==
    /\ stage = "idle" /\ result = "none" /\ autonomy = 0 /\ human = Unasked
    /\ guard = FALSE /\ answer = "none" /\ draft = {} /\ report = NoReport
    /\ all_green = FALSE /\ written = {}
    /\ lesson = [p \in Patterns |-> NoLesson]
    /\ dead = {} /\ rejected = {}
    /\ spent = [b \in {"runs", "errors", "revokes"} |-> 0]

-----------------------------------------------------------------------------
TypeOf(c) == IF c = Fabricated THEN "citation" ELSE Type[c]

\* What coe_kernel can answer for each claim.  The made-up citation is denied
\* by arXiv, or, when arXiv is out of reach, left open: its title matches
\* nothing in OpenAlex.  Only a citation can be left to a manual check.
PossibleVerdicts(c) ==
    IF c = Fabricated
    THEN (IF "denied" \in ArxivAnswers THEN {"reject"} ELSE {})
         \union (IF "unknown" \in ArxivAnswers THEN {"unresolved", "manual"} ELSE {})
    ELSE Verdicts \ (IF Type[c] = "citation" THEN {} ELSE {"manual"})

\* Mutant of Distilled: every citation that does not pass is a fabrication.
DistilledHarshly(t, verdict) ==
    IF t = "citation" /\ verdict # "pass" THEN {"NONEXISTENT_CITATION"} ELSE {}

\* distill, for a verdict of a claim of type t: the lessons it yields.
Distilled(t, verdict) ==
    CASE t = "citation" /\ verdict = "reject"     -> {"NONEXISTENT_CITATION"}
      [] t = "citation" /\ verdict = "unresolved" -> {"UNINDEXED_CITATION"}
      [] t = "number" /\ verdict = "reject"       -> {"UNSOURCED_RESULT_NUMBER"}
      [] t = "number" /\ verdict = "unresolved"   -> {"UNVERIFIABLE_DERIVED_NUMBER"}
      [] OTHER                                    -> {}

\* The claims of a report that yield lesson p.
Yielding(p, rep) == {c \in DOMAIN rep : p \in Distilled(TypeOf(c), rep[c])}

\* run_verify: no claim may be left open, whatever the kind of doubt.
AllGreen(rep) == \A c \in DOMAIN rep : rep[c] = "pass"

\* write_from_report, when it gets as far as the claims cs of the report: one
\* _upsert per claim.
Upserted(cs, rep) ==
    [p \in Patterns |->
        LET n == Cardinality(Yielding(p, rep) \intersect cs) IN
        IF n = 0 THEN lesson[p]
        ELSE [(IF lesson[p].status = "absent" THEN NewLesson ELSE lesson[p])
                 EXCEPT !.repro_count = lesson[p].repro_count + n]]

\* Mutant of GateShouldPause: HARD_GATES is forgotten.
PauseBelowSix(gate) == autonomy < 6

GateShouldPause(gate) == gate \in HardGates \/ autonomy < 6

\* Where an approval leads, and how the run ends otherwise.  A declined
\* share_consent only skips the promotion.
After == [topic_confirm |-> "inject", experiment_design |-> "verify",
          share_consent |-> "pre_signoff", pre_signoff |-> "package"]
Declined == [topic_confirm |-> "aborted_at_topic",
             experiment_design |-> "aborted_at_design",
             pre_signoff |-> "aborted_at_signoff"]

\* The sidecar run() calls at a stage.
Callee == [inject |-> "mem", generate |-> "pipe", verify |-> "coe",
           flywheel |-> "mem"]

Asks(s) == stage = s /\ Callee[s] \notin dead

Ends(how) == stage' = "idle" /\ result' = how
Proceeds(to) == stage' = to /\ UNCHANGED result

-----------------------------------------------------------------------------
Start(level) ==
    /\ stage = "idle"
    /\ spent.runs < MaxRuns
    /\ stage' = "topic_confirm" /\ result' = "none"
    /\ autonomy' = level /\ human' = Unasked
    /\ guard' = FALSE /\ answer' = "none" /\ draft' = {} /\ report' = NoReport
    /\ all_green' = FALSE /\ written' = {}
    /\ spent' = [spent EXCEPT !.runs = @ + 1]
    /\ UNCHANGED <<lesson, dead, rejected>>

\* _gate at a level that passes ordinary gates by itself.
AutoApprove(gate) ==
    /\ stage = gate
    /\ gate # "share_consent" /\ ~ GateShouldPause(gate)
    /\ Proceeds(After[gate])
    /\ UNCHANGED <<autonomy, human, runVars, lesson, dead, rejected, spent>>

\* ask: the human decides.  Consent to share promotes the lessons written that
\* are above the quality gate of promote.
Decide(gate, decision) ==
    /\ stage = gate
    /\ gate = "share_consent" \/ GateShouldPause(gate)
    /\ human' = [human EXCEPT ![gate] = decision]
    /\ IF decision = "approve" \/ gate = "share_consent"
       THEN Proceeds(After[gate]) ELSE Ends(Declined[gate])
    /\ lesson' = [p \in Patterns |->
          IF /\ gate = "share_consent" /\ decision = "approve"
             /\ p \in written /\ lesson[p].repro_count >= MinRepro
          THEN Shared(lesson[p], "global") ELSE lesson[p]]
    /\ UNCHANGED <<autonomy, runVars, dead, rejected, spent>>

\* Mutant of Inject: only lessons above the quality gate are served.
InjectAboveGate ==
    /\ Asks("inject")
    /\ guard' = /\ lesson["NONEXISTENT_CITATION"].status = "active"
                /\ lesson["NONEXISTENT_CITATION"].repro_count >= MinRepro
    /\ Proceeds("generate")
    /\ UNCHANGED <<autonomy, human, answer, draft, report, all_green, written,
                   lesson, dead, rejected, spent>>

\* mem.query for fake_cite and unsourced_num, as far as the generator looks at
\* the answer: inject serves active lessons of class fabrication.
Inject ==
    /\ Asks("inject")
    /\ guard' = (lesson["NONEXISTENT_CITATION"].status = "active")
    /\ Proceeds("generate")
    /\ UNCHANGED <<autonomy, human, answer, draft, report, all_green, written,
                   lesson, dead, rejected, spent>>

\* hypothesize: what is left of the made-up citation.  The guard drops it only
\* when arXiv denies it.
Cites(said) == IF said = "denied" THEN {} ELSE {Fabricated}

\* Mutant of Generate: the guard's answer is not used.
GenerateUnguarded(found, said) ==
    /\ Asks("generate")
    /\ {c \in Claims : Type[c] = "mechanism"} \subseteq found
    /\ said \in IF guard THEN ArxivAnswers ELSE {"none"}
    /\ answer' = said
    /\ draft' = found \union {Fabricated}
    /\ Proceeds("experiment_design")
    /\ UNCHANGED <<autonomy, human, guard, report, all_green, written, lesson,
                   dead, rejected, spent>>

\* pipeline.generate: whatever literature() found and the experiment printed,
\* the mechanisms, and the made-up citation, about which a guard asks first.
Generate(found, said) ==
    /\ Asks("generate")
    /\ {c \in Claims : Type[c] = "mechanism"} \subseteq found
    /\ said \in IF guard THEN ArxivAnswers ELSE {"none"}
    /\ answer' = said
    /\ draft' = found \union Cites(said)
    /\ Proceeds("experiment_design")
    /\ UNCHANGED <<autonomy, human, guard, report, all_green, written, lesson,
                   dead, rejected, spent>>

\* Mutant of Verify: the flywheel runs after the block, not before it.
VerifyThenBlock ==
    /\ Asks("verify")
    /\ report' \in [draft -> Statuses]
    /\ \A c \in draft : report'[c] \in PossibleVerdicts(c)
    /\ all_green' = AllGreen(report')
    /\ rejected' = rejected \union {c \in draft : report'[c] = "reject"}
    /\ Proceeds(IF all_green' THEN "flywheel" ELSE "check")
    /\ UNCHANGED <<autonomy, human, guard, answer, draft, written, lesson, dead, spent>>

\* coe.verify.
Verify ==
    /\ Asks("verify")
    /\ report' \in [draft -> Statuses]
    /\ \A c \in draft : report'[c] \in PossibleVerdicts(c)
    /\ all_green' = AllGreen(report')
    /\ rejected' = rejected \union {c \in draft : report'[c] = "reject"}
    /\ Proceeds("flywheel")
    /\ UNCHANGED <<autonomy, human, guard, answer, draft, written, lesson, dead, spent>>

\* mem.write_from_report.
Flywheel ==
    /\ Asks("flywheel")
    /\ lesson' = Upserted(draft, report)
    /\ written' = {p \in Patterns : Yielding(p, report) # {}}
    /\ Proceeds("check")
    /\ UNCHANGED <<autonomy, human, guard, answer, draft, report, all_green, dead,
                   rejected, spent>>

\* Mutant of Check: only the failures that are lessons block the run.
CheckLessons ==
    /\ stage = "check"
    /\ IF ~ all_green /\ written # {} THEN Ends("blocked_pre_signoff")
       ELSE Proceeds(IF written # {} THEN "share_consent" ELSE "pre_signoff")
    /\ UNCHANGED <<autonomy, human, runVars, lesson, dead, rejected, spent>>

\* The hard block, before anybody is asked anything.
Check ==
    /\ stage = "check"
    /\ IF ~ all_green THEN Ends("blocked_pre_signoff")
       ELSE Proceeds(IF written # {} THEN "share_consent" ELSE "pre_signoff")
    /\ UNCHANGED <<autonomy, human, runVars, lesson, dead, rejected, spent>>

\* build_package, which nothing asks again whether the report is green.
Package ==
    /\ stage = "package"
    /\ Ends("signed")
    /\ UNCHANGED <<autonomy, human, runVars, lesson, dead, rejected, spent>>

\* Mutant of CallDead: the call waits for an answer that never comes.
CallHangs ==
    /\ stage \in DOMAIN Callee
    /\ Callee[stage] \in dead
    /\ UNCHANGED vars

\* RpcClient.call finds the pipe of a dead sidecar closed: run() raises.
CallDead ==
    /\ stage \in DOMAIN Callee
    /\ Callee[stage] \in dead
    /\ Ends("failed")
    /\ UNCHANGED <<autonomy, human, runVars, lesson, dead, rejected, spent>>

\* A sidecar answers with an error, or writing the package fails: run()
\* raises.  mem has committed the upserts of the claims it had got to.
CallFails(reached) ==
    /\ spent.errors < MaxErrors
    /\ stage = "package" \/ (stage \in DOMAIN Callee /\ Callee[stage] \notin dead)
    /\ lesson' = IF stage = "flywheel" THEN Upserted(reached, report) ELSE lesson
    /\ Ends("failed")
    /\ spent' = [spent EXCEPT !.errors = @ + 1]
    /\ UNCHANGED <<autonomy, human, runVars, dead, rejected>>

\* A sidecar process dies, during a run or between two.
Dies(s) ==
    /\ s \notin dead
    /\ Cardinality(dead) < MaxDeaths
    /\ dead' = dead \union {s}
    /\ UNCHANGED <<stage, result, autonomy, human, runVars, lesson, rejected, spent>>

\* mem.revoke from the panel, through a mem sidecar of its own.
RevokeFromPanel(p) ==
    /\ spent.revokes < MaxRevokes
    /\ lesson[p].status # "absent"
    /\ lesson' = [lesson EXCEPT ![p] = Withdrawn(@)]
    /\ spent' = [spent EXCEPT !.revokes = @ + 1]
    /\ UNCHANGED <<stage, result, autonomy, human, runVars, dead, rejected>>

\* The steps of run() itself.
RunStep ==
    \/ \E gate \in GateIds : AutoApprove(gate)
    \/ \E gate \in GateIds, decision \in Decisions : Decide(gate, decision)
    \/ Inject \/ Verify \/ Flywheel \/ Check \/ Package \/ CallDead
    \/ \E found \in SUBSET Claims, said \in ArxivAnswers \union {"none"} :
          Generate(found, said)

Next ==
    \/ RunStep
    \/ \E level \in Levels : Start(level)
    \/ \E reached \in SUBSET draft : CallFails(reached)
    \/ \E s \in Sidecars : Dies(s)
    \/ \E p \in Patterns : RevokeFromPanel(p)

Spec == Init /\ [][Next]_vars

\* The human answers every gate and the sidecars answer every call, sooner or
\* later; the command line starts run after run (run_cli.py:20-22).
FairSpec ==
    /\ Spec
    /\ WF_vars(RunStep)
    /\ WF_vars(\E level \in Levels : Start(level))

-----------------------------------------------------------------------------
(* Properties *)

\* Signing, as the pre-signoff gate promises it, of whatever the store, the
\* sidecars and the level of autonomy do (orchestrator.py:57-65).
phase ==
    IF stage # "idle"
    THEN IF stage \in {"flywheel", "check", "share_consent", "pre_signoff"}
         THEN "verified" ELSE IF stage = "package" THEN "confirmed" ELSE "working"
    ELSE IF result \in {"none", "signed"}
         THEN (IF result = "none" THEN "idle" ELSE "signed") ELSE "stopped"
Gate == INSTANCE SignoffGate WITH green <- all_green
SignedIsEarned == Gate!Spec

\* No autonomy level signs by itself: the human was asked at pre_signoff in
\* this very run, after a report without an open claim, and approved
\* (HARD_GATES, state_machine.py:4).
HumanSignsGreen ==
    result = "signed" =>
        /\ human["pre_signoff"] = "approve"
        /\ DOMAIN report = draft /\ \A c \in draft : report[c] = "pass"

\* A run is never blocked without its failures having reached the store: what
\* stops this run can teach the next (the flywheel runs before the block).
BlockedIsRemembered ==
    result = "blocked_pre_signoff" =>
        \A c \in DOMAIN report, p \in Patterns :
            p \in Distilled(TypeOf(c), report[c]) => lesson[p].status # "absent"

\* The generator is only guarded because some citation was rejected, never
\* because of one the verifier could not see (rule R2, store.py:96-98).
GuardedByRejection ==
    guard => \E c \in rejected : TypeOf(c) = "citation"

\* Nothing has kept arXiv from answering, to the guard or to the verifier.
ArxivInReach ==
    /\ answer # "unknown"
    /\ Fabricated \in DOMAIN report => report[Fabricated] = "reject"

\* The flywheel works at the first turn: once the lesson of the made-up citation
\* is in the store, no run drafts it again, whatever the levels, the deaths, the
\* errors and the decisions, also when the call that wrote the lesson failed
\* later on (write_from_report, inject, then the guard of hypothesize,
\* pipeline.py:116).  It is a promise about the lesson, not about the rejection:
\* a write that fails before the citation leaves no lesson, and the next run
\* drafts it and is rejected again.  It holds while arXiv can be reached, no
\* other citation is rejected and no lesson is withdrawn.
NeverDraftedAgain ==
    [](/\ ArxivInReach
       /\ \A c \in rejected : c = Fabricated \/ TypeOf(c) # "citation"
       /\ spent.revokes = 0)
    => [](/\ stage \in {"experiment_design", "verify", "flywheel"}
          /\ lesson["NONEXISTENT_CITATION"].status # "absent"
          => Fabricated \notin draft)

\* Every run comes to an end, whatever dies.
EveryRunEnds == stage # "idle" ~> stage = "idle"

\* Nothing fails, the human approves, the claims besides the made-up citation
\* are sound and no lesson is withdrawn.
Undisturbed ==
    /\ ArxivInReach
    /\ dead = {} /\ spent.errors = 0 /\ spent.revokes = 0
    /\ \A g \in GateIds : human[g] # "decline"
    /\ \A c \in DOMAIN report \ {Fabricated} : report[c] = "pass"

\* tests/test_integration.py:2, "RUN1 blocked -> RUN2 signed": as long as
\* nothing disturbs them, a run that was blocked is followed by a signed one.
BlockedThenSigned ==
    []Undisturbed => (result = "blocked_pre_signoff" ~> result = "signed")

-----------------------------------------------------------------------------
(* What the documents say and the code does not do: TLC violates each of   *)
(* the following, as the README tells.                                     *)

\* docs/ARCHITECTURE.md:160 says the user is asked whether to contribute the
\* lessons of this run that reach the threshold.
PromptedAtThreshold ==
    result \in {"blocked_pre_signoff", "signed"} =>
        \A p \in written : lesson[p].repro_count >= MinRepro
                            => human["share_consent"] # "unasked"

\* pipeline.py:126 says the guard keeps a citation only if it is confirmed to
\* exist: one it drafted was not left unknown.
GuardKeepsConfirmedOnly == guard /\ Fabricated \in draft => answer # "unknown"

\* docs/ARCHITECTURE.md section 9 calls repro_count the number of independent
\* reproductions: one run is one of them.
ReproducedIndependently ==
    \A p \in Patterns : lesson[p].repro_count <= spent.runs
=============================================================================
