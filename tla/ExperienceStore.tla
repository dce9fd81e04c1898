--------------------------- MODULE ExperienceStore ---------------------------
(***************************************************************************)
(* The local experience store of memory/store.py: one SQLite table         *)
(* verify_lesson, used by several sidecar processes at once (the mem       *)
(* sidecar of a running Orchestrator, and the short-lived one the gateway  *)
(* starts for every call of the sovereignty panel).                        *)
(*                                                                         *)
(* Each SQL statement is atomic and each method commits at its end, but    *)
(* _upsert, promote and promote_to_global first SELECT and write later, in *)
(* another statement; a sidecar may be terminated in between.              *)
(*                                                                         *)
(* A lesson stands for a signature sha256(kind|pattern).  distill() gives  *)
(* every signature one class, because the pattern it chooses depends on    *)
(* the class: the constant Fabrications is the set of lessons of class     *)
(* fabrication, the others are verification gaps.  The time decay orders   *)
(* the result of inject and never filters it, so it is left out, and so    *)
(* are the display counters hit_count and reuse_count.                     *)
(***************************************************************************)
EXTENDS LessonRow, FiniteSets

CONSTANTS
    Lessons,       \* signatures
    Fabrications,  \* those of class fabrication
    Procs,         \* sidecar processes on the database
    MinRepro,      \* min_repro of promote, 2 in the code
    MaxRepro       \* bound on repro_count, for TLC

ASSUME StoreAssumption ==
    /\ Fabrications \subseteq Lessons /\ MinRepro \in Nat /\ MaxRepro \in Nat
    /\ IsFiniteSet(Procs) /\ Procs # {}

VARIABLES
    lesson,       \* lesson[l] is the row of verify_lesson, if any
    proc,         \* proc[p] is what sidecar p is doing
    log,          \* global_promotion_log: the <<lesson, to_scope>> it holds
    constraints,  \* constraints[p] is what the last mem.query of p returned
    upserts,      \* history: upserts[l] counts the upserts of l that committed,
    raised        \* and raised[l] those whose INSERT raised

vars == <<lesson, proc, log, constraints, upserts, raised>>

\* A sidecar is idle, writing a report (todo, the lessons still to upsert; l,
\* the one whose SELECT found a row or not), promoting l to scope target, or
\* waiting for the answer of the global memory about l.
Idle == [pc |-> "idle"]
Proc == {Idle}
        \union [pc : {"report"}, todo : SUBSET Lessons]
        \union [pc : {"upsert"}, todo : SUBSET Lessons, l : Lessons, found : BOOLEAN]
        \union [pc : {"promote"}, l : Lessons, target : {"team", "global"}]
        \union [pc : {"uplink"}, l : Lessons]

TypeOK ==
    /\ lesson \in [Lessons -> Lesson]
    /\ proc \in [Procs -> Proc]
    /\ log \subseteq Lessons \X Scopes
    /\ constraints \in [Procs -> SUBSET Lessons]
    /\ upserts \in [Lessons -> Nat]
    /\ raised \in [Lessons -> Nat]

Init ==
    /\ lesson = [l \in Lessons |-> NoLesson]
    /\ proc = [p \in Procs |-> Idle]
    /\ log = {}
    /\ constraints = [p \in Procs |-> {}]
    /\ upserts = [l \in Lessons |-> 0]
    /\ raised = [l \in Lessons |-> 0]

-----------------------------------------------------------------------------
(* mem.write_from_report *)

\* The report has failing claims that distill() turns into the lessons ls.
WriteFromReport(p, ls) ==
    /\ proc[p] = Idle
    /\ proc' = [proc EXCEPT ![p] = [pc |-> "report", todo |-> ls]]
    /\ UNCHANGED <<lesson, log, constraints, upserts, raised>>

\* Mutant of UpsertSelect: the row is looked up by something that never matches.
UpsertSelectBlind(p, l, again) ==
    /\ proc[p].pc = "report"
    /\ l \in proc[p].todo
    /\ proc' = [proc EXCEPT ![p] =
                  [pc |-> "upsert", l |-> l,
                   todo |-> IF again THEN proc[p].todo ELSE proc[p].todo \ {l},
                   found |-> FALSE]]
    /\ UNCHANGED <<lesson, log, constraints, upserts, raised>>

\* _upsert, its SELECT: the claims are taken one after the other, and several
\* of them may yield the same lesson (again).
UpsertSelect(p, l, again) ==
    /\ proc[p].pc = "report"
    /\ l \in proc[p].todo
    /\ proc' = [proc EXCEPT ![p] =
                  [pc |-> "upsert", l |-> l,
                   todo |-> IF again THEN proc[p].todo ELSE proc[p].todo \ {l},
                   found |-> lesson[l].status # "absent"]]
    /\ UNCHANGED <<lesson, log, constraints, upserts, raised>>

\* Mutant of UpsertWrite: INSERT OR REPLACE.
UpsertReplace(p) ==
    LET me == proc[p]  l == me.l IN
    /\ me.pc = "upsert"
    /\ upserts[l] < MaxRepro
    /\ lesson' = [lesson EXCEPT ![l] =
                    IF me.found THEN Repeated(lesson[l]) ELSE NewLesson]
    /\ upserts' = [upserts EXCEPT ![l] = @ + 1]
    /\ proc' = [proc EXCEPT ![p] = [pc |-> "report", todo |-> me.todo]]
    /\ UNCHANGED <<log, constraints, raised>>

\* _upsert, its UPDATE or INSERT, and the commit.  The INSERT fails on the
\* UNIQUE signature when another sidecar was faster: the error ends the call
\* and the rest of the report is not written.
UpsertWrite(p) ==
    LET me == proc[p]  l == me.l IN
    /\ me.pc = "upsert"
    /\ upserts[l] < MaxRepro
    /\ IF ~ me.found /\ lesson[l].status # "absent"
       THEN /\ raised' = [raised EXCEPT ![l] = @ + 1]
            /\ proc' = [proc EXCEPT ![p] = Idle]
            /\ UNCHANGED <<lesson, upserts>>
       ELSE /\ lesson' = [lesson EXCEPT ![l] =
                            IF me.found THEN Repeated(lesson[l]) ELSE NewLesson]
            /\ upserts' = [upserts EXCEPT ![l] = @ + 1]
            /\ proc' = [proc EXCEPT ![p] = [pc |-> "report", todo |-> me.todo]]
            /\ UNCHANGED raised
    /\ UNCHANGED <<log, constraints>>

\* The report is written, or the sidecar is terminated in the middle of
\* whatever it was doing: what it had not committed is lost.
FinishOrDie(p) ==
    /\ proc[p] # Idle
    /\ proc' = [proc EXCEPT ![p] = Idle]
    /\ UNCHANGED <<lesson, log, constraints, upserts, raised>>

-----------------------------------------------------------------------------
(* mem.query *)

\* The scopes inject reads under a given scope_max.
Visible(scope_max) ==
    CASE scope_max = "local"  -> {"local"}
      [] scope_max = "team"   -> {"local", "team"}
      [] scope_max = "global" -> Scopes

\* inject: the constraints of the next generation.
Inject(p, scope_max) ==
    /\ proc[p] = Idle
    /\ constraints' = [constraints EXCEPT ![p] =
          {l \in Fabrications : /\ lesson[l].status = "active"
                                /\ lesson[l].scope \in Visible(scope_max)}]
    /\ UNCHANGED <<lesson, proc, log, upserts, raised>>

-----------------------------------------------------------------------------
(* mem.promote, promote_to_global and mem.revoke *)

\* promote, its SELECT: refused without consent or below min_repro.
PromoteSelect(p, l, target, consent) ==
    /\ proc[p] = Idle
    /\ consent
    /\ lesson[l].status # "absent"
    /\ lesson[l].repro_count >= MinRepro
    /\ proc' = [proc EXCEPT ![p] = [pc |-> "promote", l |-> l, target |-> target]]
    /\ UNCHANGED <<lesson, log, constraints, upserts, raised>>

\* promote, its UPDATE and its line in the promotion log.
PromoteWrite(p) ==
    LET me == proc[p] IN
    /\ me.pc = "promote"
    /\ lesson' = [lesson EXCEPT ![me.l] = Shared(@, me.target)]
    /\ log' = log \union {<<me.l, me.target>>}
    /\ proc' = [proc EXCEPT ![p] = Idle]
    /\ UNCHANGED <<constraints, upserts, raised>>

\* promote_to_global: _lesson_dict reads the row, and the global memory is
\* asked; what it does is the subject of module Federation.
UplinkAsk(p, l) ==
    /\ proc[p] = Idle
    /\ lesson[l].status # "absent"
    /\ proc' = [proc EXCEPT ![p] = [pc |-> "uplink", l |-> l]]
    /\ UNCHANGED <<lesson, log, constraints, upserts, raised>>

\* The global memory answered status active: the row is marked shared.  Any
\* other answer, or none, changes nothing (FinishOrDie).
UplinkActive(p) ==
    LET me == proc[p] IN
    /\ me.pc = "uplink"
    /\ lesson' = [lesson EXCEPT ![me.l] = Shared(@, "global")]
    /\ proc' = [proc EXCEPT ![p] = Idle]
    /\ UNCHANGED <<log, constraints, upserts, raised>>

\* revoke: one UPDATE, which matches nothing for an unknown lesson.
Revoke(p, l) ==
    /\ proc[p] = Idle
    /\ lesson[l].status # "absent"
    /\ lesson' = [lesson EXCEPT ![l] = Withdrawn(@)]
    /\ UNCHANGED <<proc, log, constraints, upserts, raised>>

Next == \E p \in Procs :
    \/ \E ls \in SUBSET Lessons : WriteFromReport(p, ls)
    \/ \E l \in Lessons, again \in BOOLEAN : UpsertSelect(p, l, again)
    \/ \E l \in Lessons : UplinkAsk(p, l) \/ Revoke(p, l)
    \/ UpsertWrite(p) \/ FinishOrDie(p) \/ PromoteWrite(p) \/ UplinkActive(p)
    \/ \E scope_max \in Scopes : Inject(p, scope_max)
    \/ \E l \in Lessons, target \in {"team", "global"}, consent \in BOOLEAN :
          PromoteSelect(p, l, target, consent)

Spec == Init /\ [][Next]_vars

-----------------------------------------------------------------------------
(* Properties *)

\* Of the upserts that commit, none is lost and none counts twice: repro_count,
\* which the gate of promote reads, is their number, whatever the interleaving
\* and whoever is terminated between SELECT and write (_upsert, store.py:81-92).
EveryUpsertCounts == \A l \in Lessons : lesson[l].repro_count = upserts[l]

\* An upsert is lost only to the race for the first row: over the whole life of
\* a lesson the INSERT on a signature already there (store.py:87) raises in
\* fewer calls than there are sidecars, because only those that had looked
\* before the first INSERT can lose theirs, and each of them once.
LostAtBirthOnly == \A l \in Lessons : raised[l] < Cardinality(Procs)

\* Withdrawing is for good: a withdrawn lesson that occurs again, or whose
\* promotion was under way, never becomes a constraint again
\* (revoke, store.py:127, against _upsert and the two promotions).
WithdrawnForGood ==
    [][\A l \in Lessons : lesson[l].status = "retracted" =>
          /\ lesson'[l].status = "retracted"
          /\ \A p \in Procs : l \notin constraints'[p] \/ l \in constraints[p]]_vars

-----------------------------------------------------------------------------
(* What the documents say and the code does not do: TLC violates each of   *)
(* the following, as the README tells.                                     *)

\* write_from_report says that it goes through the rejects of a report and
\* upserts each, "repro_count + 1 when it recurs" (store.py:68): no failure is
\* lost to the UNIQUE signature, and with it the rest of its report.
NoUpsertIsLost == \A l \in Lessons : raised[l] = 0

\* docs/ARCHITECTURE.md:146 says that a withdrawn lesson is taken out of the
\* global scope: it must not be in a shared scope.
WithdrawnIsPrivate ==
    \A l \in Lessons : lesson[l].status = "retracted" => lesson[l].scope = "local"

\* docs/ARCHITECTURE.md:185 calls global_promotion_log the audit of the
\* promotions: a lesson in a shared scope has its line there.
PromotionsAreLogged ==
    \A l \in Lessons :
        lesson[l].scope # "local" => <<l, lesson[l].scope>> \in log
=============================================================================
