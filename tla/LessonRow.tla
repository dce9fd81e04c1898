------------------------------ MODULE LessonRow ------------------------------
(***************************************************************************)
(* The row of verify_lesson in memory/store.py and what its methods write  *)
(* into it, shared by ExperienceStore (one store, several sidecars),       *)
(* Federation (several stores and the global memory) and Orchestrator.     *)
(***************************************************************************)
EXTENDS Naturals

Scopes == {"local", "team", "global"}

Lesson == [status : {"absent", "active", "retracted"}, scope : Scopes,
        share_consent : {"none", "team", "global"}, repro_count : Nat]

NoLesson == [status |-> "absent", scope |-> "local", share_consent |-> "none",
          repro_count |-> 0]

\* What _upsert inserts: the column defaults of the schema.
NewLesson == [NoLesson EXCEPT !.status = "active", !.repro_count = 1]

\* Mutant of Repeated: a repeated failure takes its withdrawal back.
RepeatedReviving(row) ==
    [row EXCEPT !.repro_count = row.repro_count + 1, !.status = "active"]

\* _upsert of a lesson that has a row: SET repro_count = repro_count + 1 is
\* computed by SQLite, and the status is left as it is.
Repeated(row) == [row EXCEPT !.repro_count = row.repro_count + 1]

\* promote and promote_to_global.
Shared(row, target) ==
    [row EXCEPT !.scope = target, !.share_consent = target]

\* revoke: share_consent is left as it is.
Withdrawn(row) == [row EXCEPT !.status = "retracted", !.scope = "local"]
=============================================================================
