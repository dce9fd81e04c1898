----------------------------- MODULE Federation ------------------------------
(***************************************************************************)
(* The cross-user flywheel: the local experience stores of several users   *)
(* (memory/store.py) and the global memory they feed (global_store.py, its *)
(* table and actions those of module GlobalMemory, which this one extends: *)
(* a step of the federation is a step of the global memory, or leaves its  *)
(* table alone).                                                           *)
(*                                                                         *)
(* promote_to_global is a remote call in the middle of a local method: the *)
(* global table changes, the answer travels back and may be lost, and only *)
(* then is the local row marked.  The methods of one store are atomic here *)
(* (module ExperienceStore interleaves them), the uplink is not.           *)
(***************************************************************************)
EXTENDS LessonRow, GlobalMemory

CONSTANTS
    Stores,          \* local databases
    Fabrications,    \* the lessons of class fabrication
    MinRepro,        \* min_repro of promote
    MaxRepro         \* bound on the local repro_count, for TLC

ASSUME ReproAssumption == MinRepro \in Nat /\ MaxRepro \in Nat

VARIABLES
    local,       \* local[d][s] \in Lesson, the row of lesson s in store d
    author,      \* author[d][s], its contributor_fingerprint, or nobody
    uplink,      \* uplink[d] is the answer store d is waiting for
    everActive   \* the lessons that have been active in the global memory

federationVars == <<rows, local, author, uplink, everActive>>

NoAnswer == [sig |-> "none", status |-> "none"]
Answers == [sig : Signatures, status : {"pending", "active", "retracted"}]

FederationTypeOK ==
    /\ TypeOK
    /\ local \in [Stores -> [Signatures -> Lesson]]
    /\ author \in [Stores -> [Signatures -> Fingerprints \union {"nobody"}]]
    /\ uplink \in [Stores -> Answers \union {NoAnswer}]
    /\ everActive \subseteq Signatures

FederationInit ==
    /\ Init
    /\ local = [d \in Stores |-> [s \in Signatures |-> NoLesson]]
    /\ author = [d \in Stores |-> [s \in Signatures |-> "nobody"]]
    /\ uplink = [d \in Stores |-> NoAnswer]
    /\ everActive = {}

Has(d, s) == local[d][s].status # "absent"

\* What the global memory has ever served, read in the next state.
RecordActive ==
    everActive' = everActive \union {s \in Signatures : rows'[s].status = "active"}

-----------------------------------------------------------------------------
\* write_from_report of a run of user f on store d that failed on lesson s.
\* The row keeps the fingerprint of its first contributor.
Fail(d, f, s) ==
    /\ local[d][s].repro_count < MaxRepro
    /\ local' = [local EXCEPT ![d][s] = IF Has(d, s) THEN Repeated(@) ELSE NewLesson]
    /\ author' = [author EXCEPT ![d][s] = IF Has(d, s) THEN @ ELSE f]
    /\ UNCHANGED <<rows, uplink, everActive>>

\* promote: marks the row only, the global memory is not told.
PromoteLocal(d, s, target, consent) ==
    /\ consent
    /\ Has(d, s)
    /\ local[d][s].repro_count >= MinRepro
    /\ local' = [local EXCEPT ![d][s] = Shared(@, target)]
    /\ UNCHANGED <<rows, author, uplink, everActive>>

\* Mutant of Uplink: whoever promotes is sent as the contributor.
UplinkAnyone(d, s, consent) ==
    /\ Has(d, s)
    /\ uplink[d] = NoAnswer
    /\ \E f \in Fingerprints : Promote(f, s, consent)
    /\ uplink' = [uplink EXCEPT ![d] = [sig |-> s, status |-> rows'[s].status]]
    /\ RecordActive
    /\ UNCHANGED <<local, author>>

\* Mutant of UplinkAnswer: the answer is taken for a success, whatever it says.
UplinkTrusting(d) ==
    /\ uplink[d] # NoAnswer
    /\ local' = [local EXCEPT ![d][uplink[d].sig] = Shared(@, "global")]
    /\ uplink' = [uplink EXCEPT ![d] = NoAnswer]
    /\ UNCHANGED <<rows, author, everActive>>

\* promote_to_global, up to the commit of the global memory.
Uplink(d, s, consent) ==
    /\ Has(d, s)
    /\ uplink[d] = NoAnswer
    /\ Promote(author[d][s], s, consent)
    /\ uplink' = [uplink EXCEPT ![d] = [sig |-> s, status |-> rows'[s].status]]
    /\ RecordActive
    /\ UNCHANGED <<local, author>>

\* promote_to_global, from the answer on: marked only when it is active.
UplinkAnswer(d) ==
    /\ uplink[d] # NoAnswer
    /\ local' = IF uplink[d].status = "active"
                THEN [local EXCEPT ![d][uplink[d].sig] = Shared(@, "global")]
                ELSE local
    /\ uplink' = [uplink EXCEPT ![d] = NoAnswer]
    /\ UNCHANGED <<rows, author, everActive>>

\* The HTTP call of remote_global.py raises and nothing is marked.
AnswerLost(d) ==
    /\ uplink[d] # NoAnswer
    /\ uplink' = [uplink EXCEPT ![d] = NoAnswer]
    /\ UNCHANGED <<rows, local, author, everActive>>

\* mem.revoke, the revocation the gateway and the panel offer: local only.
RevokeLocal(d, s) ==
    /\ Has(d, s)
    /\ local' = [local EXCEPT ![d][s] = Withdrawn(@)]
    /\ UNCHANGED <<rows, author, uplink, everActive>>

\* global.revoke, called with the fingerprint of the row.
RevokeGlobal(d, s) ==
    /\ Has(d, s)
    /\ Revoke(author[d][s], s)
    /\ RecordActive
    /\ UNCHANGED <<local, author, uplink>>

\* The community votes.
CommunityVote(s) ==
    /\ VoteDown(s)
    /\ RecordActive
    /\ UNCHANGED <<local, author, uplink>>

FederationNext ==
    \/ \E d \in Stores, s \in Signatures :
          \/ \E f \in Fingerprints : Fail(d, f, s)
          \/ \E consent \in BOOLEAN :
                \/ Uplink(d, s, consent)
                \/ \E target \in {"team", "global"} : PromoteLocal(d, s, target, consent)
          \/ RevokeLocal(d, s)
          \/ RevokeGlobal(d, s)
    \/ \E d \in Stores : UplinkAnswer(d) \/ AnswerLost(d)
    \/ \E s \in Signatures : CommunityVote(s)

FederationSpec == FederationInit /\ [][FederationNext]_federationVars

-----------------------------------------------------------------------------
(* list_contributions, as the sovereignty panel calls it for user f *)

PanelScope(d, s) ==
    IF /\ rows[s].status = "active"
       /\ author[d][s] \in rows[s].contributors
    THEN "global" ELSE local[d][s].scope

-----------------------------------------------------------------------------
(* Properties *)

\* Every contributor counted by the gate has met the failure in a run of
\* their own (deploy/HYBRID.md:33, "reproduced independently by at least two
\* different users"): the fingerprint sent is that of the stored row, not of
\* whoever happens to promote, and lost answers and retries add nobody.
ContributorsReproduced ==
    \A s \in Signatures : \A f \in rows[s].contributors :
        \E d \in Stores : Has(d, s) /\ author[d][s] = f

\* A store marks a lesson as global only on its own quality gate (promote)
\* or because the global memory did serve it (promote_to_global).
GlobalMarkEarned ==
    \A d \in Stores, s \in Signatures :
        local[d][s].scope = "global" =>
            local[d][s].repro_count >= MinRepro \/ s \in everActive

-----------------------------------------------------------------------------
(* What the documents say and the code does not do: TLC violates each of   *)
(* the following, as the README tells.                                     *)

\* list_contributions promises the real current scope (store.py:152): the
\* panel shows "global" only for a lesson that the global memory serves with
\* this user among its contributors.
PanelTellsTheTruth ==
    \A d \in Stores, s \in Signatures :
        PanelScope(d, s) = "global" =>
            /\ rows[s].status = "active"
            /\ author[d][s] \in rows[s].contributors

\* docs/ARCHITECTURE.md:146: withdrawing takes the contribution out of the
\* global memory.
WithdrawnEverywhere ==
    \A d \in Stores, s \in Signatures :
        local[d][s].status = "retracted" /\ uplink[d] = NoAnswer =>
            author[d][s] \notin rows[s].contributors

\* Rule R2 (store.py:97): verification gaps never constrain generation, so
\* the global memory, whose answers are injected before generation
\* (contracts/memory.proto:11), must not serve one.
GapsNeverServed ==
    \A s \in Signatures : rows[s].status = "active" => s \in Fabrications
=============================================================================
