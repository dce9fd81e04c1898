---------------------------- MODULE GlobalMemory ----------------------------
(***************************************************************************)
(* The cross-user lesson table of memory/global_store.py, one operation    *)
(* per action.  Every operation is atomic here: this is what a caller may  *)
(* expect of GlobalMemory, and what the deployed service of module         *)
(* GlobalService is shown to implement (or, with several instances on one  *)
(* database, not to implement).                                            *)
(*                                                                         *)
(* A row of global_lesson is a record; a signature without a row has the   *)
(* status "absent".  Timestamps, the kind and the pattern text are left    *)
(* out: the signature determines kind and pattern, and the only thing the  *)
(* text decides is whether desensitize() lets it through, which the        *)
(* constant Abstract says.                                                 *)
(***************************************************************************)
EXTENDS Naturals, FiniteSets

CONSTANTS
    Signatures,       \* sha256(kind|pattern) of the lessons in play
    Abstract,         \* the signatures whose pattern desensitize() accepts
    Fingerprints,     \* contributor fingerprints
    MinContributors,  \* MIN_CONTRIBUTORS, 2 in the code
    VoteLimit,        \* the number of down votes that takes a lesson down, 3
    MaxVotes,         \* bound on votes_down, for TLC
    MaxReuse          \* bound on reuse_count, for TLC

ASSUME AbstractAssumption == Abstract \subseteq Signatures
ASSUME FingerprintsAssumption == IsFiniteSet(Fingerprints)
\* A row is inserted with one contributor and status pending, whatever the
\* gate: with a gate of 1 that row would be pending above the gate.
ASSUME GateAssumption == MinContributors \in Nat /\ MinContributors >= 2
ASSUME BoundsAssumption ==
    VoteLimit \in Nat /\ MaxVotes \in Nat /\ MaxReuse \in Nat

VARIABLE rows         \* rows[s] is the row of global_lesson with signature s

vars == <<rows>>

Row == [contributors : SUBSET Fingerprints,
        repro_count  : Nat,
        reuse_count  : Nat,
        votes_down   : Nat,
        status       : {"absent", "pending", "active", "retracted"}]

NoRow == [contributors |-> {}, repro_count |-> 0, reuse_count |-> 0,
          votes_down |-> 0, status |-> "absent"]

TypeOK == rows \in [Signatures -> Row]

Init == rows = [s \in Signatures |-> NoRow]

-----------------------------------------------------------------------------
\* Mutants of Promoted: one contributor too few is enough; a promotion brings
\* a retracted lesson back.
PromotedTooEarly(row, seen, f) ==
    [row EXCEPT !.contributors = seen \union {f},
                !.repro_count  = Cardinality(seen \union {f}),
                !.status = IF row.status = "retracted" THEN "retracted"
                           ELSE IF Cardinality(seen \union {f}) + 1 >= MinContributors
                                THEN "active" ELSE "pending"]
PromotedReviving(row, seen, f) ==
    [row EXCEPT !.contributors = seen \union {f},
                !.repro_count  = Cardinality(seen \union {f}),
                !.status = IF Cardinality(seen \union {f}) >= MinContributors
                           THEN "active" ELSE "pending"]
\* Mutant of Served: query forgets the status.
ServedUnfiltered(asked) == {s \in asked : rows[s].status # "absent"}

\* The row promote writes, given the contributors it read.  An existing row
\* keeps the status retracted: CASE WHEN status='retracted' in the UPDATE.
Promoted(row, seen, f) ==
    LET contribs == seen \union {f} IN
    [row EXCEPT !.contributors = contribs,
                !.repro_count  = Cardinality(contribs),
                !.status = IF row.status = "retracted" THEN "retracted"
                           ELSE IF Cardinality(contribs) >= MinContributors
                                THEN "active" ELSE "pending"]

\* The row promote inserts for a signature it has not found.
Inserted(f) == [NoRow EXCEPT !.contributors = {f}, !.repro_count = 1,
                             !.status = "pending"]

\* The row revoke writes, given the contributors it read.
Revoked(row, seen, f) ==
    LET contribs == seen \ {f} IN
    [row EXCEPT !.contributors = contribs,
                !.repro_count  = Cardinality(contribs),
                !.status = IF Cardinality(contribs) < MinContributors
                           THEN "retracted" ELSE "active"]

\* promote: refused without consent or when desensitize() refuses the lesson.
Promote(f, s, consent) ==
    /\ consent
    /\ s \in Abstract
    /\ rows' = [rows EXCEPT ![s] =
                  IF rows[s].status = "absent" THEN Inserted(f)
                  ELSE Promoted(rows[s], rows[s].contributors, f)]

\* revoke: answers ok=False for an unknown signature; the caller is not
\* checked to be one of the contributors.
Revoke(f, s) ==
    /\ rows[s].status # "absent"
    /\ rows' = [rows EXCEPT ![s] = Revoked(rows[s], rows[s].contributors, f)]

\* The row vote_down writes: the third vote retracts the lesson.
VotedDown(row) ==
    [row EXCEPT !.votes_down = row.votes_down + 1,
                !.status = IF row.votes_down + 1 >= VoteLimit
                           THEN "retracted" ELSE row.status]

VoteDown(s) ==
    /\ rows[s].status # "absent"
    /\ rows[s].votes_down < MaxVotes
    /\ rows' = [rows EXCEPT ![s] = VotedDown(rows[s])]

\* query: serves the active lessons of the kinds asked for (here the set
\* asked) and counts the reuse of each one served.
Served(asked) == {s \in asked : rows[s].status = "active"}

Query(asked) ==
    /\ \A s \in Served(asked) : rows[s].reuse_count < MaxReuse
    /\ rows' = [s \in Signatures |->
                  IF s \in Served(asked)
                  THEN [rows[s] EXCEPT !.reuse_count = @ + 1]
                  ELSE rows[s]]

Next ==
    \/ \E f \in Fingerprints, s \in Signatures :
          \/ \E consent \in BOOLEAN : Promote(f, s, consent)
          \/ Revoke(f, s)
    \/ \E s \in Signatures : VoteDown(s)
    \/ \E asked \in SUBSET Signatures : Query(asked)

Spec == Init /\ [][Next]_vars

-----------------------------------------------------------------------------
(* Properties *)

\* The quality gate of the module docstring (global_store.py:2, "only active
\* with N different contributors"): an active lesson has MinContributors
\* distinct contributors, a pending one has some but fewer.
QualityGate ==
    \A s \in Signatures :
        /\ rows[s].status = "active" =>
               Cardinality(rows[s].contributors) >= MinContributors
        /\ rows[s].status = "pending" =>
               Cardinality(rows[s].contributors) \in 1 .. (MinContributors - 1)

\* repro_count, the number promote, query and status_for report as
\* distinct_contributors, is the number of different contributors: promoting
\* twice does not count twice and a revocation is subtracted
\* (schema comment, global_store.py:15).
CountsDistinctContributors ==
    \A s \in Signatures :
        rows[s].repro_count = Cardinality(rows[s].contributors)

\* A promotion never brings a retracted lesson back, however many users
\* promote it: only a step that removes a contributor (or a revocation by
\* someone who is none) can, and only above the gate.
RetractedUnlessRevoked ==
    [][\A s \in Signatures :
          rows[s].status = "retracted" /\ rows'[s].status # "retracted" =>
              /\ rows'[s].contributors \subseteq rows[s].contributors
              /\ Cardinality(rows'[s].contributors) >= MinContributors]_vars

\* Nothing is served, and no reuse counted, for a lesson that never passed
\* the gate: reuse_count of a pending lesson is 0 (query's status filter and
\* the absence of a way back from active to pending).
PendingNeverReused ==
    \A s \in Signatures : rows[s].status = "pending" => rows[s].reuse_count = 0

-----------------------------------------------------------------------------
(* What the documents say and the code does not do: TLC violates each of   *)
(* the following, as the README tells.                                     *)

\* What the docstring ("taken down by vote", global_store.py:2) and
\* contracts/memory.proto:15 say of votes: VoteLimit down votes keep a lesson
\* down.  revoke recomputes the status from the contributors alone.
VotedDownStaysDown ==
    \A s \in Signatures :
        rows[s].votes_down >= VoteLimit => rows[s].status = "retracted"

\* contracts/memory.proto:13 says revoke withdraws what the caller itself
\* contributed, so a revocation by someone who is no contributor (a repeated
\* one, for instance) changes nothing: the status of an existing lesson moves
\* only together with its contributors or its votes.
RevokeWithdrawsOwnContribution ==
    [][\A s \in Signatures :
          /\ rows'[s].contributors = rows[s].contributors
          /\ rows'[s].votes_down = rows[s].votes_down
          => rows'[s].status = rows[s].status]_vars
=============================================================================
