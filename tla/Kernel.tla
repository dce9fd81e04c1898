------------------------------- MODULE Kernel -------------------------------
(***************************************************************************)
(* run_verify of coe_kernel/kernel.py: the claims of a draft are judged in *)
(* turn, each by the function of verify.py for its type, and the report is *)
(* green if all of them pass.  A citation goes through the steps of module *)
(* Citation; a number is held against the run log; a mechanism against the *)
(* index of the literature, which may not answer, and the evidence it      *)
(* brings; a domain claim against the laws of chemistry; a figure is left  *)
(* to a human.                                                             *)
(*                                                                         *)
(* Of the names and words of a claim there is what infer_semantic makes of *)
(* them (says); of the text of a mechanism, whether the index supports it, *)
(* and one number.  A package among the artifacts of the run comes to the  *)
(* same as evidence of kind code+data, code_data here.                     *)
(***************************************************************************)
EXTENDS Citation, Derivation

CONSTANTS
    Drafts,    \* the drafts, each the sequence of its claims
    Logs       \* the run logs

\* A number as it is written (two decimals, see Derivation), and what a
\* derivation may apply its operator to: names the log may lack, and constants.
Written == [n : Int, nd : 0 .. 2]
Operand(x) == x \in [is : {"name"}, name : Names \union {"none"}]
                    \union [is : {"const"}, num : Written]

\* A claim of each type, as the generator provides it and the extraction adds it
\* (extract_claims, run_verify).
WellFormed(c) ==
    /\ c.type \in {"citation", "number", "mechanism", "domain", "figure"}
    /\ c.type = "citation" => c.arxiv \in ArxivIds /\ c.doi \in Dois /\ c.title \in Titles
    /\ c.type \in {"number", "mechanism"} => c.value \in Written /\ c.says \in Semantics
    /\ c.type = "number" => c.value.nd \in 1 .. 2
    /\ c.type = "number" =>
          \/ c.derivation = NoDerivation
          \/ /\ c.derivation.op \in Binary \union {"alone"}
             /\ Operand(c.derivation.a) /\ Operand(c.derivation.b)
    /\ c.type = "domain" =>
          \/ c.kind = "reaction"
          \/ /\ c.kind = "formula" /\ c.foreign \in BOOLEAN
             /\ c.atoms \in [C : Nat, H : Nat, N : Nat, X : Nat]

ASSUME KernelAssumption ==
    /\ \A d \in Drafts : /\ d \in Seq({d[i] : i \in DOMAIN d})
                        /\ \A i \in DOMAIN d : WellFormed(d[i])
    /\ Logs \subseteq Seq([name : Names, n : Int, nd : 0 .. 2])

VARIABLES
    draft,     \* the claims to judge
    run_log,   \* the log of the run
    report     \* the status of the claims judged, in the order of the draft

kernelVars == <<draft, run_log, report, vars>>
citationVars == <<layers, lookup, denied, silent, verdict>>

Statuses == {"pass", "manual", "unresolved", "reject"}
NoClaim == [type |-> "none"]

KernelInit ==
    /\ draft \in Drafts /\ run_log \in Logs /\ report = <<>>
    /\ claim = NoClaim /\ verdict = "none"
    /\ layers = [l \in {"arxiv", "doi", "title"} |-> "unknown"]
    /\ lookup = "idle" /\ denied = FALSE /\ silent = {}

\* The claim whose turn it is.
Turn(c, type) ==
    /\ lookup = "idle"
    /\ Len(report) < Len(draft)
    /\ c = draft[Len(report) + 1]
    /\ c.type = type

Judged(status) == report' = Append(report, status)

-----------------------------------------------------------------------------
(* Numbers *)

\* Mutant of NumberStatus: what the log prints passes before its range is
\* looked at.
PrintedFirst(c, log) ==
    IF Printed(c.value, log) THEN "pass"
    ELSE IF InRange(c.says, c.value) /\ Discovered(c.value, Symbols(log)) THEN "pass"
    ELSE IF InRange(c.says, c.value) THEN "unresolved" ELSE "reject"

\* verify_number: the range, the log, the claim's own derivation, and without
\* one what discover() finds.
NumberStatus(c, log) ==
    LET syms == Symbols(log) IN
    IF ~ InRange(c.says, c.value) THEN "reject"
    ELSE IF Printed(c.value, log) THEN "pass"
    ELSE IF c.derivation = NoDerivation
    THEN IF Discovered(c.value, syms) THEN "pass" ELSE "unresolved"
    ELSE IF ~ Consistent(c.derivation, syms) THEN "reject"
    ELSE IF Recomputes(c.derivation, c.value, syms) THEN "pass"
    ELSE IF Evaluated(c.derivation, syms)[2] = 0 THEN "unresolved" ELSE "reject"

VerifyNumber(c) ==
    /\ Turn(c, "number")
    /\ Judged(NumberStatus(c, run_log))
    /\ UNCHANGED <<draft, run_log, vars>>

-----------------------------------------------------------------------------
(* Mechanisms *)

Computational == {"code_data", "derivation", "log"}

\* Mutant of Satisfying: an index that does not answer asks for no more than
\* one that supports the claim.
SatisfyingUnlessDenied(support) ==
    IF support = "unestablished_in_index" THEN Computational
    ELSE Computational \union {"citation"}

\* required_substrate and evidence_satisfies: the evidence that will do.
Satisfying(support) ==
    IF support = "supported" THEN Computational \union {"citation"}
    ELSE Computational

\* verify_mechanism, after the index has answered.
MechanismStatus(c, support) ==
    IF c.evidence \notin Satisfying(support) THEN "unresolved"
    ELSE IF ~ InRange(c.says, c.value) THEN "reject" ELSE "pass"

\* literature_support: the index supports the claim, does not, or is silent.
Support(c) == {IF c.indexed THEN "supported" ELSE "unestablished_in_index", "unknown"}

VerifyMechanism(c) ==
    /\ Turn(c, "mechanism")
    /\ \E support \in Support(c) : Judged(MechanismStatus(c, support))
    /\ UNCHANGED <<draft, run_log, vars>>

-----------------------------------------------------------------------------
(* Chemistry *)

\* check_formula: hydrogen and halogens beyond what the skeleton can carry are
\* impossible, half a degree of unsaturation is a radical or an ion; outside
\* C, H, N, O and the halogens nothing is said.
FormulaVerdict(atoms, foreign) ==
    LET twice == 2 * atoms.C + 2 + atoms.N - atoms.H - atoms.X IN
    IF foreign THEN "unknown"
    ELSE IF twice < 0 THEN "impossible"
    ELSE IF twice % 2 = 1 THEN "radical" ELSE "plausible"

\* check_reaction: conservation of the atoms.
ReactionVerdict(left, right) == IF left = right THEN "plausible" ELSE "impossible"

\* verify_domain.
DomainStatus(c) ==
    LET v == IF c.kind = "reaction" THEN ReactionVerdict(c.left, c.right)
             ELSE FormulaVerdict(c.atoms, c.foreign) IN
    CASE v = "impossible" -> "reject"
      [] v = "plausible"  -> "pass"
      [] v = "radical"    -> "manual"
      [] v = "unknown"    -> "unresolved"

VerifyDomain(c) ==
    /\ Turn(c, "domain")
    /\ Judged(DomainStatus(c))
    /\ UNCHANGED <<draft, run_log, vars>>

\* A figure is always left to a human.
VerifyFigure(c) ==
    /\ Turn(c, "figure")
    /\ Judged("manual")
    /\ UNCHANGED <<draft, run_log, vars>>

-----------------------------------------------------------------------------
(* Citations, step by step *)

BeginCitation(c) ==
    /\ Turn(c, "citation")
    /\ claim' = c /\ verdict' = "none" /\ lookup' = "arxiv"
    /\ layers' = [l \in DOMAIN layers |-> "unknown"]
    /\ denied' = FALSE /\ silent' = {}
    /\ UNCHANGED <<draft, run_log, report>>

VerifyCitation == Next /\ UNCHANGED <<draft, run_log, report>>

EndCitation ==
    /\ lookup = "done"
    /\ lookup' = "idle"
    /\ Judged(verdict)
    /\ UNCHANGED <<draft, run_log, claim, layers, denied, silent, verdict>>

-----------------------------------------------------------------------------
Claims == {draft[i] : i \in DOMAIN draft}

KernelNext ==
    \/ VerifyCitation
    \/ EndCitation
    \/ \E c \in Claims :
          \/ BeginCitation(c) \/ VerifyNumber(c) \/ VerifyMechanism(c)
          \/ VerifyDomain(c) \/ VerifyFigure(c)

KernelSpec == KernelInit /\ [][KernelNext]_kernelVars

\* The field of the report the last gate of a run looks at.
Done == Len(report) = Len(draft)
AllGreen == \A i \in DOMAIN report : report[i] = "pass"

-----------------------------------------------------------------------------
(* Properties *)

\* What bears a claim out, whatever the kernel did: a registry or the index
\* holds the citation; the log prints the number, or an expression over the log
\* or the claim's own derivation gives it; the mechanism has evidence; nothing
\* of the formula or the reaction is against the laws.
Backed(c) ==
    CASE c.type = "citation" ->
           \/ c.arxiv = "held" \/ c.doi \in {"in_crossref", "in_datacite"}
           \/ c.title = "indexed"
      [] c.type = "number" ->
           \/ Printed(c.value, run_log)
           \/ \E e \in Discoverable(Symbols(run_log)) \union ({c.derivation} \ {NoDerivation}) :
                 /\ ~ Unlogged(e, Symbols(run_log))
                 /\ LET q == Evaluated(e, Symbols(run_log))
                        gap == 2 * (q[1] * (10 ^ c.value.nd) - c.value.n * q[2])
                    IN q[2] # 0 /\ gap <= q[2] /\ -gap <= q[2]
      [] c.type = "mechanism" -> c.evidence # "none"
      [] c.type = "domain" ->
           IF c.kind = "reaction" THEN c.left = c.right
           ELSE ~ c.foreign /\ c.atoms.H + c.atoms.X <= 2 * c.atoms.C + 2 + c.atoms.N
      [] c.type = "figure" -> FALSE

\* A green report has something to show for every claim of the draft, whatever
\* came before it in the draft and whichever sources did not answer.
GreenIsBacked ==
    Done /\ AllGreen => \A i \in DOMAIN draft : Backed(draft[i])

\* What the world does not allow of a quantity: a share outside of 0 to 1, a
\* negative count, duration, amount of memory or loss.
Impossible(says, value) ==
    \/ says \in {"probability", "count", "duration", "memory", "loss"} /\ value.n < 0
    \/ says = "probability" /\ value.n > 10 ^ value.nd

\* A value the world does not allow never passes, however well the log or the
\* evidence of the claim agrees with it (verify_number, verify_mechanism).
ImpossibleNeverPasses ==
    \A i \in DOMAIN report :
        /\ draft[i].type \in {"number", "mechanism"}
        /\ Impossible(draft[i].says, draft[i].value)
        => report[i] # "pass"

\* What the index is not known to support passes on computation alone: a
\* citation is evidence only for what the index holds, and silence of the index
\* asks for no less than its denial (verify_mechanism).
NoveltyNeedsComputation ==
    \A i \in DOMAIN report :
        draft[i].type = "mechanism" /\ report[i] = "pass" /\ ~ draft[i].indexed
            => draft[i].evidence \in Computational

\* To print more quantities never takes a number's evidence away: what passes
\* against a log passes against every longer log whose new lines use new names.
MoreLogNeverUnproves ==
    \A i \in DOMAIN report :
        draft[i].type = "number" /\ report[i] = "pass" =>
            \A log \in Logs :
                /\ Len(run_log) < Len(log)
                /\ run_log = SubSeq(log, 1, Len(run_log))
                /\ \A j \in Len(run_log) + 1 .. Len(log) :
                      log[j].name \notin DOMAIN Symbols(run_log)
                => NumberStatus(draft[i], log) = "pass"

-----------------------------------------------------------------------------
(* What the documents say and the code does not do: TLC violates each of   *)
(* the following, as the README tells.                                     *)

\* kernel.py:8-9: reject is a contradiction somebody established, not what the
\* kernel cannot see.  A derivation that names what the log does not print is
\* rejected as a contradiction of dimensions.
UnloggedIsNoFabrication ==
    \A i \in DOMAIN report :
        /\ draft[i].type = "number"
        /\ InRange(draft[i].says, draft[i].value)
        /\ Unlogged(draft[i].derivation, Symbols(run_log))
        /\ draft[i].derivation # NoDerivation
        => report[i] # "reject"

\* derivation.py:11: a derivation refers to quantities of the log.  A constant
\* by itself derives any number.
DerivedFromLog ==
    \A i \in DOMAIN report :
        /\ draft[i].type = "number" /\ report[i] = "pass"
        /\ ~ Printed(draft[i].value, run_log)
        /\ draft[i].derivation # NoDerivation
        => \E x \in Operands(draft[i].derivation) : x.is = "name"

\* README.md:262: a number is in the run log or can be recomputed from it.  The
\* log prints 0.58, and the claim of 0.5 passes, as would that of 8.1 where it
\* prints 58.1.
PassIsRecomputable ==
    \A i \in DOMAIN report :
        draft[i].type = "number" /\ report[i] = "pass" =>
            \/ \E name \in DOMAIN Symbols(run_log) :
                  Recomputes(Apply("alone", Name(name), Name(name)), draft[i].value,
                             Symbols(run_log))
            \/ draft[i].derivation # NoDerivation
            \/ Discovered(draft[i].value, Symbols(run_log))
=============================================================================
