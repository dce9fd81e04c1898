---------------------------- MODULE KernelProofs ----------------------------
(***************************************************************************)
(* Proofs about coe_kernel: Kernel, for any drafts, logs and names, and    *)
(* ApiClient, through which it asks the registries.                        *)
(*                                                                         *)
(* A citation passes on the word of a source that holds it: a source is    *)
(* asked once for a citation, so the layer it settled and the record of    *)
(* its silence cannot disagree (LayersTrue).  A layer says no only when a  *)
(* registry said so, and says what its source says when every source       *)
(* answers (ToldInv): the verdict is then that of the rule, and whatever   *)
(* is silent, a rejection has a denial behind it.                          *)
(*                                                                         *)
(* The verdicts of a draft are rulings on the claims in their places       *)
(* (VerdictInv), and the properties of the report follow of what a ruling  *)
(* can be: for numbers, of how the last line of a name is found, of what   *)
(* an expression over logged quantities evaluates to, and of rounding.     *)
(***************************************************************************)
EXTENDS Kernel, ApiClient, WellFoundedInduction, TLAPS

\* The questions already asked, by the question asked next.
Answered(next) ==
    CASE next = "arxiv"    -> {}
      [] next = "crossref" -> {"arxiv"}
      [] next = "datacite" -> {"arxiv", "crossref"}
      [] next = "openalex" -> {"arxiv", "crossref", "datacite"}
      [] OTHER             -> Questions

\* Each layer that says yes was told so by a source that holds its part.
LayersTrue ==
    /\ layers \in [{"arxiv", "doi", "title"} -> {"yes", "no", "unknown"}]
    /\ silent \subseteq Answered(lookup)
    /\ lookup \in {"arxiv", "crossref", "datacite"} => layers["doi"] = "unknown"
    /\ layers["arxiv"] = "yes" => claim.arxiv = "held" /\ "arxiv" \notin silent
    /\ layers["doi"] = "yes" =>
          \/ claim.doi = "in_crossref" /\ "crossref" \notin silent
          \/ claim.doi = "in_datacite" /\ "datacite" \notin silent
    /\ layers["title"] = "yes" => claim.title = "indexed" /\ "openalex" \notin silent
    /\ lookup \notin {"done", "idle"} => verdict = "none"
    /\ verdict = "pass" => Exists

\* The verdict a claim may have been given: the one its own data, the log of the
\* run and, for a citation, a source that holds it allow.
Held(c) == c.arxiv = "held" \/ c.doi \in {"in_crossref", "in_datacite"} \/ c.title = "indexed"
Ruling(c, status) ==
    /\ c.type = "citation" /\ status = "pass" => Held(c)
    /\ c.type = "number" => status = NumberStatus(c, run_log)
    /\ c.type = "mechanism" => \E support \in Support(c) : status = MechanismStatus(c, support)
    /\ c.type = "domain" => status = DomainStatus(c)
    /\ c.type = "figure" => status = "manual"

\* Every verdict of the report is a ruling on the claim in its place, and a
\* citation being looked up is the claim whose turn it is.
VerdictInv ==
    /\ draft \in Drafts /\ run_log \in Logs
    /\ report \in Seq(Statuses \union {"none"}) /\ Len(report) <= Len(draft)
    /\ verdict \in Statuses \union {"none"}
    /\ lookup # "idle" => /\ Len(report) < Len(draft)
                          /\ claim = draft[Len(report) + 1] /\ claim.type = "citation"
    /\ \A i \in DOMAIN report : Ruling(draft[i], report[i])

-----------------------------------------------------------------------------
(* The lookups of a citation *)

LEMMA LayersEvidence == LayersTrue => PassIsEvidenced
  BY DEF LayersTrue, PassIsEvidenced, Exists

LEMMA InitLayers == KernelInit => LayersTrue
  BY DEF KernelInit, LayersTrue, Answered, Questions

\* One step per question, in the order they are asked.
LEMMA LookupLayers == LayersTrue /\ Next => LayersTrue'
<1> SUFFICES ASSUME LayersTrue, Next PROVE LayersTrue'
  OBVIOUS
<1>1. CASE CheckArxiv
  <2>1. CASE Skip("crossref")
    BY <1>1, <2>1 DEF CheckArxiv, Skip, LayersTrue, Answered, Questions, Exists
  <2>2. CASE ~ (claim.arxiv \in {"none", "unrecognised"})
    BY <1>1, <2>2 DEF CheckArxiv, Hears, Found, LayersTrue, Answered, Questions, Exists
  <2> QED BY <1>1, <2>1, <2>2 DEF CheckArxiv
<1>2. CASE CheckCrossref
  <2>1. CASE Exists \/ claim.doi = "none"
    BY <1>2, <2>1 DEF CheckCrossref, Skip, LayersTrue, Answered, Questions, Exists
  <2>2. CASE ~ Exists /\ claim.doi = "unrecognised"
    BY <1>2, <2>2 DEF CheckCrossref, Found, LayersTrue, Answered, Questions, Exists
  <2>3. CASE ~ Exists /\ claim.doi \notin {"none", "unrecognised"}
    BY <1>2, <2>3 DEF CheckCrossref, Hears, Found, LayersTrue, Answered, Questions, Exists
  <2> QED BY <2>1, <2>2, <2>3
<1>3. CASE CheckDatacite
  BY <1>3 DEF CheckDatacite, Hears, Found, LayersTrue, Answered, Questions, Exists
<1>4. CASE MatchTitle
  BY <1>4 DEF MatchTitle, Skip, Hears, Found, LayersTrue, Answered, Questions, Exists
<1>5. ASSUME NEW irrelevant \in BOOLEAN, Judge(irrelevant) PROVE LayersTrue'
  BY <1>5 DEF Judge, Status, LayersTrue, Answered, Questions, Exists
<1>6. \A scorer, reply : Irrelevant(scorer, reply) \in BOOLEAN
  BY DEF Irrelevant
<1> QED BY <1>1, <1>2, <1>3, <1>4, <1>5, <1>6 DEF Next

LEMMA StepLayers == LayersTrue /\ [KernelNext]_kernelVars => LayersTrue'
<1> SUFFICES ASSUME LayersTrue, [KernelNext]_kernelVars PROVE LayersTrue'
  OBVIOUS
<1>1. CASE VerifyCitation
  BY <1>1, LookupLayers DEF VerifyCitation
<1>2. CASE EndCitation
  BY <1>2 DEF EndCitation, LayersTrue, Answered, Questions, Exists
<1>3. ASSUME NEW c \in Claims, BeginCitation(c) PROVE LayersTrue'
  BY <1>3 DEF BeginCitation, LayersTrue, Answered, Questions, Exists
<1>4. CASE UNCHANGED vars
  BY <1>4 DEF vars, LayersTrue, Answered, Exists
<1> QED
  BY <1>1, <1>2, <1>3, <1>4
  DEF KernelNext, kernelVars, VerifyNumber, VerifyMechanism, VerifyDomain, VerifyFigure

\* A citation passes only on the word of a source that holds it, whatever the
\* others failed to answer (verify_citation).
THEOREM CitationsEvidenced == KernelSpec => []PassIsEvidenced
  BY InitLayers, StepLayers, LayersEvidence, PTL DEF KernelSpec

-----------------------------------------------------------------------------
(* The verdicts of the draft *)

\* The claims of a draft are well formed, and the draft is a sequence.
LEMMA DraftFacts ==
  ASSUME NEW d \in Drafts
  PROVE  Len(d) \in Nat /\ DOMAIN d = 1 .. Len(d) /\ \A i \in 1 .. Len(d) : WellFormed(d[i])
<1>1. d \in Seq({d[i] : i \in DOMAIN d}) /\ \A i \in DOMAIN d : WellFormed(d[i])
  BY KernelAssumption
<1> QED BY <1>1

\* One status more, for the claim whose turn it is.
LEMMA JudgedRules ==
  ASSUME VerdictInv, NEW c, NEW status \in Statuses \union {"none"},
         Len(report) < Len(draft), c = draft[Len(report) + 1],
         Judged(status), UNCHANGED <<draft, run_log>>, Ruling(c, status)
  PROVE  /\ report' \in Seq(Statuses \union {"none"}) /\ Len(report') <= Len(draft')
         /\ (\A i \in DOMAIN report : Ruling(draft[i], report[i]))'
<1>1. Len(draft) \in Nat
  BY DraftFacts DEF VerdictInv
<1>2. report' \in Seq(Statuses \union {"none"}) /\ Len(report') = Len(report) + 1
  BY DEF VerdictInv, Judged
<1>3. ASSUME NEW i \in DOMAIN report'
      PROVE  \/ i \in DOMAIN report /\ report'[i] = report[i]
             \/ i = Len(report) + 1 /\ report'[i] = status
  BY <1>3 DEF VerdictInv, Judged
<1>4. \A i \in DOMAIN report' : Ruling(draft[i], report'[i])
  BY <1>3 DEF VerdictInv
<1>5. (\A i \in DOMAIN report : Ruling(draft[i], report[i]))'
  BY <1>4 DEF Ruling
<1> QED BY <1>1, <1>2, <1>5 DEF VerdictInv

LEMMA InitVerdict == KernelInit => VerdictInv
<1> SUFFICES ASSUME KernelInit PROVE VerdictInv
  OBVIOUS
<1>1. Len(draft) \in Nat
  BY DraftFacts DEF KernelInit
<1> QED BY <1>1 DEF KernelInit, VerdictInv

\* One step per verifier; a citation that ends has been found by LayersTrue.
LEMMA StepVerdict == LayersTrue /\ VerdictInv /\ [KernelNext]_kernelVars => VerdictInv'
<1> SUFFICES ASSUME LayersTrue, VerdictInv, [KernelNext]_kernelVars PROVE VerdictInv'
  OBVIOUS
<1>0. Len(draft) \in Nat /\ DOMAIN draft = 1 .. Len(draft) /\ Len(report) \in Nat
  BY DraftFacts DEF VerdictInv
<1>1. CASE VerifyCitation
  <2>1. verdict' \in Statuses \union {"none"}
    BY <1>1 DEF VerifyCitation, Next, CheckArxiv, CheckCrossref, CheckDatacite,
                MatchTitle, Judge, Status, VerdictInv, Statuses
  <2>2. lookup # "idle" /\ UNCHANGED claim
    BY <1>1 DEF VerifyCitation, Next, CheckArxiv, CheckCrossref, CheckDatacite,
                MatchTitle, Judge
  <2>3. UNCHANGED <<draft, run_log, report>>
    BY <1>1 DEF VerifyCitation
  <2>4. (\A i \in DOMAIN report : Ruling(draft[i], report[i]))'
    BY <2>3 DEF VerdictInv, Ruling
  <2> QED BY <2>1, <2>2, <2>3, <2>4 DEF VerdictInv
<1>2. CASE EndCitation
  <2>1. Ruling(claim, verdict)
    BY <1>2 DEF EndCitation, VerdictInv, LayersTrue, Exists, Ruling, Held
  <2> QED BY <1>2, <2>1, JudgedRules DEF EndCitation, VerdictInv
<1>3. ASSUME NEW c \in Claims, BeginCitation(c) PROVE VerdictInv'
  <2>1. UNCHANGED <<draft, run_log, report>>
    BY <1>3 DEF BeginCitation
  <2>2. (\A i \in DOMAIN report : Ruling(draft[i], report[i]))'
    BY <2>1 DEF VerdictInv, Ruling
  <2> QED BY <1>3, <2>2 DEF BeginCitation, Turn, VerdictInv
<1>4. ASSUME NEW c \in Claims, VerifyNumber(c) PROVE VerdictInv'
  <2>1. NumberStatus(c, run_log) \in Statuses
    BY DEF NumberStatus, Statuses
  <2>2. Ruling(c, NumberStatus(c, run_log))
    BY <1>4 DEF Ruling, VerifyNumber, Turn
  <2> QED BY <1>4, <2>1, <2>2, JudgedRules DEF VerifyNumber, Turn, VerdictInv, vars
<1>5. ASSUME NEW c \in Claims, VerifyMechanism(c) PROVE VerdictInv'
  <2>1. PICK support \in Support(c) : Judged(MechanismStatus(c, support))
    BY <1>5 DEF VerifyMechanism
  <2>2. MechanismStatus(c, support) \in Statuses
    BY DEF MechanismStatus, Statuses
  <2>3. Ruling(c, MechanismStatus(c, support))
    BY <1>5 DEF Ruling, VerifyMechanism, Turn
  <2> QED BY <1>5, <2>1, <2>2, <2>3, JudgedRules DEF VerifyMechanism, Turn, VerdictInv, vars
<1>6. ASSUME NEW c \in Claims, VerifyDomain(c) PROVE VerdictInv'
  <2>1. DomainStatus(c) \in Statuses
    BY DEF DomainStatus, ReactionVerdict, FormulaVerdict, Statuses
  <2>2. Ruling(c, DomainStatus(c))
    BY <1>6 DEF Ruling, VerifyDomain, Turn
  <2> QED BY <1>6, <2>1, <2>2, JudgedRules DEF VerifyDomain, Turn, VerdictInv, vars
<1>7. ASSUME NEW c \in Claims, VerifyFigure(c) PROVE VerdictInv'
  <2>1. Ruling(c, "manual")
    BY <1>7 DEF Ruling, VerifyFigure, Turn
  <2> QED BY <1>7, <2>1, JudgedRules DEF VerifyFigure, Turn, VerdictInv, vars, Statuses
<1>8. CASE UNCHANGED kernelVars
  BY <1>8 DEF kernelVars, vars, VerdictInv, Ruling
<1> QED BY <1>1, <1>2, <1>3, <1>4, <1>5, <1>6, <1>7, <1>8 DEF KernelNext

\* Every report of the kernel is one of rulings on the claims in their places.
THEOREM VerdictsAreRulings == KernelSpec => []VerdictInv
  BY InitLayers, StepLayers, InitVerdict, StepVerdict, PTL DEF KernelSpec

-----------------------------------------------------------------------------
(* What follows of the rulings *)

\* The claim in the place of a verdict is well formed and was ruled upon.
LEMMA Ruled ==
  ASSUME VerdictInv, NEW i \in DOMAIN report
  PROVE  WellFormed(draft[i]) /\ Ruling(draft[i], report[i])
<1>1. i \in 1 .. Len(draft)
  BY DraftFacts DEF VerdictInv
<1> QED BY <1>1, DraftFacts DEF VerdictInv

\* What the index is not known to support passes on computation alone
\* (verify_mechanism).
THEOREM NoveltyComputed == KernelSpec => []NoveltyNeedsComputation
<1>1. ASSUME VerdictInv, NEW i \in DOMAIN report, draft[i].type = "mechanism",
             report[i] = "pass", ~ draft[i].indexed
      PROVE  draft[i].evidence \in Computational
  BY <1>1, Ruled DEF Ruling, MechanismStatus, Satisfying, Support
<1>2. VerdictInv => NoveltyNeedsComputation
  BY <1>1 DEF NoveltyNeedsComputation
<1> QED BY <1>2, VerdictsAreRulings, PTL

LEMMA OutOfRange ==
  ASSUME NEW num \in Written, NEW says, Impossible(says, num)
  PROVE  ~ InRange(says, num)
<1>1. num.n \in Int /\ num.nd \in 0 .. 2
  BY DEF Written
<1>2. CASE num.nd = 0
  BY <1>1, <1>2 DEF InRange, Hundredths, Impossible
<1>3. CASE num.nd = 1
  BY <1>1, <1>3 DEF InRange, Hundredths, Impossible
<1>4. CASE num.nd = 2
  BY <1>1, <1>4 DEF InRange, Hundredths, Impossible
<1> QED BY <1>1, <1>2, <1>3, <1>4

\* A share outside of 0 to 1, or a negative count, duration, amount of memory
\* or loss never passes, whatever the log prints and whatever evidence a
\* mechanism brings (verify_number, verify_mechanism).
THEOREM ImpossibleStopped == KernelSpec => []ImpossibleNeverPasses
<1>1. ASSUME VerdictInv, NEW i \in DOMAIN report,
             draft[i].type \in {"number", "mechanism"},
             Impossible(draft[i].says, draft[i].value)
      PROVE  report[i] # "pass"
  <2>1. WellFormed(draft[i]) /\ Ruling(draft[i], report[i])
    BY <1>1, Ruled
  <2>2. ~ InRange(draft[i].says, draft[i].value)
    BY <1>1, <2>1, OutOfRange DEF WellFormed
  <2>3. CASE draft[i].type = "number"
    BY <2>1, <2>2, <2>3 DEF Ruling, NumberStatus
  <2>4. CASE draft[i].type = "mechanism"
    BY <2>1, <2>2, <2>4 DEF Ruling, MechanismStatus
  <2> QED BY <1>1, <2>3, <2>4
<1>2. VerdictInv => ImpossibleNeverPasses
  BY <1>1 DEF ImpossibleNeverPasses
<1> QED BY <1>2, VerdictsAreRulings, PTL

-----------------------------------------------------------------------------
(* What a log prints *)

LogLines == [name : Names, n : Int, nd : 0 .. 2]

\* The line that prints a name last.
LastOf(log, name, i) ==
    /\ i \in DOMAIN log /\ log[i].name = name
    /\ \A j \in DOMAIN log : log[j].name = name => j <= i

LEMMA LastLine ==
  ASSUME NEW log \in Seq(LogLines), NEW k \in DOMAIN log
  PROVE  \E i : LastOf(log, log[k].name, i)
<1> DEFINE after == {n \in Nat : \E i \in DOMAIN log :
                        log[i].name = log[k].name /\ n = Len(log) - i}
<1>1. Len(log) - k \in after
  OBVIOUS
<1>2. PICK n \in after : \A m \in after : <<m, n>> \notin OpToRel(<, Nat)
  <2>1. after \subseteq Nat /\ after # {}
    BY <1>1
  <2> HIDE DEF after
  <2> QED BY <2>1, NatLessThanWellFounded, WFMin
<1>3. PICK i \in DOMAIN log : log[i].name = log[k].name /\ n = Len(log) - i
  OBVIOUS
<1>4. ASSUME NEW j \in DOMAIN log, log[j].name = log[k].name PROVE j <= i
  <2>1. Len(log) - j \in after
    BY <1>4
  <2>2. ~ (Len(log) - j < n)
    BY <1>2, <2>1 DEF OpToRel
  <2> QED BY <1>3, <2>2
<1> QED BY <1>3, <1>4 DEF LastOf

\* A symbol of the log is the line that prints its name last, and there is only
\* one such line.
LEMMA SymbolsAreLast ==
  ASSUME NEW log \in Seq(LogLines), NEW name \in DOMAIN Symbols(log)
  PROVE  \E i : LastOf(log, name, i) /\ Symbols(log)[name] = log[i]
<1> DEFINE at == CHOOSE i : LastOf(log, name, i)
<1>1. PICK k \in DOMAIN log : log[k].name = name
  BY DEF Symbols
<1>2. LastOf(log, name, at)
  BY <1>1, LastLine
<1>3. Symbols(log)[name] = log[CHOOSE i \in DOMAIN log :
              /\ log[i].name = name
              /\ \A j \in DOMAIN log : log[j].name = name => j <= i]
  BY DEF Symbols
<1>4. PICK i \in DOMAIN log : LastOf(log, name, i) /\ Symbols(log)[name] = log[i]
  BY <1>2, <1>3 DEF LastOf
<1> QED BY <1>4

LEMMA SymbolsAreLines ==
  ASSUME NEW log \in Logs, NEW name \in DOMAIN Symbols(log)
  PROVE  Symbols(log)[name].n \in Int /\ Symbols(log)[name].nd \in 0 .. 2
<1>1. log \in Seq(LogLines)
  BY KernelAssumption DEF LogLines
<1>2. PICK i : LastOf(log, name, i) /\ Symbols(log)[name] = log[i]
  BY <1>1, SymbolsAreLast
<1>3. log[i] \in LogLines
  BY <1>1, <1>2 DEF LastOf
<1> QED BY <1>2, <1>3 DEF LogLines

-----------------------------------------------------------------------------
(* A green report is backed *)

\* The derivations a claim may carry.
IsDerivation(e) == e.op \in Binary \union {"alone"} /\ Operand(e.a) /\ Operand(e.b)

LEMMA ProposedAreDerivations ==
  ASSUME NEW log \in Logs, NEW e \in Discoverable(Symbols(log))
  PROVE  IsDerivation(e)
<1>1. log \in Seq(LogLines)
  BY KernelAssumption DEF LogLines
<1>2. DOMAIN Symbols(log) \subseteq Names
  <2>1. \A i \in DOMAIN log : log[i] \in LogLines
    BY <1>1
  <2>2. \A i \in DOMAIN log : log[i].name \in Names
    BY <2>1 DEF LogLines
  <2> QED BY <2>2 DEF Symbols
<1> QED BY <1>2 DEF Discoverable, IsDerivation, Operand, Apply, Name

LEMMA HundredthsInt == \A num : num.n \in Int /\ num.nd \in 0 .. 2 => Hundredths(num) \in Int
<1> SUFFICES ASSUME NEW num, num.n \in Int, num.nd \in 0 .. 2 PROVE Hundredths(num) \in Int
  OBVIOUS
<1>1. CASE num.nd = 0
  BY <1>1 DEF Hundredths
<1>2. CASE num.nd = 1
  BY <1>2 DEF Hundredths
<1>3. CASE num.nd = 2
  BY <1>3 DEF Hundredths
<1> QED BY <1>1, <1>2, <1>3

LEMMA ComputedIsFraction ==
  ASSUME NEW op \in Binary, NEW a \in Int, NEW b \in Int
  PROVE  Computed(op, a, b)[1] \in Int /\ Computed(op, a, b)[2] \in Int
<1>2. CASE op = "difference"
  BY <1>2 DEF Computed
<1>3. CASE op = "sum"
  BY <1>3 DEF Computed
<1>4. CASE op = "product"
  BY <1>4 DEF Computed
<1>5. \A n, d \in Int : Over(n, d)[1] \in Int /\ Over(n, d)[2] \in Int
  BY DEF Over
<1>6. CASE op = "ratio"
  BY <1>5, <1>6 DEF Computed
<1>7. CASE op = "percent"
  BY <1>5, <1>7 DEF Computed
<1>8. CASE op = "relative"
  BY <1>5, <1>8 DEF Computed
<1>9. CASE op = "relative_percent"
  <2>1. Computed(op, a, b) = Over((a - b) * 100, b)
    BY <1>9 DEF Computed
  <2> QED BY <1>5, <2>1
<1> QED BY <1>2, <1>3, <1>4, <1>6, <1>7, <1>8, <1>9 DEF Binary, Subtracting

\* What is evaluated of logged quantities is a fraction of integers.
LEMMA EvaluatedIsFraction ==
  ASSUME NEW log \in Logs, NEW e, IsDerivation(e), ~ Unlogged(e, Symbols(log))
  PROVE  Evaluated(e, Symbols(log))[1] \in Int /\ Evaluated(e, Symbols(log))[2] \in Int
<1> DEFINE Of(x) == ValueOf(x, Symbols(log))
<1>1. ASSUME NEW x \in Operands(e), Operand(x) PROVE Of(x) \in Int
  <2>1. CASE x.is = "const"
    BY <1>1, <2>1, HundredthsInt DEF Operand, Written, ValueOf
  <2>2. CASE x.is = "name"
    BY <1>1, <2>2, HundredthsInt, SymbolsAreLines DEF Unlogged, ValueOf
  <2> QED BY <1>1, <2>1, <2>2 DEF Operand
<1>2. Of(e.a) \in Int
  BY <1>1 DEF Operands, IsDerivation
<1>3. CASE e.op = "alone"
  BY <1>2, <1>3 DEF Evaluated, Computed
<1>4. CASE e.op # "alone"
  <2>1. Of(e.b) \in Int
    BY <1>1, <1>4 DEF Operands, IsDerivation
  <2> QED BY <1>2, <1>4, <2>1, ComputedIsFraction DEF IsDerivation, Evaluated
<1> QED BY <1>3, <1>4

\* Half a unit of the last decimal, either way.
LEMMA RoundingIsClose ==
  ASSUME NEW q, q[1] \in Int, q[2] \in Int, NEW num \in Written, RoundsTo(q, num)
  PROVE  LET gap == 2 * (q[1] * (10 ^ num.nd) - num.n * q[2])
         IN q[2] # 0 /\ gap <= q[2] /\ -gap <= q[2]
<1> DEFINE gap == 2 * (q[1] * (10 ^ num.nd) - num.n * q[2])
<1>1. gap \in Int
  BY DEF Written
<1>2. q[2] # 0 /\ Size(gap) <= q[2]
  BY <1>1 DEF RoundsTo, Size
<1> HIDE DEF gap
<1>3. q[2] # 0 /\ gap <= q[2] /\ -gap <= q[2]
  BY <1>1, <1>2 DEF Size
<1> QED BY <1>3 DEF gap

\* A number that passes is printed, or what it was computed from is logged.
LEMMA NumberBacked ==
  ASSUME run_log \in Logs, NEW c, WellFormed(c), c.type = "number",
         NumberStatus(c, run_log) = "pass"
  PROVE  Backed(c)
<1> DEFINE syms == Symbols(run_log)
           Close(e) == /\ ~ Unlogged(e, syms)
                       /\ LET q == Evaluated(e, syms)
                              gap == 2 * (q[1] * (10 ^ c.value.nd) - c.value.n * q[2])
                          IN q[2] # 0 /\ gap <= q[2] /\ -gap <= q[2]
<1>1. ASSUME NEW e, IsDerivation(e), Consistent(e, syms), Recomputes(e, c.value, syms)
      PROVE  Close(e)
  <2>1. ~ Unlogged(e, syms)
    BY <1>1 DEF Consistent
  <2> HIDE DEF syms
  <2>2. c.value \in Written /\ RoundsTo(Evaluated(e, syms), c.value)
    BY <1>1 DEF WellFormed, Recomputes
  <2>3. Evaluated(e, syms)[1] \in Int /\ Evaluated(e, syms)[2] \in Int
    BY <1>1, <2>1, EvaluatedIsFraction DEF syms
  <2> QED BY <2>1, <2>2, <2>3, RoundingIsClose
<1>2. CASE Printed(c.value, run_log)
  BY <1>2 DEF Backed
<1>3. CASE c.derivation = NoDerivation /\ Discovered(c.value, syms)
  <2>1. PICK e \in Discoverable(syms) : Consistent(e, syms) /\ Recomputes(e, c.value, syms)
    BY <1>3 DEF Discovered
  <2>2. Close(e)
    BY <1>1, <2>1, ProposedAreDerivations
  <2> QED BY <2>1, <2>2 DEF Backed
<1>4. CASE /\ c.derivation # NoDerivation /\ Consistent(c.derivation, syms)
           /\ Recomputes(c.derivation, c.value, syms)
  <2>1. Close(c.derivation)
    BY <1>1, <1>4 DEF WellFormed, IsDerivation
  <2> QED BY <1>4, <2>1 DEF Backed
<1> QED BY <1>2, <1>3, <1>4 DEF NumberStatus

LEMMA DomainBacked ==
  ASSUME NEW c, WellFormed(c), c.type = "domain", DomainStatus(c) = "pass"
  PROVE  Backed(c)
<1>1. CASE c.kind = "reaction"
  BY <1>1 DEF DomainStatus, ReactionVerdict, Backed
<1>2. CASE c.kind # "reaction"
  BY <1>2 DEF DomainStatus, FormulaVerdict, Backed, WellFormed
<1> QED BY <1>1, <1>2

LEMMA PassBacked ==
  ASSUME run_log \in Logs, NEW c, WellFormed(c), Ruling(c, "pass")
  PROVE  Backed(c)
<1>1. CASE c.type = "citation"
  BY <1>1 DEF Ruling, Held, Backed
<1>2. CASE c.type = "number"
  BY <1>2, NumberBacked DEF Ruling
<1>3. CASE c.type = "mechanism"
  BY <1>3 DEF Ruling, MechanismStatus, Satisfying, Computational, Backed
<1>4. CASE c.type = "domain"
  BY <1>4, DomainBacked DEF Ruling
<1>5. CASE c.type = "figure"
  BY <1>5 DEF Ruling
<1> QED BY <1>1, <1>2, <1>3, <1>4, <1>5 DEF WellFormed

\* A green report has something to show for every claim of its draft
\* (run_verify, verify_claim).
THEOREM GreenHasBacking == KernelSpec => []GreenIsBacked
<1>1. ASSUME VerdictInv, Done, AllGreen, NEW i \in DOMAIN draft
      PROVE  Backed(draft[i])
  <2>1. i \in DOMAIN report /\ report[i] = "pass"
    BY <1>1, DraftFacts DEF VerdictInv, Done, AllGreen
  <2> QED BY <1>1, <2>1, Ruled, PassBacked DEF VerdictInv
<1>2. VerdictInv => GreenIsBacked
  BY <1>1 DEF GreenIsBacked
<1> QED BY <1>2, VerdictsAreRulings, PTL

-----------------------------------------------------------------------------
(* More log *)

\* The log goes on, and what it adds is printed under new names.
Continues(log, longer) ==
    /\ Len(log) < Len(longer) /\ log = SubSeq(longer, 1, Len(log))
    /\ \A j \in Len(log) + 1 .. Len(longer) : longer[j].name \notin DOMAIN Symbols(log)

\* What was printed stays, and every name keeps its last line.
LEMMA SymbolsKept ==
  ASSUME NEW log \in Logs, NEW longer \in Logs, Continues(log, longer)
  PROVE  /\ \A i \in DOMAIN log : i \in DOMAIN longer /\ longer[i] = log[i]
         /\ \A name \in DOMAIN Symbols(log) :
               name \in DOMAIN Symbols(longer) /\ Symbols(longer)[name] = Symbols(log)[name]
<1>1. log \in Seq(LogLines) /\ longer \in Seq(LogLines)
  BY KernelAssumption DEF LogLines
<1>2. \A i \in DOMAIN log : i \in DOMAIN longer /\ longer[i] = log[i]
  BY <1>1 DEF Continues
<1>3. ASSUME NEW name \in DOMAIN Symbols(log)
      PROVE  name \in DOMAIN Symbols(longer) /\ Symbols(longer)[name] = Symbols(log)[name]
  <2>1. PICK i : LastOf(log, name, i) /\ Symbols(log)[name] = log[i]
    BY <1>1, SymbolsAreLast
  <2>2. i \in DOMAIN longer /\ longer[i].name = name
    BY <1>2, <2>1 DEF LastOf
  <2>3. name \in DOMAIN Symbols(longer)
    BY <2>2 DEF Symbols
  <2>4. PICK k : LastOf(longer, name, k) /\ Symbols(longer)[name] = longer[k]
    BY <1>1, <2>3, SymbolsAreLast
  <2>5. k \in DOMAIN log
    BY <1>1, <2>4 DEF LastOf, Continues
  <2>6. k = i
    BY <1>1, <1>2, <2>1, <2>2, <2>4, <2>5 DEF LastOf
  <2> QED BY <1>2, <2>1, <2>3, <2>4, <2>5, <2>6
<1> QED BY <1>2, <1>3

LEMMA EvidenceKept ==
  ASSUME NEW log \in Logs, NEW longer \in Logs, Continues(log, longer),
         NEW e, IsDerivation(e), Consistent(e, Symbols(log))
  PROVE  /\ Consistent(e, Symbols(longer))
         /\ Evaluated(e, Symbols(longer)) = Evaluated(e, Symbols(log))
<1>1. Consistent(e, Symbols(longer))
  BY SymbolsKept DEF Consistent, Unlogged
<1> DEFINE Same(x) == ValueOf(x, Symbols(longer)) = ValueOf(x, Symbols(log))
<1>2. ASSUME NEW x \in Operands(e), Operand(x) PROVE Same(x)
  <2>1. CASE x.is = "const"
    BY <2>1 DEF ValueOf
  <2>2. CASE x.is = "name"
    BY <2>2, SymbolsKept DEF Consistent, Unlogged, ValueOf
  <2> QED BY <1>2, <2>1, <2>2 DEF Operand
<1>3. Same(e.a) /\ (e.op # "alone" => Same(e.b))
  BY <1>2 DEF IsDerivation, Operands
<1>4. Evaluated(e, Symbols(longer)) = Evaluated(e, Symbols(log))
  <2>1. CASE e.op = "alone"
    BY <1>3, <2>1 DEF Evaluated, Computed
  <2>2. CASE e.op # "alone"
    BY <1>3, <2>2 DEF Evaluated
  <2> QED BY <2>1, <2>2
<1> QED BY <1>1, <1>4

LEMMA NumberKept ==
  ASSUME NEW log \in Logs, NEW longer \in Logs, Continues(log, longer),
         NEW c, WellFormed(c), c.type = "number", NumberStatus(c, log) = "pass"
  PROVE  NumberStatus(c, longer) = "pass"
<1>1. CASE Printed(c.value, log)
  <2>1. Printed(c.value, longer)
    BY <1>1, SymbolsKept DEF Printed
  <2> QED BY <2>1 DEF NumberStatus
<1>2. CASE c.derivation = NoDerivation /\ Discovered(c.value, Symbols(log))
  <2>1. PICK e \in Discoverable(Symbols(log)) :
           Consistent(e, Symbols(log)) /\ Recomputes(e, c.value, Symbols(log))
    BY <1>2 DEF Discovered
  <2>2. Consistent(e, Symbols(longer)) /\ Recomputes(e, c.value, Symbols(longer))
    BY <2>1, EvidenceKept, ProposedAreDerivations DEF Recomputes
  <2>3. e \in Discoverable(Symbols(longer))
    BY <2>1, SymbolsKept DEF Discoverable
  <2>4. Discovered(c.value, Symbols(longer))
    BY <1>2, <2>2, <2>3 DEF Discovered
  <2> QED BY <1>2, <2>4 DEF NumberStatus
<1>3. CASE /\ c.derivation # NoDerivation /\ Consistent(c.derivation, Symbols(log))
           /\ Recomputes(c.derivation, c.value, Symbols(log))
  <2>1. /\ Consistent(c.derivation, Symbols(longer))
        /\ Recomputes(c.derivation, c.value, Symbols(longer))
    BY <1>3, EvidenceKept DEF Recomputes, WellFormed, IsDerivation
  <2> QED BY <1>3, <2>1 DEF NumberStatus
<1> QED BY <1>1, <1>2, <1>3 DEF NumberStatus

\* To print more, under new names, never takes a number's evidence away
\* (verify_number with parse_log_symbols and discover).
THEOREM LongerLogsProve == KernelSpec => []MoreLogNeverUnproves
<1>1. ASSUME VerdictInv, NEW i \in DOMAIN report, draft[i].type = "number",
             report[i] = "pass", NEW log \in Logs, Continues(run_log, log)
      PROVE  NumberStatus(draft[i], log) = "pass"
  BY <1>1, Ruled, NumberKept DEF Ruling, VerdictInv
<1>2. VerdictInv => MoreLogNeverUnproves
  BY <1>1 DEF MoreLogNeverUnproves, Continues
<1> QED BY <1>2, VerdictsAreRulings, PTL

-----------------------------------------------------------------------------
(* The registries decide *)

IsCitation(c) ==
    /\ c.arxiv \in {"none", "unrecognised", "held", "not_held"}
    /\ c.doi \in {"none", "unrecognised", "in_crossref", "in_datacite", "not_held"}
    /\ c.title \in {"none", "indexed", "not_indexed"}

\* What a source that answers makes of its part of the citation.
ArxivSays(c) == CASE c.arxiv = "held" -> "yes" [] c.arxiv = "not_held" -> "no" [] OTHER -> "unknown"
DoiSays(c) ==
    CASE c.doi \in {"in_crossref", "in_datacite"} -> "yes"
      [] c.doi \in {"not_held", "unrecognised"}   -> "no"
      [] OTHER                                    -> "unknown"
TitleSays(c) ==
    CASE c.title = "indexed" -> "yes" [] c.title = "not_indexed" -> "no" [] OTHER -> "unknown"

\* A DOI registry that does not hold what it was asked for, and said so.
DoiDenied ==
    \/ claim.doi \in {"in_datacite", "not_held"} /\ "crossref" \notin silent
    \/ claim.doi \in {"in_crossref", "not_held"} /\ "datacite" \notin silent

\* A layer says no only on the word of a registry, but for a DOI the code does
\* not recognise; with every question answered so far, each layer asked says
\* what its source says.  A DOI is not looked at when arXiv holds the citation.
ToldInv ==
    /\ layers \in [{"arxiv", "doi", "title"} -> {"yes", "no", "unknown"}]
    /\ lookup # "idle" => IsCitation(claim)
    /\ lookup = "arxiv" => layers["arxiv"] = "unknown"
    /\ lookup \in {"arxiv", "crossref", "datacite"} => layers["doi"] = "unknown"
    /\ lookup \in {"arxiv", "crossref", "datacite", "openalex"} => layers["title"] = "unknown"
    /\ lookup = "datacite" =>
          /\ claim.doi \notin {"none", "unrecognised"}
          /\ denied => claim.doi \in {"in_datacite", "not_held"} /\ "crossref" \notin silent
    /\ layers["arxiv"] = "no" => claim.arxiv = "not_held" /\ "arxiv" \notin silent
    /\ layers["doi"] = "no" => claim.doi = "unrecognised" \/ DoiDenied
    /\ lookup = "done" /\ claim.doi # "unrecognised" /\ verdict = "reject" => DenialHeard
    /\ silent = {} =>
          /\ lookup \notin {"arxiv", "idle"} => layers["arxiv"] = ArxivSays(claim)
          /\ lookup = "datacite" =>
                claim.arxiv # "held" /\ claim.doi \in {"in_datacite", "not_held"}
          /\ lookup \in {"openalex", "judge", "done"} =>
                layers["doi"] = IF claim.arxiv = "held" THEN "unknown" ELSE DoiSays(claim)
          /\ lookup \in {"judge", "done"} => layers["title"] = TitleSays(claim)
          /\ lookup = "done" /\ claim.doi # "unrecognised" => verdict \in Rule

LEMMA StatusByRule ==
  ASSUME ToldInv, silent = {}, lookup = "judge", claim.doi # "unrecognised",
         NEW irrelevant \in BOOLEAN
  PROVE  Status(irrelevant) \in Rule
<1>1. layers["arxiv"] = "yes" \/ layers["doi"] = "yes" \/ layers["title"] = "yes"
         <=> Exists
  BY DEF ToldInv, Exists
<1>2. (\A l \in DOMAIN layers : layers[l] = "unknown")
         <=> layers["arxiv"] = "unknown" /\ layers["doi"] = "unknown" /\ layers["title"] = "unknown"
  BY DEF ToldInv
<1>3. /\ layers["arxiv"] = ArxivSays(claim) /\ layers["title"] = TitleSays(claim)
      /\ layers["doi"] = IF claim.arxiv = "held" THEN "unknown" ELSE DoiSays(claim)
      /\ IsCitation(claim)
  BY DEF ToldInv
<1>4. CASE claim.arxiv = "held"
  BY <1>1, <1>3, <1>4 DEF ArxivSays, Status, Rule
<1>5. CASE claim.arxiv # "held" /\ claim.doi \in {"in_crossref", "in_datacite"}
  BY <1>1, <1>3, <1>5 DEF DoiSays, Status, Rule
<1>6. CASE claim.arxiv # "held" /\ claim.doi \notin {"in_crossref", "in_datacite"}
  BY <1>1, <1>2, <1>3, <1>6 DEF ArxivSays, DoiSays, TitleSays, IsCitation, Status, Rule
<1> QED BY <1>4, <1>5, <1>6

LEMMA RejectedIsDenied ==
  ASSUME ToldInv, claim.doi # "unrecognised", NEW irrelevant \in BOOLEAN,
         Status(irrelevant) = "reject"
  PROVE  DenialHeard
<1>1. layers["arxiv"] = "no" \/ layers["doi"] = "no"
  BY DEF Status
<1> QED BY <1>1 DEF ToldInv, DoiDenied, DenialHeard

LEMMA LookupTold == LayersTrue /\ ToldInv /\ Next => ToldInv'
<1> SUFFICES ASSUME LayersTrue, ToldInv, Next PROVE ToldInv'
  OBVIOUS
<1> USE DEF Skip, Found, Hears, IsCitation
<1>0. silent \subseteq Answered(lookup)
  BY DEF LayersTrue
<1>1. CASE CheckArxiv
  BY <1>0, <1>1 DEF CheckArxiv, ToldInv, ArxivSays, DoiDenied, Answered
<1>2. CASE CheckCrossref
  <2>1. layers["arxiv"] = "yes" <=> Exists
    BY <1>2 DEF CheckCrossref, ToldInv, Exists
  <2>2. CASE Exists \/ claim.doi = "none"
    BY <1>2, <2>1, <2>2 DEF CheckCrossref, ToldInv, ArxivSays, DoiSays, DoiDenied
  <2>3. CASE ~ Exists /\ claim.doi = "unrecognised"
    BY <1>2, <2>1, <2>3 DEF CheckCrossref, ToldInv, ArxivSays, DoiSays, DoiDenied
  <2>4. CASE ~ Exists /\ claim.doi \notin {"none", "unrecognised"}
    BY <1>0, <1>2, <2>1, <2>4
       DEF CheckCrossref, ToldInv, ArxivSays, DoiSays, DoiDenied, Answered
  <2> QED BY <2>2, <2>3, <2>4
<1>3. CASE CheckDatacite
  BY <1>0, <1>3 DEF CheckDatacite, ToldInv, ArxivSays, DoiSays, DoiDenied, Answered
<1>4. CASE MatchTitle
  BY <1>4 DEF MatchTitle, ToldInv, ArxivSays, DoiSays, TitleSays, DoiDenied
<1>5. ASSUME NEW irrelevant \in BOOLEAN, Judge(irrelevant) PROVE ToldInv'
  <2>1. claim.doi # "unrecognised" =>
           /\ silent = {} => Status(irrelevant) \in Rule
           /\ Status(irrelevant) = "reject" => DenialHeard
    BY <1>5, StatusByRule, RejectedIsDenied DEF Judge
  <2>2. Rule' = Rule /\ DenialHeard' = DenialHeard /\ DoiDenied' = DoiDenied
    BY <1>5 DEF Judge, Rule, DenialHeard, DoiDenied
  <2> QED BY <1>5, <2>1, <2>2 DEF Judge, ToldInv
<1>6. \A scorer, reply : Irrelevant(scorer, reply) \in BOOLEAN
  BY DEF Irrelevant
<1> QED BY <1>1, <1>2, <1>3, <1>4, <1>5, <1>6 DEF Next

LEMMA StepTold == LayersTrue /\ VerdictInv /\ ToldInv /\ [KernelNext]_kernelVars => ToldInv'
<1> SUFFICES ASSUME LayersTrue, VerdictInv, ToldInv, [KernelNext]_kernelVars PROVE ToldInv'
  OBVIOUS
<1>1. CASE VerifyCitation
  BY <1>1, LookupTold DEF VerifyCitation
<1>2. CASE EndCitation
  BY <1>2 DEF EndCitation, ToldInv, DoiDenied
<1>3. ASSUME NEW c \in Claims, BeginCitation(c) PROVE ToldInv'
  <2>1. IsCitation(c)
    <3>1. Len(draft) \in Nat /\ Len(report) \in Nat
      BY DraftFacts DEF VerdictInv
    <3>2. Len(report) + 1 \in 1 .. Len(draft) /\ c = draft[Len(report) + 1] /\ c.type = "citation"
      BY <1>3, <3>1 DEF BeginCitation, Turn
    <3>3. WellFormed(c)
      BY <3>2, DraftFacts DEF VerdictInv
    <3> QED BY <3>2, <3>3, CitationAssumption DEF WellFormed, IsCitation
  <2> QED BY <1>3, <2>1 DEF BeginCitation, ToldInv, IsCitation, DoiDenied
<1>4. CASE UNCHANGED vars
  BY <1>4 DEF vars, ToldInv, IsCitation, ArxivSays, DoiSays, TitleSays, Rule,
              DoiDenied, DenialHeard
<1> QED
  BY <1>1, <1>2, <1>3, <1>4
  DEF KernelNext, kernelVars, VerifyNumber, VerifyMechanism, VerifyDomain, VerifyFigure

\* When every source answers, the verdict on a citation is the one of the rule;
\* whichever are silent, a rejection has the denial of a registry behind it; a
\* DOI the code does not recognise is set apart (verify_citation, check_doi).
THEOREM VerdictsAreTold == KernelSpec => []RegistriesDecide
<1>1. KernelInit => ToldInv
  BY DEF KernelInit, ToldInv
<1>2. ToldInv => RegistriesDecide
  BY DEF ToldInv, RegistriesDecide
<1> QED
  BY <1>1, <1>2, StepTold, InitLayers, StepLayers, VerdictsAreRulings, PTL DEF KernelSpec

-----------------------------------------------------------------------------
(* The client of the registries, for any number of processes, URLs,        *)
(* attempts and failures.  An answer may come from a file another process  *)
(* wrote, so that what is answered is true rests on what is in the cache   *)
(* being true; that the counters stay within _BREAK rests on no request    *)
(* being made once the breaker is open.                                    *)

\* Every file holds the truth, or nothing that can be read.
CacheIsTrue == \A k \in Keys : cache[k] \in {"none", "partial", Content(k)}

\* Requests are only under way while the breaker is closed.
ClosedWhileAsking ==
    \A p \in Procs : call[p] # Idle => fails[p][ServiceOf[call[p].key]] < Break

ClientInv == TypeOK /\ CacheIsTrue /\ AnswersAreTrue /\ ClosedWhileAsking

Stored == {Idle} \union [pc : {"fetch", "store"}, key : Keys, attempt : 0 .. Retry]
Given == {Nothing} \union [src : Sources, key : Keys]

-----------------------------------------------------------------------------
LEMMA ContentIsVerdict == \A k \in Keys : Content(k) \in Verdicts
  BY DEF Content, Verdicts

\* A process that is not idle is working on a key.
LEMMA Busy ==
  ASSUME TypeOK, NEW p \in Procs, call[p] # Idle
  PROVE  /\ call[p].pc \in {"fetch", "store"} /\ call[p].key \in Keys
         /\ call[p].attempt \in 0 .. Retry /\ ServiceOf[call[p].key] \in Services
         /\ fails[p][ServiceOf[call[p].key]] \in 0 .. Break
  BY ApiAssumption DEF TypeOK

\* Only a process that is not idle has a pc other than idle.
LEMMA NotIdle ==
  ASSUME TypeOK, NEW p \in Procs, call[p].pc \in {"fetch", "store"}
  PROVE  call[p] # Idle
  BY DEF Idle

\* The typing of what the parts of a step write.
LEMMA AnswerTypes ==
  ASSUME TypeOK, NEW p \in Procs, NEW k \in Keys, NEW src \in Sources,
         Answer(p, k, src)
  PROVE  /\ call' \in [Procs -> Stored]
         /\ answered' \in [Procs -> Given]
         /\ call' = [call EXCEPT ![p] = Idle]
         /\ answered' = [answered EXCEPT ![p] = [src |-> src, key |-> k]]
  <1> DEFINE ans == [src |-> src, key |-> k]
  <1>1. ans \in Given
    BY DEF Given
  <1> HIDE DEF ans
  <1>2. answered \in [Procs -> Given] /\ call \in [Procs -> Stored]
    BY DEF TypeOK, Given, Stored
  <1>3. answered' = [answered EXCEPT ![p] = ans]
    BY DEF Answer, ans
  <1>4. call' = [call EXCEPT ![p] = Idle]
    BY DEF Answer
  <1>5. answered' \in [Procs -> Given]
    BY <1>1, <1>2, <1>3
  <1>6. call' \in [Procs -> Stored]
    BY <1>2, <1>4 DEF Stored
  <1> QED BY <1>3, <1>4, <1>5, <1>6 DEF ans

LEMMA FailsTypes ==
  ASSUME TypeOK, NEW p \in Procs, NEW k \in Keys, NEW n \in 0 .. Break,
         SetFails(p, k, n)
  PROVE  /\ fails' \in [Procs -> [Services -> 0 .. Break]]
         /\ \A q \in Procs : q # p => fails'[q] = fails[q]
         /\ fails'[p][ServiceOf[k]] = n
         /\ \A s \in Services : s # ServiceOf[k] => fails'[p][s] = fails[p][s]
  <1>1. ServiceOf[k] \in Services
    BY ApiAssumption
  <1>2. fails \in [Procs -> [Services -> 0 .. Break]]
    BY DEF TypeOK
  <1> QED BY <1>1, <1>2 DEF SetFails

\* An answer that is true, or says nothing of the registry, leaves every
\* answer true.
LEMMA Answering ==
  ASSUME TypeOK, AnswersAreTrue, NEW p \in Procs, NEW k \in Keys,
         NEW src \in Sources, src \in Verdicts => src = Content(k),
         Answer(p, k, src)
  PROVE  AnswersAreTrue'
  <1>1. answered' = [answered EXCEPT ![p] = [src |-> src, key |-> k]]
    BY DEF Answer
  <1>2. answered \in [Procs -> Given]
    BY DEF TypeOK, Given
  <1>3. SUFFICES ASSUME NEW q \in Procs, answered'[q].src \in Verdicts
                 PROVE  answered'[q].src = Content(answered'[q].key)
    BY DEF AnswersAreTrue, Content
  <1>4. CASE q = p
    BY <1>1, <1>2, <1>3, <1>4
  <1>5. CASE q # p
    BY <1>1, <1>2, <1>3, <1>5 DEF AnswersAreTrue
  <1> QED BY <1>4, <1>5

\* Trying again or giving up: the counter stays within _BREAK, and below it
\* while there is another attempt.
LEMMA GivingUp ==
  ASSUME ClientInv, NEW p \in Procs, call[p] # Idle, NEW w \in BOOLEAN,
         GiveUpOrRetry(p, fails[p][ServiceOf[call[p].key]], w)
  PROVE  /\ call' \in [Procs -> Stored]
         /\ answered' \in [Procs -> Given]
         /\ fails' \in [Procs -> [Services -> 0 .. Break]]
         /\ AnswersAreTrue' /\ ClosedWhileAsking'
  <1> DEFINE k == call[p].key
             n == fails[p][ServiceOf[k]]
             m == call[p].attempt + 1
  <1>1. /\ k \in Keys /\ call[p].attempt \in 0 .. Retry
        /\ n \in 0 .. Break /\ n < Break
    BY Busy DEF ClientInv, ClosedWhileAsking
  <1>2. n \in 0 .. Break /\ n + 1 \in 0 .. Break
    BY <1>1, ApiAssumption
  <1>3. TypeOK /\ AnswersAreTrue /\ ClosedWhileAsking
    BY DEF ClientInv
  <1>4. CASE w /\ call[p].attempt < Retry
    <2>1. m \in 0 .. Retry
      BY <1>1, <1>4, ApiAssumption
    <2>2. call' = [call EXCEPT ![p] = Fetching(k, m)] /\ SetFails(p, k, n)
          /\ UNCHANGED answered
      BY <1>4 DEF GiveUpOrRetry
    <2> HIDE DEF k, n, m
    <2>3. Fetching(k, m) \in Stored /\ Fetching(k, m).key = k
      BY <1>1, <2>1 DEF Fetching, Stored
    <2>4. call \in [Procs -> Stored] /\ answered \in [Procs -> Given]
      BY <1>3 DEF TypeOK, Stored, Given
    <2>5. call' \in [Procs -> Stored] /\ answered' \in [Procs -> Given]
      BY <2>2, <2>3, <2>4
    <2>6. /\ fails' \in [Procs -> [Services -> 0 .. Break]]
          /\ \A q \in Procs : q # p => fails'[q] = fails[q]
          /\ fails'[p][ServiceOf[k]] = n
      BY <1>1, <1>2, <1>3, <2>2, FailsTypes
    <2>7. AnswersAreTrue'
      BY <1>3, <2>2 DEF AnswersAreTrue, Content
    <2>8. ClosedWhileAsking'
      <3> SUFFICES ASSUME NEW q \in Procs, call'[q] # Idle
                   PROVE  fails'[q][ServiceOf[call'[q].key]] < Break
        BY DEF ClosedWhileAsking
      <3>1. CASE q = p
        BY <1>1, <2>2, <2>3, <2>4, <2>6, <3>1
      <3>2. CASE q # p
        BY <1>3, <2>2, <2>4, <2>6, <3>2 DEF ClosedWhileAsking
      <3> QED BY <3>1, <3>2
    <2> QED BY <2>5, <2>6, <2>7, <2>8
  <1>5. CASE ~ (w /\ call[p].attempt < Retry)
    <2>1. Answer(p, k, "unknown") /\ SetFails(p, k, n + 1)
      BY <1>5 DEF GiveUpOrRetry
    <2> DEFINE m1 == n + 1
    <2>2. m1 \in 0 .. Break /\ SetFails(p, k, m1)
      BY <1>2, <2>1
    <2> HIDE DEF k, n, m1
    <2>3. "unknown" \in Sources /\ "unknown" \notin Verdicts
      BY DEF Sources, Verdicts
    <2>4. /\ call' \in [Procs -> Stored] /\ answered' \in [Procs -> Given]
          /\ call' = [call EXCEPT ![p] = Idle]
      BY <1>1, <1>3, <2>1, <2>3, AnswerTypes
    <2>5. /\ fails' \in [Procs -> [Services -> 0 .. Break]]
          /\ \A q \in Procs : q # p => fails'[q] = fails[q]
      BY <1>1, <1>3, <2>2, FailsTypes
    <2>6. AnswersAreTrue'
      BY <1>1, <1>3, <2>1, <2>3, Answering
    <2>7. ClosedWhileAsking'
      BY <1>3, <2>4, <2>5 DEF ClosedWhileAsking, TypeOK
    <2> QED BY <2>4, <2>5, <2>6, <2>7
  <1> QED BY <1>4, <1>5

-----------------------------------------------------------------------------
LEMMA ClientInitInv == ClientInit => ClientInv
  BY ApiAssumption
  DEF ClientInit, ClientInv, TypeOK, CacheIsTrue, AnswersAreTrue, ClosedWhileAsking,
      Nothing, Idle, Verdicts

LEMMA AskClientInv ==
  ASSUME ClientInv, NEW p \in Procs, NEW k \in Keys, Ask(p, k)
  PROVE  ClientInv'
  <1>1. TypeOK /\ AnswersAreTrue /\ ClosedWhileAsking /\ CacheIsTrue
    BY DEF ClientInv
  <1>2. UNCHANGED <<cache, fails, mishaps>> /\ call[p] = Idle
    BY DEF Ask
  <1>3. CacheIsTrue'
    BY <1>1, <1>2 DEF CacheIsTrue, Content
  <1>4. ASSUME NEW src \in Sources, src \in Verdicts => src = Content(k),
               Answer(p, k, src)
        PROVE  ClientInv'
    <2>1. /\ call' \in [Procs -> Stored] /\ answered' \in [Procs -> Given]
          /\ call' = [call EXCEPT ![p] = Idle]
      BY <1>1, <1>4, AnswerTypes
    <2>2. TypeOK'
      BY <1>1, <1>2, <2>1 DEF TypeOK, Stored, Given
    <2>3. AnswersAreTrue'
      BY <1>1, <1>4, Answering
    <2>4. ClosedWhileAsking'
      BY <1>1, <1>2, <2>1 DEF ClosedWhileAsking, TypeOK
    <2> QED BY <1>3, <2>2, <2>3, <2>4 DEF ClientInv
  <1>5. CASE fails[p][ServiceOf[k]] >= Break \/ cache[k] # "none"
    <2>1. \/ Answer(p, k, "circuit_open") \/ Answer(p, k, "raised")
          \/ Answer(p, k, cache[k]) /\ cache[k] # "partial" /\ cache[k] # "none"
      BY <1>5 DEF Ask
    <2>2. /\ {"circuit_open", "raised"} \subseteq Sources
          /\ "circuit_open" \notin Verdicts /\ "raised" \notin Verdicts
          /\ Content(k) \in Sources
      BY ContentIsVerdict DEF Sources, Verdicts
    <2>3. cache[k] # "partial" /\ cache[k] # "none" => cache[k] = Content(k)
      BY <1>1 DEF CacheIsTrue
    <2> QED BY <1>4, <2>1, <2>2, <2>3
  <1>6. CASE fails[p][ServiceOf[k]] < Break /\ cache[k] = "none"
    <2>1. call' = [call EXCEPT ![p] = Fetching(k, 0)] /\ UNCHANGED answered
      BY <1>1, <1>6, ApiAssumption DEF Ask, TypeOK
    <2>2. Fetching(k, 0) \in Stored /\ Fetching(k, 0).key = k
      BY ApiAssumption DEF Fetching, Stored
    <2>3. TypeOK'
      BY <1>1, <1>2, <2>1, <2>2 DEF TypeOK, Stored
    <2>4. AnswersAreTrue'
      BY <1>1, <2>1 DEF AnswersAreTrue, Content
    <2>5. ClosedWhileAsking'
      BY <1>1, <1>2, <1>6, <2>1, <2>2 DEF ClosedWhileAsking, TypeOK
    <2> QED BY <1>3, <2>3, <2>4, <2>5 DEF ClientInv
  <1>7. fails[p][ServiceOf[k]] >= Break \/ fails[p][ServiceOf[k]] < Break
    BY <1>1, ApiAssumption DEF TypeOK
  <1> QED BY <1>5, <1>6, <1>7

LEMMA ResponseClientInv ==
  ASSUME ClientInv, NEW p \in Procs, Response(p)
  PROVE  ClientInv'
  <1> DEFINE k == call[p].key
             c == [call[p] EXCEPT !.pc = "store"]
  <1>1. TypeOK /\ AnswersAreTrue /\ ClosedWhileAsking /\ CacheIsTrue
    BY DEF ClientInv
  <1>2. call[p] # Idle
    BY <1>1, NotIdle DEF Response
  <1>3. k \in Keys /\ call[p].attempt \in 0 .. Retry
    BY <1>1, <1>2, Busy
  <1>4. c \in Stored /\ c.key = k
    BY <1>1, <1>2, <1>3 DEF TypeOK, Stored
  <1>5. /\ call' = [call EXCEPT ![p] = c] /\ SetFails(p, k, 0)
        /\ cache' = [cache EXCEPT ![k] = "partial"]
        /\ UNCHANGED <<answered, mishaps>>
    BY DEF Response
  <1> HIDE DEF c
  <1>6. /\ fails' \in [Procs -> [Services -> 0 .. Break]]
        /\ \A q \in Procs : q # p => fails'[q] = fails[q]
        /\ fails'[p][ServiceOf[k]] = 0
    <2>1. 0 \in 0 .. Break
      BY ApiAssumption
    <2> HIDE DEF k
    <2> QED BY <1>1, <1>3, <1>5, <2>1, FailsTypes
  <1> HIDE DEF k
  <1>7. TypeOK'
    BY <1>1, <1>3, <1>4, <1>5, <1>6 DEF TypeOK, Stored
  <1>8. CacheIsTrue'
    BY <1>1, <1>3, <1>5 DEF CacheIsTrue, TypeOK, Content
  <1>9. AnswersAreTrue'
    BY <1>1, <1>5 DEF AnswersAreTrue, Content
  <1>10. ClosedWhileAsking'
    BY <1>1, <1>4, <1>5, <1>6, ApiAssumption DEF ClosedWhileAsking, TypeOK
  <1> QED BY <1>7, <1>8, <1>9, <1>10 DEF ClientInv

LEMMA AttemptFailsClientInv ==
  ASSUME ClientInv, NEW p \in Procs, NEW w \in BOOLEAN, AttemptFails(p, w)
  PROVE  ClientInv'
  <1>1. TypeOK /\ CacheIsTrue /\ call[p] # Idle
    BY NotIdle DEF ClientInv, AttemptFails
  <1>2. /\ call' \in [Procs -> Stored] /\ answered' \in [Procs -> Given]
        /\ fails' \in [Procs -> [Services -> 0 .. Break]]
        /\ AnswersAreTrue' /\ ClosedWhileAsking'
    BY <1>1, GivingUp DEF AttemptFails
  <1>3. UNCHANGED <<cache, mishaps>>
    BY DEF AttemptFails
  <1> QED BY <1>1, <1>2, <1>3
          DEF ClientInv, TypeOK, CacheIsTrue, Content, Stored, Given

\* What a finished process leaves behind: the others are as they were.
LEMMA Finishing ==
  ASSUME ClientInv, NEW p \in Procs, NEW k \in Keys, NEW src \in Sources,
         src \in Verdicts => src = Content(k), Answer(p, k, src), UNCHANGED fails
  PROVE  /\ call' \in [Procs -> Stored] /\ answered' \in [Procs -> Given]
         /\ fails' \in [Procs -> [Services -> 0 .. Break]]
         /\ AnswersAreTrue' /\ ClosedWhileAsking'
  <1>1. TypeOK /\ AnswersAreTrue /\ ClosedWhileAsking
    BY DEF ClientInv
  <1>2. /\ call' \in [Procs -> Stored] /\ answered' \in [Procs -> Given]
        /\ call' = [call EXCEPT ![p] = Idle]
    BY <1>1, AnswerTypes
  <1>3. AnswersAreTrue'
    BY <1>1, Answering
  <1>4. ClosedWhileAsking'
    BY <1>1, <1>2 DEF ClosedWhileAsking, TypeOK
  <1> QED BY <1>1, <1>2, <1>3, <1>4 DEF TypeOK

LEMMA StoreClientInv ==
  ASSUME ClientInv, NEW p \in Procs, Store(p)
  PROVE  ClientInv'
  <1>1. TypeOK /\ CacheIsTrue /\ call[p] # Idle /\ call[p].key \in Keys
    BY NotIdle, Busy DEF ClientInv, Store
  <1>2. Content(call[p].key) \in Verdicts /\ Content(call[p].key) \in Sources
    BY <1>1, ContentIsVerdict DEF Sources
  <1>3. /\ call' \in [Procs -> Stored] /\ answered' \in [Procs -> Given]
        /\ fails' \in [Procs -> [Services -> 0 .. Break]]
        /\ AnswersAreTrue' /\ ClosedWhileAsking'
    BY <1>1, <1>2, Finishing DEF Store
  <1>4. cache' = [cache EXCEPT ![call[p].key] = Content(call[p].key)]
        /\ UNCHANGED mishaps
    BY DEF Store
  <1>5. CacheIsTrue'
    BY <1>1, <1>4 DEF CacheIsTrue, TypeOK, Content
  <1>6. TypeOK'
    BY <1>1, <1>2, <1>3, <1>4 DEF TypeOK, Stored, Given
  <1> QED BY <1>3, <1>5, <1>6 DEF ClientInv

LEMMA StoreFailsClientInv ==
  ASSUME ClientInv, NEW p \in Procs, StoreFails(p)
  PROVE  ClientInv'
  <1>1. TypeOK /\ CacheIsTrue /\ call[p] # Idle /\ call[p].key \in Keys
    BY NotIdle, Busy DEF ClientInv, StoreFails
  <1>2. /\ call' \in [Procs -> Stored] /\ answered' \in [Procs -> Given]
        /\ fails' \in [Procs -> [Services -> 0 .. Break]]
        /\ AnswersAreTrue' /\ ClosedWhileAsking'
    <2>1. CASE call[p].key \in Denied
      <3>1. "raised" \in Sources /\ "raised" \notin Verdicts
        BY DEF Sources, Verdicts
      <3> QED BY <1>1, <2>1, <3>1, Finishing DEF StoreFails
    <2>2. CASE call[p].key \notin Denied
      BY <1>1, <2>2, GivingUp DEF StoreFails
    <2> QED BY <2>1, <2>2
  <1>3. UNCHANGED cache /\ mishaps' \in [{"deaths", "disk"} -> Nat]
    <2> DEFINE n == mishaps.disk + 1
    <2>1. n \in Nat /\ mishaps' = [mishaps EXCEPT !.disk = n] /\ UNCHANGED cache
      BY <1>1 DEF StoreFails, TypeOK
    <2> HIDE DEF n
    <2> QED BY <1>1, <2>1 DEF TypeOK
  <1> QED BY <1>1, <1>2, <1>3
          DEF ClientInv, TypeOK, CacheIsTrue, Content, Stored, Given

LEMMA DieClientInv ==
  ASSUME ClientInv, NEW p \in Procs, Die(p)
  PROVE  ClientInv'
  <1>1. TypeOK /\ CacheIsTrue /\ AnswersAreTrue /\ ClosedWhileAsking
    BY DEF ClientInv
  <1>2. UNCHANGED cache /\ mishaps' \in [{"deaths", "disk"} -> Nat]
    <2> DEFINE n == mishaps.deaths + 1
    <2>1. n \in Nat /\ mishaps' = [mishaps EXCEPT !.deaths = n] /\ UNCHANGED cache
      BY <1>1 DEF Die, TypeOK
    <2> HIDE DEF n
    <2> QED BY <1>1, <2>1 DEF TypeOK
  <1>3. /\ call' = [call EXCEPT ![p] = Idle]
        /\ answered' = [answered EXCEPT ![p] = Nothing]
        /\ fails' = [fails EXCEPT ![p] = [s \in Services |-> 0]]
    BY DEF Die
  <1>4. TypeOK'
    BY <1>1, <1>2, <1>3, ApiAssumption DEF TypeOK
  <1>5. AnswersAreTrue'
    BY <1>1, <1>3 DEF AnswersAreTrue, TypeOK, Content, Nothing, Verdicts
  <1>6. ClosedWhileAsking'
    BY <1>1, <1>3 DEF ClosedWhileAsking, TypeOK
  <1> QED BY <1>1, <1>2, <1>4, <1>5, <1>6 DEF ClientInv, CacheIsTrue, Content

LEMMA ClientNextInv == ClientInv /\ [ClientNext]_clientVars => ClientInv'
  <1> SUFFICES ASSUME ClientInv, [ClientNext]_clientVars PROVE ClientInv'
    OBVIOUS
  <1>1. CASE UNCHANGED clientVars
    BY <1>1
    DEF clientVars, ClientInv, TypeOK, CacheIsTrue, AnswersAreTrue, ClosedWhileAsking, Content
  <1>2. CASE ClientNext
    BY <1>2, AskClientInv, ResponseClientInv, AttemptFailsClientInv, StoreClientInv, StoreFailsClientInv,
       DieClientInv
    DEF ClientNext, Network
  <1> QED BY <1>1, <1>2

-----------------------------------------------------------------------------
\* The counters stay within _BREAK and the files, calls and answers have the
\* form the code gives them.
THEOREM ApiTypeCorrect == ClientSpec => []TypeOK
  BY ClientInitInv, ClientNextInv, PTL DEF ClientSpec, ClientInv

\* Whatever the number of processes that share the cache, and wherever they
\* die, a denial is only reported of what the registry denies and content only
\* of what it has (apis.py:181-231).
THEOREM DenialsAreTrue == ClientSpec => []AnswersAreTrue
  BY ClientInitInv, ClientNextInv, PTL DEF ClientSpec, ClientInv

-----------------------------------------------------------------------------
(* The breaker *)

\* What OneFailurePerCall says of one counter.
Counted(p, s) ==
    fails'[p][s] > fails[p][s] =>
        /\ fails'[p][s] = fails[p][s] + 1
        /\ call[p] # Idle /\ call'[p] = Idle /\ answered'[p].src = "unknown"

\* A counter that does not move, or is set to 0, is counted right.
LEMMA Lowered ==
  ASSUME TypeOK, NEW p \in Procs,
         NEW s \in Services, fails'[p][s] = fails[p][s] \/ fails'[p][s] = 0
  PROVE  Counted(p, s)
  <1>1. fails[p][s] \in 0 .. Break
    BY DEF TypeOK
  <1>2. ~ (fails'[p][s] > fails[p][s])
    BY <1>1, ApiAssumption
  <1> QED BY <1>2 DEF Counted

\* Another attempt leaves the counter where it is; giving up adds one.
LEMMA GivingUpCounts ==
  ASSUME ClientInv, NEW p \in Procs, call[p] # Idle, NEW w \in BOOLEAN,
         GiveUpOrRetry(p, fails[p][ServiceOf[call[p].key]], w),
         NEW q \in Procs, NEW s \in Services
  PROVE  Counted(q, s)
  <1> DEFINE k == call[p].key
             n == fails[p][ServiceOf[k]]
  <1>1. TypeOK /\ k \in Keys /\ n \in 0 .. Break /\ n < Break
    BY Busy DEF ClientInv, ClosedWhileAsking
  <1>2. n \in 0 .. Break /\ n + 1 \in 0 .. Break
    BY <1>1, ApiAssumption
  <1>3. CASE w /\ call[p].attempt < Retry
    <2>1. SetFails(p, k, n)
      BY <1>3 DEF GiveUpOrRetry
    <2>2. fails'[q][s] = fails[q][s]
      <3> HIDE DEF k
      <3> QED BY <1>1, <1>2, <2>1, FailsTypes
    <2> QED BY <1>1, <2>2, Lowered
  <1>4. CASE ~ (w /\ call[p].attempt < Retry)
    <2>1. Answer(p, k, "unknown") /\ SetFails(p, k, n + 1)
      BY <1>4 DEF GiveUpOrRetry
    <2>2. call'[p] = Idle /\ answered'[p].src = "unknown"
      BY <1>1, <2>1 DEF Answer, TypeOK
    <2> DEFINE m == n + 1
    <2>3. m \in 0 .. Break /\ SetFails(p, k, m)
      BY <1>2, <2>1
    <2>4. /\ q # p => fails'[q] = fails[q]
          /\ fails'[p][ServiceOf[k]] = m
          /\ s # ServiceOf[k] => fails'[p][s] = fails[p][s]
      <3> HIDE DEF k, m
      <3> QED BY <1>1, <2>3, FailsTypes
    <2>5. CASE q = p /\ s = ServiceOf[k]
      BY <2>2, <2>4, <2>5 DEF Counted
    <2>6. CASE q # p \/ s # ServiceOf[k]
      BY <1>1, <2>4, <2>6, Lowered
    <2> QED BY <2>5, <2>6
  <1> QED BY <1>3, <1>4

LEMMA StepCounts ==
  ASSUME ClientInv, ClientNext, NEW q \in Procs, NEW s \in Services
  PROVE  Counted(q, s)
  <1>1. TypeOK
    BY DEF ClientInv
  <1>2. CASE UNCHANGED fails
    BY <1>1, <1>2, Lowered
  <1>3. ASSUME NEW p \in Procs, Response(p) PROVE Counted(q, s)
    <2>1. call[p].key \in Keys
      BY <1>1, <1>3, NotIdle, Busy DEF Response
    <2>2. 0 \in 0 .. Break /\ SetFails(p, call[p].key, 0)
      BY <1>3, ApiAssumption DEF Response
    <2>3. fails'[q][s] = fails[q][s] \/ fails'[q][s] = 0
      BY <1>1, <2>1, <2>2, FailsTypes
    <2> QED BY <1>1, <2>3, Lowered
  <1>4. ASSUME NEW p \in Procs, NEW w \in BOOLEAN, AttemptFails(p, w)
        PROVE  Counted(q, s)
    BY <1>1, <1>4, NotIdle, GivingUpCounts DEF AttemptFails
  <1>5. ASSUME NEW p \in Procs, StoreFails(p) PROVE Counted(q, s)
    BY <1>1, <1>2, <1>5, NotIdle, GivingUpCounts DEF StoreFails
  <1>6. ASSUME NEW p \in Procs, Die(p) PROVE Counted(q, s)
    <2>1. fails'[q][s] = fails[q][s] \/ fails'[q][s] = 0
      BY <1>1, <1>6 DEF Die, TypeOK
    <2> QED BY <1>1, <2>1, Lowered
  <1> QED BY <1>2, <1>3, <1>4, <1>5, <1>6 DEF ClientNext, Network, Ask, Store

\* A call brings the breaker closer by one, however many attempts it took, and
\* only when it ends without an answer (apis.py:209-211 and 226-229).
THEOREM OneFailure == ClientSpec => OneFailurePerCall
  <1>1. ClientInv /\ [ClientNext]_clientVars =>
           [\A p \in Procs, s \in Services : Counted(p, s)]_clientVars
    BY StepCounts
  <1> QED BY <1>1, ClientInitInv, ClientNextInv, PTL DEF ClientSpec, OneFailurePerCall, Counted
=============================================================================
