-------------------------- MODULE GenerationProofs --------------------------
(***************************************************************************)
(* Theorems about one generation: what the sandbox leaves and reports,     *)
(* where the papers come from, the budget for exploration and the types.   *)
(* Every invariant concerns one part of the state and the few steps that   *)
(* touch it.                                                               *)
(***************************************************************************)
EXTENDS Generation, FiniteSetTheorems, TLAPS

-----------------------------------------------------------------------------
(* The sandbox *)

\* The sandbox from its first step to its last: the program is not started
\* before it runs, it runs under what the host grants, and past its end it is
\* gone, with its directory once the sandbox is left.
InForce == IF box.host.windows THEN {} ELSE Granted(box.host)

BoxInv ==
    box # NoBox =>
        /\ box \in Boxes
        /\ box.at = "jailed" => ~ box.spawned /\ box.inForce = {}
        /\ Local =>
              /\ box.at = "running" => box.inForce = InForce
              /\ box.at = "ended" => ~ box.spawned /\ box.inForce = InForce
              /\ box.at \in {"left", "raised"} => ~ box.jail /\ ~ box.spawned
              /\ box.at = "left" => Limits \ box.inForce \subseteq box.unavailable

LEMMA BoxStepInv == BoxInv /\ BoxStep => BoxInv'
<1> SUFFICES ASSUME BoxInv, BoxStep PROVE BoxInv'
  OBVIOUS
<1> USE SandboxAssumption
<1>1. CASE EnterBox
  BY <1>1 DEF EnterBox, BoxInv, Boxes, Local, Outcomes
<1>2. CASE box # NoBox /\ WriteFails
  BY <1>2 DEF WriteFails, BoxInv, Boxes, Local
<1>3. CASE box # NoBox /\ Launch
  <2>1. box \in Boxes /\ Local /\ box.at = "jailed" /\ ~ box.spawned /\ box.inForce = {}
    BY <1>3 DEF Launch, BoxInv
  <2>2. CASE box.host.windows
    BY <1>3, <2>1, <2>2 DEF Launch, BoxInv, Boxes, Local, InForce
  <2>3. CASE ~ box.host.windows /\ \E l \in Limits : box.host.limit[l] = "unknown"
    BY <1>3, <2>1, <2>3 DEF Launch, BoxInv, Boxes, Local
  <2>4. CASE ~ box.host.windows /\ ~ \E l \in Limits : box.host.limit[l] = "unknown"
    <3>1. box' = [box EXCEPT !.at = "running", !.spawned = TRUE, !.inForce = Granted(box.host)]
      BY <1>3, <2>4 DEF Launch
    <3>2. Granted(box.host) \in SUBSET Limits
      BY DEF Granted
    <3> QED BY <2>1, <2>4, <3>1, <3>2 DEF BoxInv, Boxes, Local, InForce
  <2> QED BY <2>2, <2>3, <2>4
<1>4. CASE box # NoBox /\ LaunchContainer
  BY <1>4 DEF LaunchContainer, BoxInv, Boxes, Local, Outcomes
<1>5. CASE box # NoBox /\ Exits
  <2>1. box \in Boxes /\ box.at = "running" /\ (Local => box.inForce = InForce)
    BY <1>5 DEF Exits, BoxInv
  <2>2. PICK outcome \in {"printed", "silent", "exit", "timeout"} :
          box' = IF Local
                 THEN [box EXCEPT !.at = "ended", !.spawned = FALSE, !.outcome = outcome]
                 ELSE [box EXCEPT !.at = "left", !.jail = FALSE,
                                  !.spawned = (outcome = "timeout"),
                                  !.outcome = IF outcome = "timeout" THEN "container_error"
                                              ELSE outcome]
    BY <1>5 DEF Exits
  <2>3. CASE Local
    BY <2>1, <2>2, <2>3 DEF BoxInv, Boxes, Local, InForce, Outcomes
  <2>4. CASE ~ Local
    <3>1. box'.at = "left" /\ box'.host = box.host /\ box' \in Boxes
      BY <2>1, <2>2, <2>4 DEF Boxes, Outcomes
    <3> QED BY <2>4, <3>1 DEF BoxInv, Local
  <2> QED BY <2>3, <2>4
<1>6. CASE box # NoBox /\ Probe
  BY <1>6 DEF Probe, BoxInv, Boxes, Local, InForce, Granted
<1>7. box = NoBox => ~ (WriteFails \/ Launch \/ LaunchContainer \/ Exits \/ Probe)
  BY DEF NoBox, WriteFails, Launch, LaunchContainer, Exits, Probe
<1> QED BY <1>1, <1>2, <1>3, <1>4, <1>5, <1>6, <1>7 DEF BoxStep

LEMMA BoxInvStep == BoxInv /\ [Next]_vars => BoxInv'
<1> SUFFICES ASSUME BoxInv, [Next]_vars PROVE BoxInv'
  OBVIOUS
<1>1. CASE Experiment
  BY <1>1, BoxStepInv DEF Experiment
<1>2. CASE ExperimentEnds
  BY <1>2 DEF ExperimentEnds, BoxInv
<1>3. CASE UNCHANGED box
  BY <1>3 DEF BoxInv, Local, InForce
<1> QED
  BY <1>1, <1>2, <1>3
  DEF Next, Step, vars, Generate, Finds, FindsNothing, FetchFails, FindsGarbage, Hypothesize,
      GuardRaises, NoModel, AskModel, SpecFails, SpecAnswers, Report

LEMMA BoxAlways == Spec => []BoxInv
<1>1. Init => BoxInv
  BY DEF Init, BoxInv
<1> QED BY <1>1, BoxInvStep, PTL DEF Spec

\* The result of the local sandbox names every limit the program ran without,
\* on every host, for any set of limits and whatever becomes of the probe
\* (LocalSandbox._preexec and unsupported_limits, two separate attempts).
THEOREM LimitsReported == Spec => []UnsetIsReported
<1>1. BoxInv => UnsetIsReported
  BY DEF BoxInv, UnsetIsReported, Local
<1> QED BY <1>1, BoxAlways, PTL

\* Neither directory nor program outlives the local sandbox (the finally of
\* LocalSandbox.run, and the child subprocess.run kills).
THEOREM JailIsRemoved == Spec => []NothingLeftBehind
<1>1. BoxInv => NothingLeftBehind
  BY DEF BoxInv, NothingLeftBehind, Local
<1> QED BY <1>1, BoxAlways, PTL

-----------------------------------------------------------------------------
(* The search and the budget *)

\* The rungs asked before the one in turn have given nothing, the one in turn
\* exists, and the papers found come with their rung.
SearchInv ==
    /\ gen.papers \subseteq Papers
    /\ gen.at = "literature" =>
          /\ search.ladder \in Seq({"phrases", "heads", "loose"})
          /\ search.asked \in Seq({"empty", "failed"})
          /\ Len(search.asked) < Len(search.ladder)
          /\ gen.papers = {}
    /\ MatchIsFirstHit

LEMMA LaddersEnd == \A l \in Ladders : l \in Seq({"phrases", "heads", "loose"}) /\ Len(l) > 0
<1> DEFINE S == Seq({"phrases", "heads", "loose"})
<1>1. <<"loose">> \in S /\ Len(<<"loose">>) = 1
  OBVIOUS
<1>2. <<"phrases", "loose">> \in S /\ Len(<<"phrases", "loose">>) = 2
  OBVIOUS
<1>3. <<"phrases", "heads", "loose">> \in S /\ Len(<<"phrases", "heads", "loose">>) = 3
  OBVIOUS
<1>4. \A l \in Ladders : l \in {<<"loose">>, <<"phrases", "loose">>,
                                 <<"phrases", "heads", "loose">>}
  BY DEF Ladders, Ladder
<1>5. ASSUME NEW l \in Ladders PROVE l \in S /\ Len(l) \in {1, 2, 3}
  <2> HIDE DEF S
  <2>1. CASE l = <<"loose">>
    BY <1>1, <2>1
  <2>2. CASE l = <<"phrases", "loose">>
    BY <1>2, <2>2
  <2>3. CASE l = <<"phrases", "heads", "loose">>
    BY <1>3, <2>3
  <2> QED BY <1>4, <2>1, <2>2, <2>3
<1> QED BY <1>5

LEMMA SearchStep == SearchInv /\ [Next]_vars => SearchInv'
<1> SUFFICES ASSUME SearchInv, [Next]_vars PROVE SearchInv'
  OBVIOUS
<1> USE GenerationAssumption
<1>1. ASSUME NEW guard \in BOOLEAN, NEW ladder \in Ladders, Generate(guard, ladder)
      PROVE  SearchInv'
  <2>1. ladder \in Seq({"phrases", "heads", "loose"}) /\ Len(ladder) > 0
    BY LaddersEnd
  <2>2. search'.ladder = ladder /\ search'.asked = <<>> /\ gen'.at = "literature"
        /\ gen'.papers = {}
    BY <1>1 DEF Generate, NoSearch, Blank
  <2> QED BY <2>1, <2>2 DEF SearchInv, MatchIsFirstHit
<1>2. ASSUME NEW how \in {"empty", "failed"}, gen.at = "literature", Miss(how)
      PROVE  SearchInv'
  <2>1. /\ search'.ladder = search.ladder /\ search'.asked = Append(search.asked, how)
        /\ gen'.papers = {} /\ gen'.at \in {"literature", "hypothesize"}
        /\ gen'.at = "literature" => Len(search.asked) + 1 < Len(search.ladder)
    BY <1>2 DEF Miss, SearchInv
  <2> QED BY <1>2, <2>1 DEF SearchInv, MatchIsFirstHit
<1>3. ASSUME NEW found \in SUBSET Papers, Finds(found) PROVE SearchInv'
  <2> DEFINE k == Len(search.asked) + 1
  <2>1. /\ search'.ladder = search.ladder /\ search'.asked = Append(search.asked, "hits")
        /\ gen'.papers = found /\ gen'.at = "hypothesize" /\ gen'.match = search.ladder[k]
    BY <1>3 DEF Finds, SearchInv
  <2>2. k \in 1 .. Len(search.ladder) /\ search.asked \in Seq({"empty", "failed"})
    BY <1>3 DEF Finds, SearchInv
  <2>3. /\ search'.asked[k] = "hits"
        /\ \A j \in 1 .. k - 1 : search'.asked[j] = search.asked[j]
    BY <2>1, <2>2
  <2>4. \A j \in 1 .. k - 1 : search'.asked[j] \in {"empty", "failed"}
    BY <2>2, <2>3
  <2> QED BY <2>1, <2>2, <2>3, <2>4 DEF SearchInv, MatchIsFirstHit
<1>4. CASE gen.at = "literature" /\ gen' = gen /\ search' = [search EXCEPT !.tries = @ + 1]
  BY <1>4 DEF SearchInv, MatchIsFirstHit
<1>5. CASE gen'.papers = gen.papers /\ gen'.at \notin {"literature", "hypothesize"}
  BY <1>5 DEF SearchInv, MatchIsFirstHit
<1>6. CASE UNCHANGED <<search, gen>>
  BY <1>6 DEF SearchInv, MatchIsFirstHit
<1>7. CASE Raises
  <2>1. gen' = [gen EXCEPT !.at = "failed"]
    BY <1>7 DEF Raises
  <2>2. gen'.at = "failed" /\ gen'.papers = gen.papers
    BY <2>1
  <2> QED BY <2>2, <1>5
<1>8. CASE Step
  <2>1. CASE FindsNothing \/ FetchFails \/ \E found \in SUBSET Papers : Finds(found)
    BY <2>1, <1>2, <1>3, <1>4 DEF FindsNothing, FetchFails
  <2>2. CASE FindsGarbage \/ GuardRaises \/ ExperimentEnds \/ NoModel \/ SpecFails \/ Report
    <3>1. CASE FindsGarbage \/ GuardRaises
      BY <3>1, <1>7 DEF FindsGarbage, GuardRaises
    <3>2. CASE ExperimentEnds
      <4>1. CASE Raises
        BY <4>1, <1>7
      <4>2. CASE gen' = [gen EXCEPT !.at = "model", !.gain = (box.outcome = "printed")]
        BY <4>2, <1>5
      <4> QED BY <3>2, <4>1, <4>2 DEF ExperimentEnds
    <3>3. CASE NoModel
      BY <3>3, <1>5 DEF NoModel, Template
    <3>4. CASE SpecFails
      <4>1. gen' = gen \/ gen' = Template
        BY <3>4 DEF SpecFails
      <4>2. CASE gen' = Template
        BY <4>2, <1>5 DEF Template
      <4>3. CASE gen' = gen
        BY <4>3, <3>4 DEF SpecFails, SearchInv, MatchIsFirstHit
      <4> QED BY <4>1, <4>2, <4>3
    <3>5. CASE Report
      BY <3>5, <1>5 DEF Report
    <3> QED BY <2>2, <3>1, <3>2, <3>3, <3>4, <3>5
  <2>3. CASE \/ \E known \in {"denied", "unknown"} : Hypothesize(known)
             \/ \E specs \in Chains : AskModel(specs)
             \/ \E reply \in {"draft", "empty", "null"} : SpecAnswers(reply)
    <3>1. ASSUME NEW known \in {"denied", "unknown"}, Hypothesize(known) PROVE SearchInv'
      BY <3>1, <1>5 DEF Hypothesize
    <3>2. ASSUME NEW specs \in Chains, AskModel(specs) PROVE SearchInv'
      BY <3>2, <1>5 DEF AskModel
    <3>3. ASSUME NEW reply \in {"draft", "empty", "null"}, SpecAnswers(reply)
          PROVE  SearchInv'
      <4>1. PICK draft : \/ gen' = [gen EXCEPT !.at = "report", !.source = Head(chain),
                                               !.draft = draft]
                         \/ gen' = Template \/ Raises
        BY <3>3 DEF SpecAnswers
      <4>2. CASE gen' = [gen EXCEPT !.at = "report", !.source = Head(chain), !.draft = draft]
        BY <4>2, <1>5
      <4>3. CASE gen' = Template
        BY <4>3, <1>5 DEF Template
      <4> QED BY <4>1, <4>2, <4>3, <1>7
    <3> QED BY <2>3, <3>1, <3>2, <3>3
  <2>4. CASE Experiment
    BY <2>4, <1>6 DEF Experiment
  <2> QED BY <1>8, <2>1, <2>2, <2>3, <2>4 DEF Step
<1> QED BY <1>1, <1>6, <1>8 DEF Next, vars

LEMMA SearchAlways == Spec => []SearchInv
<1>1. Init => SearchInv
  BY DEF Init, Blank, SearchInv, MatchIsFirstHit
<1> QED BY <1>1, SearchStep, PTL DEF Spec

\* The rung a paper carries is the first that found anything: with any ladder
\* and any number of attempts (literature, _fetch).
THEOREM FirstHitMatches == Spec => []MatchIsFirstHit
<1>1. SearchInv => MatchIsFirstHit
  BY DEF SearchInv
<1> QED BY <1>1, SearchAlways, PTL

\* Of three to five candidates, two of them unlikely, enough are taken: the
\* rounding of allocate and the one of measure agree on the default budget.
LEMMA PoolsMeet ==
  ASSUME Share = 3, Whole = 10, NEW high \in {1, 2, 3} PROVE Met(Allocate(high, 2))
<1>1. Allocate(1, 2) = [low |-> 1, high |-> 1]
  BY DEF Allocate, NeedLow, Round, AtMost
<1>2. Allocate(2, 2) = [low |-> 1, high |-> 2]
  BY DEF Allocate, NeedLow, Round, AtMost
<1>3. Allocate(3, 2) = [low |-> 2, high |-> 3]
  BY DEF Allocate, NeedLow, Round, AtMost
<1>4. /\ Met([low |-> 1, high |-> 1]) /\ Met([low |-> 1, high |-> 2])
      /\ Met([low |-> 2, high |-> 3])
  BY DEF Met, Rate, Round
<1> QED BY <1>1, <1>2, <1>3, <1>4

\* Whatever the search finds, and however much, the hypotheses of a report come
\* up to the budget the code has by default.
THEOREM DefaultBudgetMet == ASSUME Share = 3, Whole = 10 PROVE Spec => []BudgetMet
<1>1. Init => BudgetMet
  BY DEF Init, Blank, BudgetMet
<1>2. ASSUME SearchInv, BudgetMet, [Next]_vars PROVE BudgetMet'
  <2>1. CASE Report
    <3>1. Cardinality(gen.papers) \in Nat
      BY <1>2, GenerationAssumption, FS_Subset, FS_CardinalityType DEF SearchInv
    <3>2. 1 + AtMost(Cardinality(gen.papers), 2) \in {1, 2, 3}
      BY <3>1 DEF AtMost
    <3>3. gen'.at = "answered" => gen'.selected = Selected
      BY <2>1 DEF Report
    <3> QED BY <3>2, <3>3, PoolsMeet DEF BudgetMet, Selected
  <2>2. CASE UNCHANGED gen
    BY <1>2, <2>2 DEF BudgetMet
  <2>3. CASE gen'.at # "answered"
    BY <2>3 DEF BudgetMet
  <2>4. CASE Raises
    <3>1. gen' = [gen EXCEPT !.at = "failed"]
      BY <2>4 DEF Raises
    <3>2. gen'.at # "answered" \/ gen' = gen
      BY <3>1
    <3> QED BY <3>2, <2>2, <2>3
  <2>5. CASE gen' = Template
    <3>1. gen'.at # "answered" \/ gen' = gen
      BY <2>5 DEF Template
    <3> QED BY <3>1, <2>2, <2>3
  <2>6. ASSUME NEW guard \in BOOLEAN, NEW ladder \in Ladders, Generate(guard, ladder)
        PROVE  BudgetMet'
    BY <2>6, <2>3 DEF Generate, Blank
  <2>7. ASSUME NEW found \in SUBSET Papers, Finds(found) PROVE BudgetMet'
    BY <2>7, <2>3 DEF Finds
  <2>8. ASSUME NEW how, Miss(how) PROVE BudgetMet'
    BY <2>8, <1>2, <2>2, <2>3 DEF Miss
  <2>9. ASSUME NEW known, Hypothesize(known) PROVE BudgetMet'
    BY <2>9, <2>3 DEF Hypothesize
  <2>10. CASE ExperimentEnds
    <3>1. Raises \/ gen' = [gen EXCEPT !.at = "model", !.gain = (box.outcome = "printed")]
      BY <2>10 DEF ExperimentEnds
    <3>2. CASE gen' = [gen EXCEPT !.at = "model", !.gain = (box.outcome = "printed")]
      <4>1. gen'.at # "answered" \/ gen' = gen
        BY <3>2
      <4> QED BY <4>1, <2>2, <2>3
    <3> QED BY <3>1, <3>2, <2>4
  <2>11. ASSUME NEW specs, AskModel(specs) PROVE BudgetMet'
    BY <2>11, <2>3 DEF AskModel
  <2>12. ASSUME NEW reply, SpecAnswers(reply) PROVE BudgetMet'
    <3>1. PICK draft :
            \/ Raises \/ gen' = Template
            \/ gen' = [gen EXCEPT !.at = "report", !.source = Head(chain), !.draft = draft]
      BY <2>12 DEF SpecAnswers
    <3>2. CASE gen' = [gen EXCEPT !.at = "report", !.source = Head(chain), !.draft = draft]
      <4>1. gen'.at # "answered" \/ gen' = gen
        BY <3>2
      <4> QED BY <4>1, <2>2, <2>3
    <3> QED BY <3>1, <3>2, <2>4, <2>5
  <2>13. CASE FindsNothing \/ FetchFails \/ FindsGarbage \/ GuardRaises \/ Experiment
              \/ NoModel \/ SpecFails
    BY <2>13, <2>2, <2>4, <2>5, <2>8
    DEF FindsNothing, FetchFails, FindsGarbage, GuardRaises, Experiment, NoModel, SpecFails
  <2> QED
    BY <1>2, <2>1, <2>2, <2>6, <2>7, <2>8, <2>9, <2>10, <2>11, <2>12, <2>13
    DEF Next, Step, vars
<1> QED BY <1>1, <1>2, SearchAlways, PTL DEF Spec

-----------------------------------------------------------------------------
(* Types *)

\* Everything an identifier of a claim may be made of, and a claim be about.
Things ==
    Papers \union {Halluc, Gain} \union Dois \union {Tail8[d] : d \in Dois}
    \union {NumbersOf[s][1] : s \in Sentences}
Claims == [id : {"cite", "num-gain", "cite-arxiv", "cite-doi", "num"} \X Things, says : Things]

Searches == [ladder : Seq({"phrases", "heads", "loose"}),
             asked : Seq({"hits", "empty", "failed"}), tries : 0 .. Retries - 1]
Points == {"idle", "literature", "hypothesize", "sandbox", "model", "router", "report",
           "answered", "failed"}
Gens ==
    [at : Points, guard : BOOLEAN, papers : SUBSET Papers, cites : SUBSET (Papers \union {Halluc}),
     match : {"none", "phrases", "heads", "loose"}, gain : BOOLEAN, draft : Drafts,
     source : Specs \union {"none", "template"}, claims : SUBSET Claims,
     selected : [low : Nat, high : Nat]]

\* While a router is asked it has a specification left.
GenTyped ==
    /\ search \in Searches /\ chain \in Seq(Specs) /\ gen \in Gens
    /\ gen.at = "router" => chain # <<>>

\* The claims of the pipeline and those of extract_claims are claims.
LEMMA OwnClaimsTyped == gen \in Gens => OwnClaims \subseteq Claims
<1> SUFFICES ASSUME gen \in Gens, NEW c \in OwnClaims PROVE c \in Claims
  OBVIOUS
<1>1. CASE \E p \in gen.cites : c = [id |-> <<"cite", p>>, says |-> p]
  BY <1>1 DEF Gens, Claims, Things
<1>2. CASE c = [id |-> <<"num-gain", Gain>>, says |-> Gain]
  BY <1>2 DEF Claims, Things
<1> QED BY <1>1, <1>2 DEF OwnClaims

LEMMA ExtractTyped ==
  ASSUME NEW draft \in Drafts PROVE Extract(draft, {}) \subseteq Claims
<1> SUFFICES ASSUME NEW x \in Seen(draft) PROVE [id |-> IdOf(x), says |-> x] \in Claims
  BY DEF Extract
<1>1. x \in Papers \union {Halluc} \union Dois \union {NumbersOf[s][1] : s \in Sentences}
  BY DEF Seen, Drafts
<1>2. x \in Things
  BY <1>1 DEF Things
<1>3. CASE x \in Papers \union {Halluc}
  <2>1. IdOf(x) = <<"cite-arxiv", x>>
    BY <1>3, GenerationAssumption DEF IdOf
  <2> QED BY <1>2, <2>1 DEF Claims
<1>4. CASE x \in Dois \ (Papers \union {Halluc})
  <2>1. IdOf(x) = <<"cite-doi", Tail8[x]>> /\ Tail8[x] \in Things
    BY <1>4 DEF IdOf, Things
  <2> QED BY <1>2, <2>1 DEF Claims
<1>5. CASE x \notin Papers \union {Halluc} \union Dois
  <2>1. IdOf(x) = <<"num", x>>
    BY <1>5 DEF IdOf
  <2> QED BY <1>2, <2>1 DEF Claims
<1> QED BY <1>3, <1>4, <1>5

\* What allocate selects is a pair of numbers of candidates, for any budget.
LEMMA RoundTyped ==
  ASSUME NEW a \in Nat, NEW b \in Nat \ {0} PROVE Round(a, b) \in Nat
<1>1. a \div b \in Nat
  BY Z3
<1> QED BY <1>1 DEF Round

LEMMA SelectedTyped ==
  ASSUME NEW high \in Nat, NEW low \in Nat
  PROVE  Allocate(high, low) \in [low : Nat, high : Nat]
<1> DEFINE n == high + low  take == AtMost(low, NeedLow(n))
<1>1. n * Share \in Nat
  BY BudgetAssumption, Z3
<1>2. NeedLow(n) \in Nat
  BY <1>1, RoundTyped, BudgetAssumption DEF NeedLow
<1>3. take \in 0 .. low
  BY <1>2 DEF AtMost
<1>4. AtMost(high, n - take) \in Nat
  BY <1>3 DEF AtMost
<1> QED BY <1>3, <1>4 DEF Allocate

-----------------------------------------------------------------------------

\* The template, and the end with an error, fit any point.
LEMMA TemplateTyped ==
  ASSUME GenTyped PROVE Template \in Gens /\ Template.at = "report"
<1> QED BY DEF GenTyped, Gens, Template, Points, Drafts

LEMMA RaisesTyped ==
  ASSUME GenTyped, Raises PROVE gen' \in Gens /\ gen'.at = "failed"
<1> QED BY DEF GenTyped, Gens, Raises, Points

LEMMA MissTyped ==
  ASSUME GenTyped, NEW how \in {"empty", "failed"}, gen.at = "literature", Miss(how),
         UNCHANGED chain
  PROVE  GenTyped'
<1>1. Append(search.asked, how) \in Seq({"hits", "empty", "failed"})
  BY DEF GenTyped, Searches
<1>2. search' \in Searches
  <2>1. /\ 0 \in 0 .. Retries - 1 /\ search \in Searches
        /\ search' = [search EXCEPT !.asked = Append(search.asked, how), !.tries = 0]
    BY GenerationAssumption DEF Miss, GenTyped
  <2> QED BY <1>1, <2>1 DEF Searches
<1>3. gen' \in Gens /\ gen'.at # "router"
  BY DEF Miss, GenTyped, Gens, Points
<1> QED BY <1>2, <1>3 DEF GenTyped

LEMMA FindTyped ==
  ASSUME GenTyped, SearchInv, NEW found \in SUBSET Papers, Finds(found)
  PROVE  GenTyped'
<1>1. Append(search.asked, "hits") \in Seq({"hits", "empty", "failed"})
  BY DEF GenTyped, Searches
<1>2. search' \in Searches
  BY <1>1 DEF Finds, GenTyped, Searches
<1>3. search.ladder[Len(search.asked) + 1] \in {"phrases", "heads", "loose"}
  BY DEF Finds, SearchInv
<1>4. gen' \in Gens /\ gen'.at # "router"
  BY <1>3 DEF Finds, GenTyped, Gens, Points
<1> QED BY <1>2, <1>4 DEF Finds, GenTyped

LEMMA RouterTyped ==
  ASSUME GenTyped,
         SpecFails \/ \E reply \in {"draft", "empty", "null"} : SpecAnswers(reply)
  PROVE  GenTyped'
<1>1. chain \in Seq(Specs) /\ chain # <<>> /\ gen.at = "router" /\ UNCHANGED search
  BY DEF GenTyped, SpecFails, SpecAnswers
<1>2. CASE SpecFails
  <2>1. chain' \in Seq(Specs) /\ (Len(chain) > 1 => chain' # <<>>)
    BY <1>1, <1>2 DEF SpecFails
  <2>2. CASE Len(chain) > 1
    BY <1>1, <1>2, <2>1, <2>2 DEF SpecFails, GenTyped
  <2>3. CASE ~ (Len(chain) > 1)
    BY <1>1, <1>2, <2>1, <2>3, TemplateTyped DEF SpecFails, GenTyped
  <2> QED BY <2>2, <2>3
<1>3. ASSUME NEW reply \in {"draft", "empty", "null"}, SpecAnswers(reply) PROVE GenTyped'
  <2>1. chain' = <<>> /\ <<>> \in Seq(Specs) /\ Head(chain) \in Specs
    <3>1. chain' = <<>>
      BY <1>3 DEF SpecAnswers
    <3>2. Head(chain) \in Specs
      BY <1>1
    <3> QED BY <3>1, <3>2
  <2>2. ASSUME NEW draft \in Drafts,
               gen' = [gen EXCEPT !.at = "report", !.source = Head(chain), !.draft = draft]
        PROVE  gen' \in Gens /\ gen'.at # "router"
    BY <2>1, <2>2 DEF GenTyped, Gens, Points
  <2>3. gen' \in Gens /\ gen'.at # "router"
    BY <1>3, <2>2, TemplateTyped, RaisesTyped DEF SpecAnswers
  <2> QED BY <1>1, <2>1, <2>3 DEF GenTyped
<1> QED BY <1>2, <1>3

LEMMA ReportTyped == ASSUME GenTyped, SearchInv, Report PROVE GenTyped'
<1>1. PICK kept \in IF gen.source = "template" THEN {{}} ELSE Additions(gen.draft) :
        gen' = [gen EXCEPT !.at = "answered", !.claims = OwnClaims \union kept,
                           !.selected = Selected]
  BY DEF Report
<1>2. kept \subseteq Claims
  <2>1. gen.draft \in Drafts
    BY DEF GenTyped, Gens
  <2>2. Extract(gen.draft, {}) \subseteq Claims
    BY <2>1, ExtractTyped
  <2> QED BY <1>1, <2>2 DEF Additions
<1>3. Selected \in [low : Nat, high : Nat]
  <2>1. Cardinality(gen.papers) \in Nat
    BY GenerationAssumption, FS_Subset, FS_CardinalityType DEF SearchInv
  <2>2. 1 + AtMost(Cardinality(gen.papers), 2) \in Nat
    BY <2>1 DEF AtMost
  <2> QED BY <2>2, SelectedTyped DEF Selected
<1>4. gen' \in Gens /\ gen'.at # "router"
  BY <1>1, <1>2, <1>3, OwnClaimsTyped DEF GenTyped, Gens, Points
<1> QED BY <1>4 DEF Report, GenTyped

LEMMA GenStep == SearchInv /\ GenTyped /\ [Next]_vars => GenTyped'
<1> SUFFICES ASSUME SearchInv, GenTyped, [Next]_vars PROVE GenTyped'
  OBVIOUS
<1> USE GenerationAssumption
<1>0. /\ NoSearch \in Searches
      /\ \A l \in Ladders : [NoSearch EXCEPT !.ladder = l] \in Searches
  <2>1. /\ <<"loose">> \in Seq({"phrases", "heads", "loose"})
        /\ <<>> \in Seq({"hits", "empty", "failed"}) /\ 0 \in 0 .. Retries - 1
    OBVIOUS
  <2> QED BY <2>1, LaddersEnd DEF NoSearch, Searches
<1>1. ASSUME NEW guard \in BOOLEAN, NEW ladder \in Ladders, Generate(guard, ladder)
      PROVE  GenTyped'
  <2>1. Blank \in Gens
    BY DEF Blank, Gens, Points, Drafts
  <2>2. gen' \in Gens /\ gen'.at # "router"
    BY <1>1, <2>1 DEF Generate, Gens, Points
  <2> QED BY <1>0, <1>1, <2>2 DEF Generate, GenTyped
<1>2. ASSUME NEW known, Hypothesize(known) PROVE GenTyped'
  <2>1. gen' \in Gens /\ gen'.at # "router"
    BY <1>2 DEF Hypothesize, GenTyped, Gens, Points
  <2> QED BY <1>0, <1>2, <2>1 DEF Hypothesize, GenTyped
<1>3. CASE FindsGarbage
  BY <1>3, RaisesTyped DEF FindsGarbage, GenTyped
<1>4. CASE GuardRaises
  BY <1>0, <1>4, RaisesTyped DEF GuardRaises, GenTyped
<1>5. CASE FindsNothing
  BY <1>5, MissTyped DEF FindsNothing
<1>6. CASE FetchFails
  <2>1. CASE search' = [search EXCEPT !.tries = @ + 1] /\ search.tries + 1 < Retries
             /\ UNCHANGED gen
    BY <1>6, <2>1 DEF FetchFails, GenTyped, Searches
  <2>2. CASE Miss("failed")
    BY <1>6, <2>2, MissTyped DEF FetchFails
  <2> QED BY <1>6, <2>1, <2>2 DEF FetchFails
<1>7. CASE ExperimentEnds
  <2>1. CASE gen' = [gen EXCEPT !.at = "model", !.gain = (box.outcome = "printed")]
    <3>1. gen' \in Gens /\ gen'.at # "router"
      BY <2>1 DEF GenTyped, Gens, Points
    <3> QED BY <1>7, <3>1 DEF ExperimentEnds, GenTyped
  <2>2. CASE Raises
    BY <1>7, <2>2, RaisesTyped DEF ExperimentEnds, GenTyped
  <2> QED BY <1>7, <2>1, <2>2 DEF ExperimentEnds
<1>8. CASE NoModel
  BY <1>8, TemplateTyped DEF NoModel, GenTyped
<1>9. ASSUME NEW specs \in Chains, AskModel(specs) PROVE GenTyped'
  <2>1. gen' \in Gens /\ chain' \in Seq(Specs) /\ chain' # <<>>
    BY <1>9 DEF AskModel, GenTyped, Gens, Points
  <2> QED BY <1>9, <2>1 DEF AskModel, GenTyped
<1>10. CASE UNCHANGED <<search, chain, gen>>
  BY <1>10 DEF GenTyped
<1>11. CASE Step
  BY <1>11, <1>2, <1>3, <1>4, <1>5, <1>6, <1>7, <1>8, <1>9, <1>10, FindTyped, RouterTyped,
     ReportTyped
  DEF Step, Experiment
<1> QED BY <1>1, <1>10, <1>11 DEF Next, vars

\* Type correctness for any sets of papers, sentences and models, any ladder and
\* any budget: a router that is asked has a specification, the rung of a paper is
\* one of the ladder, and a claim has an identifier of two parts.
THEOREM GenerationTypeCorrect == Spec => []TypeOK
<1>1. Init => GenTyped
  <2>1. /\ <<"loose">> \in Seq({"phrases", "heads", "loose"})
        /\ <<>> \in Seq({"hits", "empty", "failed"}) /\ <<>> \in Seq(Specs)
    OBVIOUS
  <2> QED
    BY <2>1, GenerationAssumption
    DEF Init, GenTyped, NoSearch, Searches, Blank, Gens, Points, Drafts
<1>2. BoxInv /\ GenTyped => TypeOK
  <2> SUFFICES ASSUME BoxInv, GenTyped PROVE TypeOK
    OBVIOUS
  <2>1. box \in Boxes \union {NoBox}
    BY DEF BoxInv
  <2>2. \A c \in Claims : DOMAIN c = {"id", "says"} /\ Len(c.id) = 2
    BY DEF Claims
  <2>3. [gen EXCEPT !.claims = {}] \in
          [at : Points, guard : BOOLEAN, papers : SUBSET Papers,
           cites : SUBSET (Papers \union {Halluc}),
           match : {"none", "phrases", "heads", "loose"}, gain : BOOLEAN, draft : Drafts,
           source : Specs \union {"none", "template"}, claims : {{}},
           selected : [low : Nat, high : Nat]]
    BY DEF GenTyped, Gens
  <2> QED
    BY <2>1, <2>2, <2>3 DEF GenTyped, Searches, Gens, Points, TypeOK
<1> QED BY <1>1, <1>2, GenStep, SearchAlways, BoxAlways, PTL DEF Spec
=============================================================================
