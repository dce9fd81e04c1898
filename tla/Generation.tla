----------------------------- MODULE Generation -----------------------------
(***************************************************************************)
(* pipeline/pipeline.py behind pipeline/server.py, with model/router.py    *)
(* and coe_kernel/extract.py: how one draft comes about.  The search goes  *)
(* down a ladder of queries, each retried; the citations are taken from    *)
(* what it finds; the experiment runs in a sandbox; a model may write the  *)
(* draft, a template does otherwise; what the draft cites becomes a claim, *)
(* here and once more in the kernel.  The sidecar serves one request after *)
(* the other; what depends on the environment is chosen where it is read.  *)
(*                                                                         *)
(* A draft is the set of what it mentions: identifiers of papers, DOIs,    *)
(* and sentences that state results, each a sequence of numbers.           *)
(***************************************************************************)
EXTENDS Sandbox, Exploration, FiniteSets, Sequences

CONSTANTS
    Papers,        \* the papers arXiv may return
    Halluc,        \* the arXiv identifier hypothesize makes up
    Dois,          \* the DOIs a model may cite
    OldIds,        \* the arXiv identifiers of the old style a model may cite
    Tail8,         \* Tail8[d]: the last eight characters of DOI d
    Sentences,     \* the sentences on results a model may write
    NumbersOf,     \* NumbersOf[s]: the numbers in sentence s
    Gain,          \* the number the experiment prints
    Specs,         \* the specifications of models
    StyleOf,       \* StyleOf[s]: the adapter of the provider s names, if any
    Chains,        \* the chains of specifications a router is made with
    Retries        \* the attempts for one query

ASSUME GenerationAssumption ==
    /\ IsFiniteSet(Papers) /\ Halluc \notin Papers
    /\ (Papers \union {Halluc}) \intersect Dois = {} /\ DOMAIN Tail8 = Dois
    /\ OldIds \intersect (Papers \union {Halluc} \union Dois \union Sentences) = {}
    /\ \A s \in Sentences : Len(NumbersOf[s]) > 0
    /\ StyleOf \in [Specs -> {"anthropic", "openai", "gemini", "ollama", "unknown"}]
    /\ "template" \notin Specs
    /\ \A c \in Chains : c \in Seq(Specs) /\ c # <<>>
    /\ Retries \in Nat \ {0}

VARIABLES
    search,    \* literature: the ladder, the outcomes of its rungs, the attempts
    chain,     \* complete: the specifications the router has left
    gen        \* run_pipeline: how far it is, and its local variables

vars == <<box, search, chain, gen>>

Drafts == SUBSET (Papers \union {Halluc} \union Dois \union OldIds \union Sentences)
NoSearch == [ladder |-> <<"loose">>, asked |-> <<>>, tries |-> 0]
Blank == [at |-> "idle", guard |-> FALSE, papers |-> {}, match |-> "none", cites |-> {},
          gain |-> FALSE, draft |-> {}, source |-> "none", claims |-> {},
          selected |-> [low |-> 0, high |-> 0]]

TypeOK ==
    /\ box \in Boxes \union {NoBox}
    /\ search.ladder \in Seq({"phrases", "heads", "loose"})
    /\ search.asked \in Seq({"hits", "empty", "failed"}) /\ search.tries \in 0 .. Retries - 1
    /\ chain \in Seq(Specs)
    /\ [gen EXCEPT !.claims = {}] \in
          [at : {"idle", "literature", "hypothesize", "sandbox", "model", "router", "report",
                 "answered", "failed"},
           guard : BOOLEAN, papers : SUBSET Papers, cites : SUBSET (Papers \union {Halluc}),
           match : {"none", "phrases", "heads", "loose"}, gain : BOOLEAN, draft : Drafts,
           source : Specs \union {"none", "template"}, claims : {{}},
           selected : [low : Nat, high : Nat]]
    /\ \A c \in gen.claims : DOMAIN c = {"id", "says"} /\ Len(c.id) = 2

Init == box = NoBox /\ search = NoSearch /\ chain = <<>> /\ gen = Blank

\* The request is answered with an error: main catches whatever is raised.
Raises == gen' = [gen EXCEPT !.at = "failed"]

\* _query_ladder, strictest query first: only a direction of several phrases has
\* a strict one, and only a phrase of more than two words is shortened to its head.
Ladder(phrases, long) ==
    IF ~ phrases THEN <<"loose">>
    ELSE IF long THEN <<"phrases", "heads", "loose">> ELSE <<"phrases", "loose">>
Ladders == {Ladder(phrases, long) : phrases \in BOOLEAN, long \in BOOLEAN}

\* pipeline.generate: the lessons injected turn the guard on, the direction
\* gives the ladder.
Generate(guard, ladder) ==
    /\ gen.at \in {"idle", "answered", "failed"}
    /\ gen' = [Blank EXCEPT !.at = "literature", !.guard = guard]
    /\ search' = [NoSearch EXCEPT !.ladder = ladder]
    /\ UNCHANGED <<box, chain>>

-----------------------------------------------------------------------------
(* literature and _fetch *)

\* A rung has given nothing: the next one, or no papers at all.
Miss(how) ==
    /\ search' = [search EXCEPT !.asked = Append(@, how), !.tries = 0]
    /\ gen' = IF Len(search.asked) + 1 < Len(search.ladder) THEN gen
              ELSE [gen EXCEPT !.at = "hypothesize"]

\* The papers found carry the rung that found them.
Finds(found) ==
    /\ gen.at = "literature" /\ found # {}
    /\ gen' = [gen EXCEPT !.papers = found, !.at = "hypothesize",
                          !.match = search.ladder[Len(search.asked) + 1]]
    /\ search' = [search EXCEPT !.asked = Append(@, "hits")]
    /\ UNCHANGED <<box, chain>>

FindsNothing == gen.at = "literature" /\ Miss("empty") /\ UNCHANGED <<box, chain>>

\* Mutant of FetchFails: after its last attempt the query is begun again.
FetchFailsForever ==
    /\ gen.at = "literature"
    /\ search' = [search EXCEPT !.tries = (@ + 1) % Retries]
    /\ UNCHANGED <<box, chain, gen>>

\* An attempt fails; after the last one the query counts as one without hits.
FetchFails ==
    /\ gen.at = "literature"
    /\ IF search.tries + 1 < Retries
       THEN search' = [search EXCEPT !.tries = @ + 1] /\ UNCHANGED gen
       ELSE Miss("failed")
    /\ UNCHANGED <<box, chain>>

\* What arXiv answers cannot be parsed.
FindsGarbage == gen.at = "literature" /\ Raises /\ UNCHANGED <<box, search, chain>>

-----------------------------------------------------------------------------
(* hypothesize and code_and_run *)

\* The papers are cited, and the one made up, unless the guard is on and arXiv
\* denies it; known is what check_arxiv makes of it, denied or unknown.
Hypothesize(known) ==
    /\ gen.at = "hypothesize"
    /\ gen' = [gen EXCEPT !.at = "sandbox", !.cites =
                 IF gen.guard /\ known = "denied" THEN gen.papers
                 ELSE gen.papers \union {Halluc}]
    /\ search' = NoSearch
    /\ UNCHANGED <<box, chain>>

\* The answer of arXiv is in the cache, and the file is not whole.
GuardRaises ==
    /\ gen.at = "hypothesize" /\ gen.guard
    /\ Raises
    /\ search' = NoSearch
    /\ UNCHANGED <<box, chain>>

\* The experiment goes its way; once its result is there, the gain is in the
\* log if the program printed it.
Experiment == gen.at = "sandbox" /\ BoxStep /\ UNCHANGED <<search, chain, gen>>

ExperimentEnds ==
    /\ gen.at = "sandbox" /\ box # NoBox
    /\ \/ box.at = "left"
          /\ gen' = [gen EXCEPT !.at = "model", !.gain = (box.outcome = "printed")]
       \/ box.at = "raised" /\ Raises
    /\ box' = NoBox
    /\ UNCHANGED <<search, chain>>

-----------------------------------------------------------------------------
(* _draft_via_model and ModelRouter.complete *)

\* The template cites what is cited anyway, and states the gain.
Template == [gen EXCEPT !.at = "report", !.source = "template", !.draft = gen.cites]

\* Switched off, without a key, without the router.
NoModel == gen.at = "model" /\ gen' = Template /\ UNCHANGED <<box, search, chain>>

AskModel(specs) ==
    /\ gen.at = "model"
    /\ chain' = specs
    /\ gen' = [gen EXCEPT !.at = "router"]
    /\ UNCHANGED <<box, search>>

\* No such provider, or the call raises: the next specification, if any.
SpecFails ==
    /\ gen.at = "router"
    /\ chain' = Tail(chain)
    /\ gen' = IF Len(chain) > 1 THEN gen ELSE Template
    /\ UNCHANGED <<box, search>>

\* _route: the provider, or its alias, is one of PROVIDERS.
Routable(spec) == StyleOf[spec] # "unknown"

\* What the adapters make of an answer: a text, which may be empty; those of
\* OpenAI and of Ollama also hand on that there is none.  The one of Gemini is
\* called with an argument too many (router.py:30, :48): it always raises, as an
\* answer without the fields that are looked for does, and the call itself.
Replies(spec) ==
    CASE StyleOf[spec] = "anthropic" -> {"draft", "empty"}
      [] StyleOf[spec] \in {"openai", "ollama"} -> {"draft", "empty", "null"}
      [] OTHER -> {}

\* The first answer is the last: a draft; the template for an empty one; a null
\* is stripped outside of the try.
SpecAnswers(reply) ==
    /\ gen.at = "router" /\ Routable(Head(chain)) /\ reply \in Replies(Head(chain))
    /\ chain' = <<>>
    /\ \/ reply = "draft" /\ \E draft \in Drafts :
             gen' = [gen EXCEPT !.at = "report", !.source = Head(chain), !.draft = draft]
       \/ reply = "empty" /\ gen' = Template
       \/ reply = "null" /\ Raises
    /\ UNCHANGED <<box, search>>

-----------------------------------------------------------------------------
(* Claims *)

\* The claims of the pipeline itself: an identifier of the claim, and what it
\* is about.
OwnClaims ==
    {[id |-> <<"cite", p>>, says |-> p] : p \in gen.cites}
    \union (IF gen.gain THEN {[id |-> <<"num-gain", Gain>>, says |-> Gain]} ELSE {})

\* extract_claims looks for arXiv identifiers of today's style, for DOIs, and
\* in a sentence for its first number.
Seen(draft) == (draft \ (Sentences \union OldIds))
               \union {NumbersOf[s][1] : s \in draft \intersect Sentences}

IdOf(x) == CASE x \in Papers \union {Halluc} -> <<"cite-arxiv", x>>
             [] x \in Dois -> <<"cite-doi", Tail8[x]>>
             [] OTHER -> <<"num", x>>

\* extract_claims: a claim for everything seen that none of those provided is about.
Extract(draft, provided) ==
    provided \union {[id |-> IdOf(x), says |-> x] :
                     x \in {y \in Seen(draft) : \A c \in provided : c.says # y}}

\* The claims of the draft the pipeline adds: one for each identifier that its
\* claims do not have yet, the first of the draft.
Additions(draft) ==
    LET new == {c \in Extract(draft, {}) : \A d \in OwnClaims : d.id # c.id} IN
    {kept \in SUBSET new : \A c \in new : \E d \in kept :
        d.id = c.id /\ \A e \in kept : e.id = c.id => e = d}

\* The candidate hypotheses: one of its own and one for each of two papers are
\* likely, two are not.
Selected == Allocate(1 + AtMost(Cardinality(gen.papers), 2), 2)

\* The end of run_pipeline.
Report ==
    /\ gen.at = "report"
    /\ \E kept \in IF gen.source = "template" THEN {{}} ELSE Additions(gen.draft) :
          gen' = [gen EXCEPT !.at = "answered", !.claims = OwnClaims \union kept,
                             !.selected = Selected]
    /\ UNCHANGED <<box, search, chain>>

Step ==
    \/ (\E found \in SUBSET Papers : Finds(found)) \/ FindsNothing \/ FetchFails \/ FindsGarbage
    \/ (\E known \in {"denied", "unknown"} : Hypothesize(known)) \/ GuardRaises
    \/ Experiment \/ ExperimentEnds
    \/ NoModel \/ (\E specs \in Chains : AskModel(specs)) \/ SpecFails
    \/ (\E reply \in {"draft", "empty", "null"} : SpecAnswers(reply))
    \/ Report

Next == Step \/ \E guard \in BOOLEAN, ladder \in Ladders : Generate(guard, ladder)

Spec == Init /\ [][Next]_vars

\* One process, whose every call has a timeout: the search 30 s, the model 40 s,
\* the experiment 20 s or 60 s, the probe 15 s.
FairSpec == Spec /\ WF_vars(Step)

-----------------------------------------------------------------------------
(* Properties *)

\* Whatever the search found, the hypotheses of a report come up to the budget
\* for exploration: two unlikely ones in a pool of three to five are enough,
\* although the number needed is rounded.
BudgetMet == gen.at = "answered" => Met(gen.selected)

\* Every request is answered, with a draft or an error, whatever the search,
\* the sandbox and the models do.
EveryGenerationEnds == gen.at = "literature" ~> gen.at \in {"answered", "failed"}

\* The rung a paper carries is the first that found anything, and each of those
\* before it was empty or was tried Retries times.
MatchIsFirstHit ==
    gen.at = "hypothesize" /\ gen.papers # {} =>
        \E k \in 1 .. Len(search.ladder) :
            /\ gen.match = search.ladder[k] /\ search.asked[k] = "hits"
            /\ \A j \in 1 .. k - 1 : search.asked[j] \in {"empty", "failed"}

-----------------------------------------------------------------------------
(* What the comments say and the code does not do: TLC violates each of    *)
(* the following, as the README tells.                                     *)

\* pipeline.py:38: only if the stricter queries miss does the search fall back
\* to the loose one; a network that fails has missed nothing.
LooseOnlyAfterMisses ==
    gen.at = "hypothesize" /\ gen.match = "loose" =>
        \A k \in 1 .. Len(search.asked) - 1 : search.asked[k] = "empty"

\* pipeline.py:252: whatever the model cited goes through the same verification
\* as anything else.  An identifier of the old style (hep-th/9901001), which
\* check_arxiv would recognise (apis.py:261), is not looked for in a draft
\* (extract.py:13), so a made-up one is never judged.
EveryIdentifierJudged ==
    gen.at = "answered" => \A x \in gen.draft \ Sentences :
        \E c \in Extract(gen.draft, gen.claims) : c.says = x

\* extract.py:2: the numbers that state results become claims.
EveryNumberVerified ==
    gen.at = "answered" => \A s \in gen.draft \intersect Sentences :
        \A k \in DOMAIN NumbersOf[s] :
            \E c \in Extract(gen.draft, gen.claims) : c.says = NumbersOf[s][k]

\* pipeline.py:194: when no model can be had, the template takes over; a model
\* does not fail a generation.
ModelNeverFails == [][gen.at = "router" => gen'.at # "failed"]_vars

\* model/README.md:10: every provider of the list can write a draft when it is
\* asked and answers.
EveryProviderServes ==
    gen.at = "router" /\ Routable(Head(chain)) => "draft" \in Replies(Head(chain))

\* pipeline.py:261: the template states the gain it has.
TemplateHasGain == gen.at = "answered" /\ gen.source = "template" => gen.gain
=============================================================================
