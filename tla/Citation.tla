------------------------------ MODULE Citation ------------------------------
(***************************************************************************)
(* verify_citation of coe_kernel/verify.py with the three lookups of       *)
(* coe_kernel/apis.py it calls: how one citation is judged.  Any of the    *)
(* questions to arXiv, CrossRef, DataCite and OpenAlex may go unanswered;  *)
(* when they are answered, it is with the truth (ApiClient!AnswersAreTrue).*)
(*                                                                         *)
(* What a citation carries is given by what the world knows of each part:  *)
(* an identifier the code does not recognise, one its registry holds, one  *)
(* it does not hold; a title OpenAlex indexes or not.                      *)
(***************************************************************************)

CONSTANTS
    ArxivIds,    \* the kinds of arXiv identifiers a citation may carry
    Dois,        \* the kinds of DOIs
    Titles       \* the kinds of titles

ASSUME CitationAssumption ==
    /\ ArxivIds \subseteq {"none", "unrecognised", "held", "not_held"}
    /\ Dois \subseteq {"none", "unrecognised", "in_crossref", "in_datacite", "not_held"}
    /\ Titles \subseteq {"none", "indexed", "not_indexed"}

VARIABLES
    claim,       \* the citation
    layers,      \* what each layer found: yes, no or unknown (None)
    lookup,      \* the question asked next
    denied,      \* the denied of check_doi
    silent,      \* the questions that went unanswered, for the properties
    verdict      \* the status of the claim, or none yet

vars == <<claim, layers, lookup, denied, silent, verdict>>

Questions == {"arxiv", "crossref", "datacite", "openalex"}

Init ==
    /\ claim \in [arxiv : ArxivIds, doi : Dois, title : Titles]
    /\ layers = [l \in {"arxiv", "doi", "title"} |-> "unknown"]
    /\ lookup = "arxiv" /\ denied = FALSE /\ silent = {} /\ verdict = "none"

-----------------------------------------------------------------------------
Exists == \E l \in DOMAIN layers : layers[l] = "yes"

\* A layer is settled, and the next question is asked.
Found(layer, what, next) ==
    layers' = [layers EXCEPT ![layer] = what] /\ lookup' = next

Skip(next) == lookup' = next /\ UNCHANGED <<layers, silent, denied>>

\* The answer of one source, truth, or none.
Hears(source, truth, answer) ==
    \/ answer = truth /\ UNCHANGED silent
    \/ answer = "unknown" /\ silent' = silent \union {source}

\* check_arxiv: an identifier that is not recognised stays unknown.
CheckArxiv ==
    /\ lookup = "arxiv"
    /\ IF claim.arxiv \in {"none", "unrecognised"} THEN Skip("crossref")
       ELSE \E answer \in {"yes", "no", "unknown"} :
               /\ Hears("arxiv", IF claim.arxiv = "held" THEN "yes" ELSE "no", answer)
               /\ Found("arxiv", answer, "crossref")
               /\ UNCHANGED denied
    /\ UNCHANGED <<claim, verdict>>

\* check_doi, CrossRef: only when arXiv has not settled the matter.  A DOI that
\* is not recognised is answered False at once.
CheckCrossref ==
    /\ lookup = "crossref"
    /\ IF Exists \/ claim.doi = "none" THEN Skip("openalex")
       ELSE IF claim.doi = "unrecognised"
       THEN Found("doi", "no", "openalex") /\ UNCHANGED <<silent, denied>>
       ELSE \E answer \in {"yes", "no", "unknown"} :
               /\ Hears("crossref", IF claim.doi = "in_crossref" THEN "yes" ELSE "no",
                        answer)
               /\ denied' = (answer = "no")
               /\ IF answer = "yes" THEN Found("doi", "yes", "openalex")
                  ELSE lookup' = "datacite" /\ UNCHANGED layers
    /\ UNCHANGED <<claim, verdict>>

\* Mutant of CheckDatacite: CrossRef alone decides once it has denied.
CrossrefDecides ==
    /\ lookup = "datacite"
    /\ \E answer \in {"yes", "no", "unknown"} :
          /\ Hears("datacite", IF claim.doi = "in_datacite" THEN "yes" ELSE "no", answer)
          /\ denied' = (denied \/ answer = "no")
          /\ Found("doi", IF denied' THEN "no" ELSE answer, "openalex")
    /\ UNCHANGED <<claim, verdict>>

\* check_doi, the fallback to DataCite: one denial of the two is enough.
CheckDatacite ==
    /\ lookup = "datacite"
    /\ \E answer \in {"yes", "no", "unknown"} :
          /\ Hears("datacite", IF claim.doi = "in_datacite" THEN "yes" ELSE "no", answer)
          /\ denied' = (denied \/ answer = "no")
          /\ Found("doi", IF answer = "yes" THEN "yes"
                          ELSE IF denied' THEN "no" ELSE "unknown", "openalex")
    /\ UNCHANGED <<claim, verdict>>

\* match_openalex.  Without a title of its own, the citation is matched with
\* the one its registry gave, which changes nothing any more.
MatchTitle ==
    /\ lookup = "openalex"
    /\ IF claim.title = "none" THEN Skip("judge")
       ELSE \E answer \in {"yes", "no", "unknown"} :
               /\ Hears("openalex", IF claim.title = "indexed" THEN "yes" ELSE "no",
                        answer)
               /\ Found("title", answer, "judge")
               /\ UNCHANGED denied
    /\ UNCHANGED <<claim, verdict>>

\* Mutant of Status: whatever nobody denies passes.
StatusLenient(irrelevant) ==
    IF \A l \in DOMAIN layers : layers[l] # "no"
    THEN IF irrelevant THEN "manual" ELSE "pass"
    ELSE IF layers["arxiv"] = "no" \/ layers["doi"] = "no" THEN "reject"
    ELSE "unresolved"

\* The gate: what exists passes, unless the model scores it irrelevant; what
\* nobody has answered for is left to a human; what a registry denies is a
\* fabrication; what is only missing from the index is a gap.
Status(irrelevant) ==
    IF Exists THEN IF irrelevant THEN "manual" ELSE "pass"
    ELSE IF \A l \in DOMAIN layers : layers[l] = "unknown" THEN "manual"
    ELSE IF layers["arxiv"] = "no" \/ layers["doi"] = "no" THEN "reject"
    ELSE "unresolved"

\* verify_citation returns the claim with the status of the table.
Judge(irrelevant) ==
    /\ lookup = "judge"
    /\ lookup' = "done"
    /\ verdict' = Status(irrelevant)
    /\ UNCHANGED <<claim, layers, denied, silent>>

\* get_scorer: COE_RELEVANCE decides, or else whether any model is configured.
Scorer(forced, configured) ==
    IF forced = "llm" \/ (forced = "unset" /\ configured) THEN "llm" ELSE "heuristic"

\* LLMRelevance.score: the first number of the reply; a reply without one is 0,
\* no reply is no score.
LlmScore(reply) ==
    CASE reply = "wordy" -> "low" [] reply = "none" -> "unreachable" [] OTHER -> reply

\* Layer 4: only the score of a model that answered stands in the way; the
\* overlap of words, and the score that replaces a missing one, are noted.
Irrelevant(scorer, reply) == scorer = "llm" /\ LlmScore(reply) = "low"

Next == CheckArxiv \/ CheckCrossref \/ CheckDatacite \/ MatchTitle
        \/ \E forced \in {"unset", "heuristic", "llm"}, configured \in BOOLEAN,
             reply \in {"low", "high", "wordy", "none"} :
                Judge(Irrelevant(Scorer(forced, configured), reply))

Spec == Init /\ [][Next]_vars

-----------------------------------------------------------------------------
(* Properties *)

\* The rule of docs/REACHABILITY.md (the table of section 2, and :100-101 for
\* identifiers nobody recognises) for a citation about which every source has
\* answered: one match is enough to exist, arXiv and the DOI registries may
\* deny, the index may not, what is not recognised says nothing, and without
\* anything to go by the claim is left to a human.
Rule ==
    IF \/ claim.arxiv = "held" \/ claim.doi \in {"in_crossref", "in_datacite"}
       \/ claim.title = "indexed"
    THEN {"pass", "manual"}
    ELSE IF claim.arxiv = "not_held" \/ claim.doi = "not_held" THEN {"reject"}
    ELSE IF claim.title = "not_indexed" THEN {"unresolved"} ELSE {"manual"}

\* A registry that does not hold what it was asked for, and said so.
DenialHeard ==
    \/ claim.arxiv = "not_held" /\ "arxiv" \notin silent
    \/ claim.doi \in {"in_datacite", "not_held"} /\ "crossref" \notin silent
    \/ claim.doi \in {"in_crossref", "not_held"} /\ "datacite" \notin silent

\* When every source answers, the verdict is the one of the rule; whichever are
\* silent, a rejection has the denial of a registry behind it, and no silence
\* is taken for one.  A DOI the code does not recognise is set apart: check_doi
\* answers that it does not exist, which is not the rule
\* (UnrecognisedIsUnknown), and one denial of the two is less than the rule
\* wants (RealNeverRejected).
RegistriesDecide ==
    lookup = "done" /\ claim.doi # "unrecognised" =>
        /\ silent = {} => verdict \in Rule
        /\ verdict = "reject" => DenialHeard

\* A claim passes only on the word of a source that holds it, whatever the
\* others failed to answer.
PassIsEvidenced ==
    verdict = "pass" =>
        \/ claim.arxiv = "held" /\ "arxiv" \notin silent
        \/ claim.doi = "in_crossref" /\ "crossref" \notin silent
        \/ claim.doi = "in_datacite" /\ "datacite" \notin silent
        \/ claim.title = "indexed" /\ "openalex" \notin silent

-----------------------------------------------------------------------------
(* What the documents say and the code does not do: TLC violates each of   *)
(* the following, as the README tells.                                     *)

\* A citation whose identifiers are held by their registries is never judged
\* a fabrication, whichever source is out of reach (apis.py:311-312: both
\* registries deny, or else the network is to blame and the DOI must not be
\* judged made up).
RealNeverRejected ==
    verdict = "reject" =>
        claim.arxiv = "not_held" \/ claim.doi \in {"not_held", "unrecognised"}

\* docs/REACHABILITY.md:101: not to recognise an identifier says something of
\* the parser and nothing of the world: it is no ground for a rejection.
UnrecognisedIsUnknown ==
    verdict = "reject" =>
        claim.arxiv \in {"held", "not_held"} \/ claim.doi \notin {"none", "unrecognised"}
=============================================================================
