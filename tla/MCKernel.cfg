SPECIFICATION KernelSpec
CONSTANTS
    ArxivIds = {"none", "unrecognised", "held", "not_held"}
    Dois = {"none", "unrecognised", "in_crossref", "in_datacite", "not_held"}
    Titles = {"none", "indexed", "not_indexed"}
    Names <- MCNames
    Semantic <- MCSemantic
    Drafts <- MCDrafts
    Logs <- MCLogs
INVARIANTS RegistriesDecide PassIsEvidenced
INVARIANTS GreenIsBacked ImpossibleNeverPasses NoveltyNeedsComputation MoreLogNeverUnproves
CHECK_DEADLOCK FALSE
