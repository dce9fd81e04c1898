# F3-OpenScience: models, checks and proofs

F3-OpenScience runs a research assistant whose every claim must be verified
before a human may sign it, and whose failures become *lessons* that constrain
later runs, first of the same user and then, with consent, of everybody. This
directory holds TLA+ models of the parts of it that are hard to test, the TLC
configurations that check them and proofs that TLAPS checks.

Paths below are relative to the repository root, `x.py:n` is line n.

- [Inventory](#inventory): the parts of the system, their state and what makes them correct
- [Modules](#modules): which module models what, and how
- [Runs](#runs): what TLC checks, within which bounds, under which fairness
- [Where documents and code differ](#where-documents-and-code-differ)
- [Proofs](#proofs): what holds for every value of the constants, and why
- [Not modelled](#not-modelled) and [Plan](#plan)

## Inventory

| Part | State | Operations | Correct when |
|---|---|---|---|
| Global lesson memory `memory/global_store.py` | table `global_lesson`: contributors, count, reuse, votes, status | promote, query, revoke, vote_down, status_for | a lesson is served only above the gate of distinct contributors; what was withdrawn or voted down stays down |
| Global service `deploy/global_service.py`, `cloud/db.py`, client `memory/remote_global.py` | one connection and one lock per instance, the shared table | HTTP promote, revoke, query, status | several instances, slow answers and restarts do not change what the table means |
| Local store `memory/store.py`, `memory/server.py` | tables `verify_lesson` and `global_promotion_log` in one SQLite file | write_from_report, inject, promote, promote_to_global, revoke, list_contributions | no failure that was written is lost or counted twice, and only the race for the first row of a lesson may lose one; a withdrawn lesson stays withdrawn; gaps of the verifier never constrain the generator |
| Sovereignty panel (`list_contributions`, `deploy/gateway.py:88`, `orchestrator/sovereignty_cli.py`) | reads local and global tables | list, revoke | shows what is shared; withdrawing withdraws |
| Orchestrator `orchestrator/orchestrator.py`, `state_machine.py`, `packager.py`, `run_cli.py` | one run at a time, three sidecar processes | run, gates | nothing is signed unless every claim is green and a human confirmed; failures are remembered before the run is blocked |
| RPC `orchestrator/rpc.py` | pipes to a sidecar | call, close | a call that cannot be answered ends the run |
| Generator `pipeline/pipeline.py`, `server.py` | none | generate: search, citations, experiment, draft, claims | every request is answered; a lesson keeps the same fabrication from being drafted again |
| Model router `model/router.py` | none | complete | the first provider that answers writes the draft, or nobody does |
| Sandbox `cloud/sandbox.py` | a directory per run, the limits found out once | run, unsupported_limits | nothing of a run is left behind, and limits that did not hold are told |
| Exploration `coe_kernel/exploration.py` | none | allocate, measure | the share of unlikely hypotheses is at least the budget, or its lack is told |
| Relevance and extraction `coe_kernel/relevance.py`, `extract.py` | none | score, extract_claims | what a text mentions becomes a claim; only a score of a model stands in the way of a citation |
| CoE kernel `coe_kernel/kernel.py`, `verify.py` | the report of the draft it judges | verify: numbers, mechanisms, domain claims, figures | a green report has evidence for every claim; what cannot be seen is not called made up |
| Derivations, dimensions, novelty, chemistry `coe_kernel/derivation.py`, `dimensions.py`, `novelty.py`, `domains/` | none | check_value, discover, verify_explicit, check_expression, literature_support, check_formula, check_reaction | a number passes only if the log bears it out and the world allows it |
| Citation lookup `coe_kernel/verify.py:27-83`, `apis.py:259-351` | none | verify_citation, check_arxiv, check_doi, match_openalex | a fabrication is never passed and a real citation never called one |
| API client `coe_kernel/apis.py:178-231` | cache directory (shared by processes), failure counters (per process) | _get | denial, content and "unknown" are never confused |
| Gateway `deploy/gateway.py` | sessions, gate queues, event queues, one lock | POST runs, POST gates, GET events | each run goes by its own decisions, ends, and tells its client |
| Cloud gateway `deploy/gateway_cloud.py`, `cloud/tenancy.py`, `vault.py`, `sessions.py` | tenants, key vault, session store, process environment | as above, per tenant; POST keys | one user's keys never serve another's run, and none stays behind |
| TypeScript orchestrator and stdio server `orchestrator-ts/src/` | pending gates by name, pending calls by id, one Orchestrator | run.start, gate.resolve, sovereignty.list, sovereignty.revoke | an answer reaches the call it belongs to, a decision the run it was given for |
| Desktop shell `apps/shell/src-tauri/src/lib.rs`, `apps/shell/src/App.tsx` | ready flag, windows; running button, dialog, banner | start-up watchdog, forwarding; start, click, reload | the splash screen gives way to the window; the user sees the dialogs and signs what they saw |
| Metrics `coe_kernel/metrics.py`, scripts, experiments, generated types | none | pure functions and diagnostics | per function |

How they interact: the gateway starts one orchestrator per run under a lock;
the orchestrator calls three sidecars over pipes (`mem` = local store, `pipe` =
generator, `coe` = kernel); `coe` and `pipe` share the API client's cache
directory; the panel starts further `mem` processes on the same SQLite file;
the local store asks the global service over HTTP. The desktop page calls the
Rust bridge, the bridge writes lines to the stdio server and forwards its
notifications, and the server runs the TypeScript orchestrator on three
sidecars that all its runs share.

The generator asks arXiv, runs its experiment in a sandbox of the host and a
model of some provider; the cloud gateway puts the keys for these providers
into its own environment, from which the sidecars of a run inherit them.

What is hard: several processes on one SQLite file and several instances on one
Postgres, each reading in one statement and writing in another; clients that
time out while their request runs on; sidecars that fail in the middle of a
run; registries, models and hosts that are silent, refuse or answer garbage; an
environment that the runs of many users pass through; an event queue with several consumers; and
runs that depend on what earlier runs wrote. `PROJECT.json` lists these at
their lines, under `hazards`.

## Modules

Every module is short of the code it stands for: texts, timestamps, hashes and
display counters are left out, a lesson or a claim is a model value, and what a
text decides is a constant (`Abstract`: which patterns `desensitize()` lets
through). Definitions whose comment starts with *Mutant* are plausible wrong
versions of the next definition; they are used by no specification.

| Module | Models | State and actions |
|---|---|---|
| `GlobalMemory` | the global table, every operation atomic | `rows`; `Promote`, `Revoke`, `VoteDown`, `Query` are the four methods. It is what a caller may expect, and the abstract specification of `GlobalService` |
| `GlobalService` | handlers of several instances on one database | `thread[t]` is a handler before its lock, or between SELECT and write; `Begin` is lock + SELECT, `Commit` the write; `Timeout` is the client giving up, `Restart` an instance dying; `failedTx` the connections in a failed transaction. The rows written are `GlobalMemory`'s |
| `LessonRow` | a row of `verify_lesson` and what the methods write into it | shared by the next two |
| `ExperienceStore` | sidecars on one SQLite file, statement by statement | `UpsertSelect`/`UpsertWrite`, `PromoteSelect`/`PromoteWrite`, `UplinkAsk`/`UplinkActive`, `Revoke`, `Inject`; `FinishOrDie` also ends a sidecar anywhere. `upserts` and `raised` are history: the upserts that committed and those whose INSERT raised |
| `Federation` | several local stores and the global memory | local methods atomic, `promote_to_global` in two steps (`Uplink`, `UplinkAnswer`) whose answer may be lost; extends `LessonRow` and `GlobalMemory`, whose `Promote`, `Revoke` and `VoteDown` it calls and whose specification it implements |
| `SignoffGate` | what signing promises: verified green, then confirmed, then signed | abstract specification of `Orchestrator` |
| `Orchestrator` | `run()` as a line of stages with its three sidecars, over several runs | one action per stage; `CallDead`, `CallFails`, `Dies` are the failures; `RevokeFromPanel` the user's panel. `Distilled` and `Upserted` are the flywheel, `Cites` the guard of `hypothesize` |
| `Citation` | `verify_citation` over four sources that may be silent, and the scorer of relevance | one action per lookup, `Judge` the table of the verdict; `Scorer` is `get_scorer`, `LlmScore` what a model's reply counts for |
| `Derivation` | which numbers a run log bears out: ranges, dimensions, derivations of one operator | pure definitions over fractions of integers; `InRange` is `check_value`, `Consistent` `check_expression`, `Recomputes` `verify_explicit`, `Discovered` `discover` |
| `Kernel` | `run_verify` over the claims of a draft | one action per type of claim; a citation goes through the steps of `Citation`, which it extends; `report` is the list the gate of a run looks at |
| `ApiClient` | `_get`: breaker, cache, retries, in several processes | `Ask` up to the request, `Response`/`AttemptFails`, `Store`/`StoreFails`, `Die` |
| `Shell` | the desktop application: page, bridge, stdio server, multiplexed calls | `Spawn`, `SpawnPanics` are the start of npx and of the windows, `ServerReady` and `ServerFails` what comes of it; `WatchdogWakes`/`WatchdogActs`, `BridgeReads` are the bridge's threads; `Start`, `Click`, `Reload` the page; `HandleStart`, `HandleResolve`, `Answer`, `Timeout` what the server's one thread does between two waits (`GoesOn`) |
| `CloudGateway` | the gateway of many users: tokens, vaults, the environment of the process, sessions, streams | `Listed`, `Inject`, `Spawn`, `Restore` are the body of `_run_bg` under the lock, provider by provider; `PutKey` replaces a key meanwhile; `Restart` changes the master key. `inForce` is history: the keys a run's owner had in force while it was injecting |
| `Sandbox` | one run of a program in either backend | `EnterBox`, `WriteFails`, `Launch` (which limits are granted), `Exits`, `Probe`; `box` is the run, an action of whoever uses it |
| `Exploration` | `allocate` and `measure` as functions, in tenths | `Round` is Python's rounding, half to even; no state |
| `Generation` | one generation after the other in the `pipe` sidecar, over `Sandbox` and `Exploration` | `Finds` ... `FindsGarbage` are `literature` and `_fetch`, `Ladder` the queries; `Hypothesize`, `Experiment`, `AskModel`, `SpecFails`, `SpecAnswers`, `Report` the rest of `run_pipeline`. A draft is the set of what it mentions; `Extract` is `extract_claims`, called by the pipeline (`Additions`) and by the kernel |
| `Gateway` | run threads, the lock, gates, decisions, event queues and streams | `AskGate`, `TakeDecision`, `Resume` are `ask()`; `PostGate` is `resolve_gate`; `Deliver`, `KeepAlive` are `_sse` |

`Orchestrator` and `Generation` look at the same generator from two sides: the
first at what a run makes of it (the guard, the citation made up), the second at
how one draft comes about.

Steps merged, and why it is sound. In `GlobalService` the lock is taken and the
SELECT done in one step: between the two nothing is read or written. In
`ExperienceStore` an UPDATE, the INSERT into the promotion log and the commit
are one step: they are one SQLite transaction, which other connections see at
once. `status_for` and `list_contributions` only read and are the operator
`PanelScope`. In `Orchestrator` the methods of the store are one step per call
(`ExperienceStore` interleaves them); a `mem.write_from_report` that fails has
committed the claims it had reached, in any order (`CallFails`). In `Gateway`
the sidecars are closed, the lock is released and the last two events are put
in one step (`Ends`): a stream that takes the result before the end marker is
there waits for it, and no property tells the difference. In `CloudGateway` the `finally` of a run, the release of the lock and the `_end`
event are one step, a run has one gate, and the thread of a run opens its vault
in one step that may fail; opening a second stream of a run is `Gateway`'s. In
`Generation` a draft is chosen when the model answers, and only one generation
is under way, as in the sidecar (`pipeline/server.py:9`). `Decide` for
`share_consent` is kept although no run reaches it, because the code has it
(see `PromptedAtThreshold` below). In `Shell` a sidecar's answer and `onData`
are one step, since what the sidecar did is not looked at; and a run goes on in
the step that handles its line, although two lines that arrive in one chunk are
both handled before the first one's promise continues (`server.ts:76-79`): the
second then finds no promise and is dropped, which can only happen to a
decision for a gate two runs have asked at, the case `lost` sets apart.

## Runs

Eleven runs pass. TLC explores every state within the bounds.

| Run | Bounds | What it shows |
|---|---|---|
| `MCGlobalMemory` | 3 contributors, 2 lessons, 3 votes, 1 reuse | the gate is exact, nothing below it is ever served, and only a revocation changes the status of a retracted lesson |
| `MCGlobalService` | 1 instance, 2 handlers, 3 users, 2 lessons of which 1 may be shared, 1 timeout, 2 calls each | the service implements `GlobalMemory`; what was answered ok to clients that wait stands |
| `MCExperienceStore` | 2 sidecars, one fabrication and one gap, counts to 3 | committed upserts are neither lost nor doubled, killed processes included; of those that race for the first INSERT fewer are lost than there are sidecars; withdrawn lessons never come back |
| `MCFederation` | 2 stores, 2 users, 1 lesson, 3 votes | every counted contributor met the failure; a local mark `global` was earned |
| `MCOrchestrator` | 2 runs at levels 1 and 6, a citation, a number and the made-up citation, every verdict, one death, one error, one revocation | signing needs green and a human; a block leaves its lesson; the generator is guarded only by a rejection; once its lesson is stored the made-up citation is not drafted again; undisturbed, the blocked run is followed by a signed one; every run ends |
| `MCApiClient` | 2 processes, 2 URLs of one registry, breaker at 2, 1 retry, one death, one failed write | answers are true, calls count once, calls end |
| `MCKernel` | every kind of citation with every pattern of answers and silence; 10 values, 13 derivations, 6 logs; 48 mechanisms, indexed or not; formulas of up to 2 C, 7 H, 1 N, 1 halogen; each claim alone and a few of each type in pairs | a citation the code recognises gets the verdict of the documented rule when all answer, is rejected only when a registry has denied it, and passes only on a source that holds it; a green report has evidence for each claim; impossible values of any quantity never pass; what the index is not known to support needs computation; more log never takes evidence away |
| `MCShell` | a start with and without npx and a server, 2 runs at levels 1 and 6, one reload, one sidecar that dies, one that raises | an answer, however late, wakes the run that asked or nobody; the run signed is the one the human saw, unless the page is reloaded during a run; every run ends while the server is up; nobody who sees the splash screen is left with it |
| `MCGateway` | 2 runs, 2 gates each, 3 streams of which 2 compete, 1 client gone, one decision more than gates | each run is signed by the first decision accepted for each of its gates; a client gone costs at most one event; every run ends and is shown its result while no client goes away |
| `MCCloudGateway` | 1 instance, 2 users with a run each, 1 provider with a variable and 1 without, 3 keys, 2 master keys, 2 keys stored, 1 restart | outside of a run the environment is the one the process was started with; a run sees only keys of its owner that were in force in its turn; streams end unless the thread died before the `try` |
| `MCGeneration` | 2 papers, 2 DOIs that end alike, 1 identifier of the old style, 2 sentences of which one has two numbers, 5 chains of models, 5 hosts, 3 attempts per query, ladders of 1 to 3 queries | the exploration budget is met; limits of the local sandbox that did not hold are told; every request is answered |

Why these bounds are enough. The gate is at 2 contributors and 3 users give
one below, one at and one above it, so a revocation can leave a lesson above
the gate; votes go to their limit. Two lessons show that operations on one
leave the other alone. Two handlers, sidecars or processes are enough for a
read and a write of one to enclose a write of the other, and every code path
involves at most two. Counters go past their thresholds (`MinRepro`, `Break`,
`Retry`). Two runs are a run that learns and one that was taught. In
`Orchestrator` the made-up citation is a second claim of its type. In
`Kernel` claims share nothing but the report, so pairs show all they can do to
each other; numbers have two decimals, which is where `_MIN_PRECISION` starts
to accept derivations, and whole parts below a thousand; a derivation is one of
the seven shapes of `_BINARY` or an operand alone. In `MCCloudGateway` one run
holds the lock while the other waits, and a key can be replaced in that time; a
second instance shares only vaults and tokens, which `PutKey` and `Restart`
disturb just as well, so it is left to the proofs and to `AnyInstanceServes`. In
`MCGeneration` the hosts are Linux, macOS (which refuses a limit), a Python
without one of the constants, Windows, and docker; the pools of hypotheses have
three to five members, which is all the pipeline makes. Bounds that are not in the code (`MaxVotes`,
`MaxReuse`, `MaxRepro`, `MaxCalls`, `MaxTimeouts`, `MaxRuns`, `MaxDeaths`,
`MaxErrors`, `MaxRevokes`, `MaxExtra`, `MaxGone`, `MaxDiskErrors`,
`MaxReloads`, `MaxPuts`, `MaxRestarts`) stand in the
guards and are named in the constants of each module. `Break` and `Retry` are
smaller than in the code (4 and 2), the threshold behaves the same. Symmetry is
used only in runs without liveness, over sets no action or property
distinguishes.

Fairness. `Orchestrator`: the steps of `run()` are weakly fair, so sidecars
answer or die and the human answers the gates; `RpcClient.call` ignores its
`timeout` parameter (`rpc.py:13`), so a sidecar that stays alive and silent
would hang a run, and that is assumed away. The command line starts run after
run (`run_cli.py:20-22`). Deaths, errors and revocations are never forced.
`Gateway`: threads run, `threading.Lock` is given to a thread that keeps asking
(strong fairness of `Acquire`, as other runs take and release it), and a client
that was shown a gate answers it; `GoAway` is never forced. A human who never
answers holds the lock of every other run (`gateway.py:52`): that is not a
property of the code one could hope for. `ApiClient`: every request has a
15 s timeout, so an attempt ends; asking is up to the caller. `Shell`: timers
fire and threads run, whatever the sidecars do; the human answers a dialog;
the bridge starts npx or
panics; the server behind it may fail to start, so that only the watchdog is left. `CloudGateway`:
as `Gateway`, with strong fairness for the lock; keys, tokens, runs and restarts
are never forced. `Generation`: one thread, each of whose calls has a timeout
(search 30 s, model 40 s, experiment 20 s or 60 s, probe 15 s), so `Step` is
weakly fair; which way a call ends is free, and requests are up to the caller. The runs with
`CHECK_DEADLOCK FALSE` model systems that come to rest: all runs done, the claim
judged, the bound on runs used up. The other specifications never stop.

## Where documents and code differ

One run is a counterexample to what the repository says of itself.

- `MCLostUpdate`: with two instances on one database a revocation that was
  answered ok is undone by a promotion that had read the row before
  (`global_store.py:43`). `deploy/STORAGE.md:32` describes an
  `INSERT ... ON CONFLICT DO UPDATE` the code does not have.
The modules state further such properties, each in a section of its own at
their end. TLC violates every one of them; to see it, put the property in the
place of the properties of the configuration named.

| Property | Configuration | What happens |
|---|---|---|
| `GlobalMemory!VotedDownStaysDown` | `MCGlobalMemory` | three contributors, three votes, one revocation: `revoke` makes the lesson active again (`global_store.py:65`), though votes take it down (`global_store.py:2`, `contracts/memory.proto:15`) |
| `GlobalMemory!RevokeWithdrawsOwnContribution` | `MCGlobalMemory` | somebody who contributed nothing revokes a pending lesson and it is retracted (`global_store.py:64`, `contracts/memory.proto:13`) |
| `GlobalService!RevocationHolds` | `MCGlobalService` | a promotion whose client gave up after 20 s runs after the same user's revocation (`remote_global.py:14`) |
| `GlobalService!NoInstanceWedged` | `MCLostUpdate` | two instances insert the same lesson, one raises, nothing rolls back, and its connection refuses all further work (`global_store.py:46`) |
| `ExperienceStore!WithdrawnIsPrivate` | `MCExperienceStore` | a promotion between whose SELECT and UPDATE the lesson is withdrawn leaves it withdrawn and shared (`store.py:122`, `:147`) |
| `ExperienceStore!PromotionsAreLogged` | `MCExperienceStore` | `promote_to_global` writes no line into the audit table (`store.py:147`, `docs/ARCHITECTURE.md:185`) |
| `ExperienceStore!NoUpsertIsLost` | `MCExperienceStore` | two sidecars find no row for the same failure, the INSERT of the second raises on the signature (`store.py:87`), and that failure is lost with the rest of its report; `store.py:68` has each reject upserted and counted when it recurs |
| `Federation!PanelTellsTheTruth` | `MCFederation` | the panel shows `global` for what the global memory does not serve (`store.py:163` only ever raises the scope; `store.py:152` promises the real one) |
| `Federation!WithdrawnEverywhere` | `MCFederation` | revoking from the panel leaves the contribution in the global memory (`store.py:127`, `docs/ARCHITECTURE.md:146`) |
| `Federation!GapsNeverServed` | `MCFederation`, `Signatures` and `Abstract` `<- MCSignatures` | the class of a lesson is not sent with it, so a gap is served (`global_store.py:53`, `store.py:97`) |
| `Orchestrator!GuardKeepsConfirmedOnly` | `MCOrchestrator` | the guard keeps a citation arXiv could not be asked about (`pipeline.py:126`, whose comment says only confirmed ones) |
| `Orchestrator!PromptedAtThreshold` | `MCOrchestrator` | the user is never asked to share a lesson (`orchestrator.py:61`), since a lesson is only written for a claim that is not green, and then the run is blocked two lines earlier (`docs/ARCHITECTURE.md:160`) |
| `Orchestrator!ReproducedIndependently` | `MCOrchestrator` | one report with two bad citations counts as two reproductions (`store.py:83`, `docs/ARCHITECTURE.md:172`) |
| `ApiClient!CachedVerdictStands` | `MCApiClient` | an open breaker answers before the cache, so a known denial becomes unknown (`apis.py:182`, `docs/REACHABILITY.md:85`) |
| `ApiClient!NeverRaises` | `MCApiClient` | a cache file being written by another process, or left half-written, makes `_get` raise (`apis.py:186`, `:206`; `apis.py:53-56` says failures become unknown) |
| `Citation!RealNeverRejected` | `MCKernel` | with CrossRef out of reach, DataCite's 404 for a CrossRef DOI (or the reverse) makes a real citation a fabrication (`apis.py:310`); the comment at `apis.py:311-312` requires both registries to deny |
| `Citation!UnrecognisedIsUnknown` | `MCKernel` | a DOI outside the regular expression is a fabrication (`apis.py:289`, `docs/REACHABILITY.md:101`) |
| `Kernel!UnloggedIsNoFabrication` | `MCKernel` | a derivation over a name the log does not print is rejected as a contradiction of dimensions (`verify.py:122-125`, `dimensions.py:102-103`), and a lesson is made of it; `kernel.py:8-9` keeps reject for what is contradicted |
| `Kernel!DerivedFromLog` | `MCKernel` | a derivation that names nothing, such as the number itself, bears out any number (`verify.py:126-130`); `derivation.py:11` has derivations refer to the quantities of the log |
| `Kernel!PassIsRecomputable` | `MCKernel` | the log prints 0.58 and the claim of 0.5 passes, since its digits occur in the log (`verify.py:110`); `README.md:262` says traceable or recomputable |
| `Shell!DecisionsAreForTheirRun` | `MCShell` | after a reload two runs stand at one gate, and the decision for one signs the other: the server keeps promises by gate, the contract requires the run (`contracts/ipc.schema.json:42`, `server.ts:49`) |
| `Shell!StatusIsShown` | `MCShell` | `run_start` answers nothing and the bridge drops the result, so the page shows *running* and keeps its button disabled for good (`lib.rs:28`, `:87`, `App.tsx:31-32`) |
| `Shell!BannerMeansDown` | `MCShell` | the server gets ready after the watchdog's test and before its message; the page then says there is none (`lib.rs:64-67`) |
| `Shell!EveryStartShowsWindow` | `MCShell` | without npx the bridge panics before there is a window or a watchdog (`lib.rs:47`), although the watchdog and its message are for a runtime that is missing (`lib.rs:13`, `:59-60`, `:67-70`) |
| `Gateway!ResultSurvivesReconnect` | `MCGateway` | the stream of a client that is gone takes the result out of the queue and loses it (`gateway.py:121`) |
| `Gateway!StreamsEnd` | `MCGateway` | of two streams of one run only the one that takes `_end` ends (`gateway.py:124`) |
| `CloudGateway!AnyInstanceServes` | `MCCloudGateway`, `Instances = {"i1", "i2"}` | the metadata of a run go to Redis (`gateway_cloud.py:91`) and nobody reads them: another instance knows neither the stream nor the gates of the run, although `gateway_cloud.py:24` and `sessions.py:1` have sessions for several instances |
| `CloudGateway!EveryStreamEnds` | `MCCloudGateway` | the vault is opened before the `try`: a failure there (`gateway_cloud.py:38`) ends the thread without an error or an end, and the stream waits for good |
| `Generation!EveryProviderServes` | `MCGeneration` | the adapter of Gemini takes three arguments and is given four (`router.py:30`, `:48`), so that no answer of Gemini is ever used; `model/README.md:10` lists it |
| `Generation!LooseOnlyAfterMisses` | `MCGeneration` | a query that failed on the network counts as one without hits, and the loose one follows (`pipeline.py:91`, against `:38`) |
| `Generation!EveryIdentifierJudged` | `MCGeneration` | an arXiv identifier of the old style is not looked for in a draft (`extract.py:13`), so a made-up one is never judged; `pipeline.py:252` has whatever the model cited verified |
| `Generation!EveryNumberVerified` | `MCGeneration` | of a sentence with two numbers only the first becomes a claim (`extract.py:6`, against `:2`): of "from 50% to 60%" nobody judges the 60 |
| `Generation!ModelNeverFails` | `MCGeneration` | an OpenAI-like model that answers null for its text ends the generation (`pipeline.py:233`, outside the `try`), where `:194` has the template take over; the same answer raises in the scorer of relevance (`relevance.py:55`) |
| `Generation!TemplateHasGain` | `MCGeneration` | when the experiment was blocked the template states an improvement of None% (`pipeline.py:263`) |

Seen while modelling, and not stated as a property: with the smallest ratios
`allocate` picks no unlikely hypothesis, with others it rounds below the
budget it promises (`exploration.py:39`), and it never picks more unlikely ones
than needed, so that the lower bound of `exploration.py:10` is also the upper
one; `measure` compares a rate rounded to three digits. When the experiment was
blocked, the mechanisms still carry it as their evidence (`pipeline.py:268-279`).
`_ANY_MODEL_KEY` knows neither local models nor `OPENSCI_MODEL`
(`pipeline.py:186`). The sandbox makes a process group and kills only its first
process (`sandbox.py:109`); an unknown limit raises in the child, against
`sandbox.py:70`; a network that could not be cut off is not among the limits
told (`sandbox.py:56`); the container backend reports no missing limits, and a
container outlives its timeout (`sandbox.py:152`).

## Proofs

The theorems hold for every value of the constants that satisfies the
assumptions of the module (finite sets of contributors, a gate of at least 2,
bounds in Nat, gates with names of their own, claims that are well formed;
`GlobalMemory` says why a gate of 1 would not do). Every safety property that a
passing run checks has its theorem.

- `GlobalMemoryProofs`, the table: `TypeCorrect`, `GateHolds` (`QualityGate`),
  `CountIsExact`, `NoReuseBelowGate`, `RetractionHolds`. The inductive invariant
  is type correctness and, for each row, the gate in both directions, the exact
  count, and that a pending row was never served. The last is not inductive
  without the others: it rests on there being no way back from active to
  pending, because the contributors of an active row only shrink through
  `Revoke`, which retracts.
- `GlobalMemoryProofs`, the service: `ServiceTypeCorrect` and
  `GateHoldsUnderRaces` for any number of instances. A handler may write back
  contributors it read long ago, so nothing can be said of whose contribution is
  in the table; what is said is that status and count are computed from the very
  set that is written (`WrittenRow`). With a single instance the invariant
  `LockInv` says that at most one handler is between its read and its write and
  that what it read is still in the table, so that `Commit` is one atomic
  `Promote` or `Revoke` and every other step a stutter: `SingleInstanceImplements`
  (refinement of `GlobalMemory`). `AnswersAreKept` (`AnswersStand`) adds in
  `AnswerInv` that a user who has asked for something has one handler at work and
  no answer that stands, for as long as nobody gives up.
- `GlobalMemoryProofs`, the federation: `CountedContributorsFailed`
  (`ContributorsReproduced`) and `GlobalMarksAreEarned` (`GlobalMarkEarned`) for any
  stores and users. An answer may arrive after the lesson was voted down, so
  `FederationInv` ties it to what has ever been active, and each local row to the
  user who met the failure. `FederationImplementsMemory` is the refinement: each
  step of the stores is a step of `GlobalMemory` or leaves its table alone, so that
  its gate holds there as well (`FederationKeepsGate`).
- `ExperienceStoreProofs`: `StoreTypeCorrect`, `UpsertsCount` (`EveryUpsertCounts`),
  `WithdrawalHolds` (`WithdrawnForGood`) and `LossesAreBounded` (`LostAtBirthOnly`)
  for any finite number of sidecars. An UPDATE follows a SELECT that other
  sidecars may have made stale, so the invariant says that a row once found is still there, and that one not there has no
  count; what is withdrawn then stays so because no statement but the INSERT
  sets the status to active, and the INSERT needs that there is no row.
  `LossInv` counts the upserts lost together with the sidecars that have still to
  find out that the row is there: the first INSERT leaves one sidecar fewer of
  these than there are, and none joins them afterwards.
- `OrchestratorProofs`: `HumanSigns` (`HumanSignsGreen`) and `ImplementsGate`
  (`SignedIsEarned`, refinement of `SignoffGate`). `Package` asks nothing, so the
  invariant `GateInv` carries what `Check` and `Decide` found out to the end.
  `OrchestratorTypeCorrect`, `BlocksAreRemembered` (`BlockedIsRemembered`) and
  `GuardNeedsRejection` (`GuardedByRejection`), for any claims: a call that fails
  half-way has written some lessons and not others, so `MemInv` says of every
  lesson about fabricated citations, complete or not, that a rejected citation
  is behind it, and that no step between the flywheel and the block takes a
  lesson away. `LessonKeepsItOut` (`NeverDraftedAgain`): the guard is read at
  `Inject` and used at `Generate`, and in between nothing writes the lesson; a
  draft that holds the citation was therefore made before there was a lesson,
  and `CaughtInv` says so of every draft between the generator and the flywheel.
  The property has a hypothesis about the whole behaviour, so the invariant is
  proved of the steps that keep the hypothesis. It speaks of the lesson, not of
  the rejection: a write that fails before the citation leaves no lesson, and the
  next run drafts it and is rejected again.
- `KernelProofs`, the verdicts: a citation is looked up in several steps, and a
  source is asked once, so `LayersTrue` says which questions have been asked
  before the next one, and that what a layer found is never contradicted by a
  later silence (`CitationsEvidenced`, `PassIsEvidenced`). `ToldInv` adds that
  while every source answers each layer says what its source says, and that a
  layer that was denied has a source behind it that answered (`VerdictsAreTold`,
  `RegistriesDecide`). `VerdictsAreRulings` makes of the report, for any drafts and
  logs, a sequence of rulings on the claims in their places, and the properties
  of reports follow from what a ruling can be: `NoveltyComputed`
  (`NoveltyNeedsComputation`), `ImpossibleStopped` (`ImpossibleNeverPasses`, of
  every quantity that has a range), `GreenHasBacking` (`GreenIsBacked`: rounding,
  `RoundsTo` against a tolerance of half a unit, in integers) and `LongerLogsProve` (`MoreLogNeverUnproves`: the last
  line of a name in the log is found by `CHOOSE`, and lines under other names do
  not move it; `discover` then still finds the pair it found).
- `KernelProofs`, the client: `ApiTypeCorrect` and `DenialsAreTrue`
  (`AnswersAreTrue`) for any number of processes and any thresholds. An answer may
  come from a file another process wrote, so the invariant adds that every
  readable file holds the truth; that the counters stay within `_BREAK` needs that
  nobody asks while the breaker is open. `OneFailure` (`OneFailurePerCall`) is the
  action property, from the same invariant.
- `GatewayProofs`: `GatewayTypeCorrect`, `SignedOnOwnDecisions`
  (`SignedByItsDecisions`) and `OneEventPerClient` (`LeavingLosesOne`), for any number
  of runs, gates and streams. `DecisionsOf` relates the queue of a gate to the
  decisions accepted so far: the head of the queue is the first accepted for the
  gate that waits, and none was accepted for a gate not asked yet. `LossInv` bounds
  the events lost together with the broken streams, since each of those loses at
  most one more.
- `ShellProofs`: `AnswersReachTheirCaller` (`AnswersMatchCalls`) and `SignedIsSeen`
  (`SignedAsSeen`), for any number of runs. The first rests on `WaitInv`: a run waits
  in one place only, and an id is given out once, so that a request in a pipe
  whose id has a waiter is that waiter's. The second rests on the page: `SeenInv`
  says that, unless the page was reloaded during a run, there is one active run,
  and one request of a gate between it and the human, as a notification, as the
  dialog or as the decision on its way back. `BoundedIds` shows that the bound
  `Ids` on request ids, over which timeouts and crashes are quantified, leaves none
  of them out: the ids given out and the calls still ahead of the runs are together
  never more than two for each run.
- `CloudGatewayProofs`: `EnvironmentIsRestored` (`EnvironmentRestored`) and
  `OwnKeysAreInForce` (`OwnKeysInForce`) for any number of instances, users,
  providers and keys. The two rest on each other's parts: `LockInv` says that a
  lock and the thread that holds it agree, `SavedInv` that what a thread has
  saved is what the process was started with and what it has not saved still
  is, `KeyInv` that what a thread has injected was in force in its turn.
- `GenerationProofs`: `LimitsReported` (`UnsetIsReported`) and `JailIsRemoved` from
  an invariant on each run of the sandbox that knows which limits were in force;
  `FirstHitMatches` for any outcome of the search; and `DefaultBudgetMet`
  (`BudgetMet`), which assumes the default ratio of 0.30 and needs that the pool
  has three to five members.

Three theorems assume more than their module does, because the code needs it:
`SingleInstanceImplements` and `AnswersAreKept` a single instance (`MCLostUpdate`
shows what two do), `DefaultBudgetMet` the default ratio.

Only model-checked: everything under fairness (`EveryRunEnds`, `EveryCallEnds`,
`ResultIsShown`, `StreamsEnd`, `EveryGenerationEnds`, `NeverStuckOnSplash`,
`BlockedThenSigned`), which is out of the prover's reach. The type
invariants are proved rather than checked by the runs, in which they held too:
those of `GlobalMemory`, `GlobalService`, `Federation` (within `FederationInv`),
`ApiClient`, `ExperienceStore`, `Orchestrator`, `Gateway`, `CloudGateway`,
`Generation` and `Shell`. So are `CountsDistinctContributors` and, for every number
of instances, `GateSurvivesRaces`.

## Not modelled

- The sovereignty methods of the stdio server, which start a sidecar of their
  own (`server.ts:30-38`), and the panel of the page, which never gets their
  answers (the bridge drops them, as it drops the result of a run).
- Metrics (`metrics.py`): counters over finished reports, which nothing reads back.
- The experiments on narrowing, `scripts/doctor.py` and `record_fixtures.py`, the
  diagrams and the generated types: programs of their own or data.
- In `Sandbox`: what a limit does to a program; in `Generation`: prompts, the text
  of drafts, the regular expressions that find identifiers and numbers; in
  `CloudGateway`: the encryption itself, `KeyVault.delete` and the deletion of
  sessions, which nobody calls, and authentication but for who owns a token.
- In `Kernel`: nested expressions and powers, numbers without decimals as
  claims, SMILES, and the parsing of names, texts and formulas (`Semantic`
  and `says` are what `infer_semantic` makes of them). `server.py:15` passes
  neither artifacts nor a domain to `run_verify`, so packages and domain claims
  only come from those who call it directly; the model has them.
- Authentication, logging, packaging.
- Of modelled parts: the time decay and order of injected lessons
  (`store.py:105-113`), throttling and back-off (`apis.py`), recorded fixtures
  (`apis.py:189-195`), the pipe of a sidecar's stderr filling up (`rpc.py:10`),
  denials that become outdated in the cache (`apis.py:214`).

## Plan

Done: the flywheel (global memory, service, local store, federation), the run
and its gate, the evidence (kernel, citation, API client), the two gateways, the
generator with its sandbox and models, the desktop application; proofs for eight
modules. Next, in this order:

1. `ApiClient` with a registry that changes its answer, and the recorded answers of
   the offline mode.
2. The composition of `Generation` with `Citation`: a draft whose citations are
   judged by the sources that also answered the search.
