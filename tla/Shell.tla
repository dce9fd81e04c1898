-------------------------------- MODULE Shell --------------------------------
(***************************************************************************)
(* The desktop application: the page (apps/shell/src/App.tsx), the Rust    *)
(* bridge (src-tauri/src/lib.rs), the stdio server (orchestrator-ts/src/   *)
(* server.ts) with its one Orchestrator, and the multiplexed calls of      *)
(* rpc.ts to the three sidecars.                                           *)
(*                                                                         *)
(* The server is one JavaScript thread: an action is what it does between  *)
(* two waits, up to the next gate or call.  Nothing keeps two runs from    *)
(* overlapping there but the button of the page.  Log events are left out, *)
(* and so is share_consent, which no run reaches: a report with lessons is *)
(* not green (orchestrator.ts:49-55; see Orchestrator!PromptedAtThreshold).*)
(***************************************************************************)
EXTENDS Naturals, Sequences, FiniteSets

CONSTANTS
    Runs,        \* the runs the user may start
    Levels,      \* the autonomy levels offered
    NoRun,       \* no run
    MaxReloads,  \* bound on the reloads of the page
    MaxDeaths,   \* bound on the sidecars that die
    MaxErrors    \* bound on the requests a sidecar fails at

Sidecars == {"mem", "pipe", "coe"}
GateIds == {"topic_confirm", "experiment_design", "pre_signoff"}
Decisions == {"approve", "reject"}
Results == {"none", "signed", "blocked", "aborted", "failed"}

\* The sidecar asked at each stage that is a call.
Callee == [query |-> "mem", generate |-> "pipe", verify |-> "coe", write |-> "mem"]
Calls == DOMAIN Callee

\* No run of the code makes more calls to one sidecar than two.
Ids == 1 .. 2 * Cardinality(Runs)

ASSUME ShellAssumption ==
    /\ IsFiniteSet(Runs) /\ NoRun \notin Runs
    /\ Levels \subseteq 0 .. 6
    /\ {MaxReloads, MaxDeaths, MaxErrors} \subseteq Nat

VARIABLES
    server,    \* the server process; missing when there was none to spawn
    ready,     \* the bridge's flag
    watchdog,  \* the bridge's start-up thread; late when it has read ~ ready
    window,    \* the window on the screen, if there is one
    page,      \* the state of the page: running button, gate asked, banner
    toServer,  \* lines written to the server and not handled
    toPage,    \* notifications not yet read by the bridge
    at,        \* the stage each run waits at; sent before the server has it
    autonomy,  \* the level of each run
    result,    \* how each run ended
    green,     \* what coe said of each run
    gates,     \* pendingGates: the run whose promise is registered per gate
    pending,   \* pending[s]: the waiters of RpcClient s, by request id
    nextId,    \* nextId[s]
    inbox,     \* inbox[s]: requests in the pipe of sidecar s, with their run
    dead,      \* sidecars that died
    seen,      \* seen[r]: the run of the request the human answered, at the
               \* last gate run r was let through, for the properties
    lost,      \* the page was reloaded during a run
    spent      \* how much of the bounds is used up

uiVars == <<ready, watchdog, window, page>>
runVars == <<at, result, green, gates, pending, nextId, inbox>>
vars == <<server, uiVars, toServer, toPage, runVars, autonomy, dead, seen, lost, spent>>

Requests == [id : Ids, run : Runs]
PartialFunctions(S, T) == UNION {[D -> T] : D \in SUBSET S}

TypeOK ==
    /\ server \in {"none", "missing", "starting", "up", "down"}
    /\ ready \in BOOLEAN
    /\ watchdog \in {"none", "asleep", "late", "done"}
    /\ window \in {"none", "splash", "main"}
    /\ page \in [running : BOOLEAN, banner : BOOLEAN,
                 gate : GateIds \union {"none"}, of : Runs \union {NoRun}]
    /\ toServer \in Seq([run : Runs, gate : GateIds \union {"start"},
                         decision : Decisions \union {"none"}])
    /\ toPage \in Seq([gate : GateIds \union {"ready"}, run : Runs \union {NoRun}])
    /\ at \in [Runs -> GateIds \union Calls \union {"none", "sent", "ended"}]
    /\ autonomy \in [Runs -> Levels \union {0}]
    /\ result \in [Runs -> Results]
    /\ green \in [Runs -> BOOLEAN]
    /\ gates \in [GateIds -> Runs \union {NoRun}]
    /\ pending \in [Sidecars -> PartialFunctions(Ids, Runs)]
    /\ nextId \in [Sidecars -> Nat \ {0}]
    /\ inbox \in [Sidecars -> Seq(Requests)]
    /\ dead \subseteq Sidecars
    /\ seen \in [Runs -> Runs \union {NoRun}]
    /\ lost \in BOOLEAN
    /\ spent \in [{"reloads", "errors"} -> Nat]

Init ==
    /\ server = "none" /\ ready = FALSE /\ watchdog = "none" /\ window = "none"
    /\ page = [running |-> FALSE, banner |-> FALSE, gate |-> "none", of |-> NoRun]
    /\ toServer = <<>> /\ toPage = <<>>
    /\ at = [r \in Runs |-> "none"] /\ autonomy = [r \in Runs |-> 0]
    /\ result = [r \in Runs |-> "none"] /\ green = [r \in Runs |-> FALSE]
    /\ gates = [g \in GateIds |-> NoRun]
    /\ pending = [s \in Sidecars |-> [i \in {} |-> NoRun]]
    /\ nextId = [s \in Sidecars |-> 1]
    /\ inbox = [s \in Sidecars |-> <<>>]
    /\ dead = {} /\ seen = [r \in Runs |-> NoRun] /\ lost = FALSE
    /\ spent = [b \in {"reloads", "errors"} |-> 0]

Active(r) == at[r] \notin {"none", "ended"}

-----------------------------------------------------------------------------
(* The start of the application *)

\* The bridge starts npx, then the windows and the watchdog.
Spawn ==
    /\ server = "none"
    /\ server' = "starting" /\ watchdog' = "asleep" /\ window' = "splash"
    /\ UNCHANGED <<ready, page, toServer, toPage, runVars, autonomy, dead, seen,
                   lost, spent>>

\* There is no npx: the expect panics, and the application ends before it has
\* a window or a watchdog.
SpawnPanics ==
    /\ server = "none"
    /\ server' = "missing"
    /\ UNCHANGED <<uiVars, toServer, toPage, runVars, autonomy, dead, seen, lost, spent>>

\* server.ts, last line.
ServerReady ==
    /\ server = "starting"
    /\ server' = "up"
    /\ toPage' = Append(toPage, [gate |-> "ready", run |-> NoRun])
    /\ UNCHANGED <<uiVars, toServer, runVars, autonomy, dead, seen, lost, spent>>

\* npx has started, and tsx, Node or the script behind it is missing or raises.
ServerFails ==
    /\ server = "starting"
    /\ server' = "down"
    /\ UNCHANGED <<uiVars, toServer, toPage, runVars, autonomy, dead, seen, lost, spent>>

\* After STARTUP_TIMEOUT the watchdog reads the flag, once.
WatchdogWakes ==
    /\ watchdog = "asleep"
    /\ watchdog' = IF ready THEN "done" ELSE "late"
    /\ UNCHANGED <<server, ready, window, page, toServer, toPage, runVars,
                   autonomy, dead, seen, lost, spent>>

\* Mutant of WatchdogActs: the page is told, the window stays hidden.
WatchdogTells ==
    /\ watchdog = "late"
    /\ watchdog' = "done"
    /\ page' = [page EXCEPT !.banner = TRUE]
    /\ UNCHANGED <<server, ready, window, toServer, toPage, runVars, autonomy,
                   dead, seen, lost, spent>>

\* It shows the window and tells the page, whether or not the server has
\* become ready since.
WatchdogActs ==
    /\ watchdog = "late"
    /\ watchdog' = "done"
    /\ window' = "main"
    /\ page' = [page EXCEPT !.banner = TRUE]
    /\ UNCHANGED <<server, ready, toServer, toPage, runVars, autonomy, dead,
                   seen, lost, spent>>

\* The reader thread of the bridge.  Only notifications are forwarded: the
\* answers of the server, with the results of the runs, are dropped.
BridgeReads ==
    /\ toPage # <<>>
    /\ toPage' = Tail(toPage)
    /\ LET n == Head(toPage) IN
       IF n.gate = "ready"
       THEN ready' = TRUE /\ window' = "main" /\ UNCHANGED page
       ELSE page' = [page EXCEPT !.gate = n.gate, !.of = n.run]
            /\ UNCHANGED <<ready, window>>
    /\ UNCHANGED <<server, watchdog, toServer, runVars, autonomy, dead, seen,
                   lost, spent>>

-----------------------------------------------------------------------------
(* The page *)

\* Mutant of Start: the button is not disabled while a run is running.
StartAgain(r, level) ==
    /\ window = "main" /\ ~ page.banner
    /\ at[r] = "none"
    /\ page' = [page EXCEPT !.running = TRUE]
    /\ at' = [at EXCEPT ![r] = "sent"]
    /\ autonomy' = [autonomy EXCEPT ![r] = level]
    /\ toServer' = Append(toServer, [run |-> r, gate |-> "start", decision |-> "none"])
    /\ UNCHANGED <<server, ready, watchdog, window, toPage, result, green, gates,
                   pending, nextId, inbox, dead, seen, lost, spent>>

\* The button.  run_start answers null, so the page waits for a status for
\* ever and the button stays disabled.
Start(r, level) ==
    /\ window = "main" /\ ~ page.running /\ ~ page.banner
    /\ at[r] = "none"
    /\ page' = [page EXCEPT !.running = TRUE]
    /\ at' = [at EXCEPT ![r] = "sent"]
    /\ autonomy' = [autonomy EXCEPT ![r] = level]
    /\ toServer' = Append(toServer, [run |-> r, gate |-> "start", decision |-> "none"])
    /\ UNCHANGED <<server, ready, watchdog, window, toPage, result, green, gates,
                   pending, nextId, inbox, dead, seen, lost, spent>>

\* resolveGate: the dialog closes and the decision goes out, with the name of
\* the gate only; run is the run whose request the human had before them.
Click(decision) ==
    /\ window = "main" /\ page.gate # "none"
    /\ page' = [page EXCEPT !.gate = "none", !.of = NoRun]
    /\ toServer' = Append(toServer, [run |-> page.of, gate |-> page.gate,
                                     decision |-> decision])
    /\ UNCHANGED <<server, ready, watchdog, window, toPage, runVars, autonomy,
                   dead, seen, lost, spent>>

\* The webview reloads the page, which starts from its initial state.
Reload ==
    /\ window = "main" /\ spent.reloads < MaxReloads
    /\ page' = [running |-> FALSE, banner |-> FALSE, gate |-> "none", of |-> NoRun]
    /\ lost' = (lost \/ \E r \in Runs : Active(r))
    /\ spent' = [spent EXCEPT !.reloads = @ + 1]
    /\ UNCHANGED <<server, ready, watchdog, window, toServer, toPage, runVars,
                   autonomy, dead, seen>>

-----------------------------------------------------------------------------
(* Orchestrator.run, from one wait to the next *)

Pauses(gate, r) == gate = "pre_signoff" \/ autonomy[r] < 6

\* The stage a run stops at when it goes on from a gate, or from an answer.
Following(r, stage) ==
    CASE stage = "sent"     -> IF Pauses("topic_confirm", r) THEN "topic_confirm" ELSE "query"
      [] stage = "topic_confirm"     -> "query"
      [] stage = "query"             -> "generate"
      [] stage = "generate" -> IF Pauses("experiment_design", r) THEN "experiment_design" ELSE "verify"
      [] stage = "experiment_design" -> "verify"
      [] stage = "verify"            -> "write"
      [] stage = "write"             -> IF green[r] THEN "pre_signoff" ELSE "ended"
      [] stage = "pre_signoff"       -> "ended"

\* How run() ends when it goes on past the last stage.
Outcome(stage) == IF stage = "write" THEN "blocked" ELSE "signed"

\* Whose promise is registered, and which waiters, once run r is at stage to.
\* ask puts its own promise in the place of any other for that gate.
Registered(r, to, waiters, registry) ==
    /\ gates' = IF to \in GateIds THEN [registry EXCEPT ![to] = r] ELSE registry
    /\ toPage' = IF to \in GateIds THEN Append(toPage, [gate |-> to, run |-> r]) ELSE toPage
    /\ IF to \in Calls
       THEN LET s == Callee[to]  id == nextId[s] IN
            /\ pending' = [waiters EXCEPT ![s] =
                 [i \in DOMAIN @ \union {id} |-> IF i = id THEN r ELSE @[i]]]
            /\ nextId' = [nextId EXCEPT ![s] = @ + 1]
       ELSE pending' = waiters /\ UNCHANGED nextId

\* The pipes after run r has written its next request, if it has: nothing
\* reaches a sidecar that is dead.
Written(r, to, pipes) ==
    IF to \in Calls /\ Callee[to] \notin dead
    THEN [pipes EXCEPT ![Callee[to]] = Append(@, [id |-> nextId[Callee[to]], run |-> r])]
    ELSE pipes

\* Run r goes on from the stage it waits at.
GoesOn(r, waiters, registry, pipes) ==
    LET to == Following(r, at[r]) IN
    /\ at' = [at EXCEPT ![r] = to]
    /\ result' = IF to = "ended" THEN [result EXCEPT ![r] = Outcome(at[r])] ELSE result
    /\ Registered(r, to, waiters, registry)
    /\ inbox' = Written(r, to, pipes)

\* Run r returns, or raises.
Stops(r, how) ==
    /\ at' = [at EXCEPT ![r] = "ended"]
    /\ result' = [result EXCEPT ![r] = how]

-----------------------------------------------------------------------------
(* The server and its sidecars *)

\* A line run.start.
HandleStart ==
    /\ server = "up" /\ toServer # <<>> /\ Head(toServer).gate = "start"
    /\ toServer' = Tail(toServer)
    /\ GoesOn(Head(toServer).run, pending, gates, inbox)
    /\ UNCHANGED <<server, uiVars, green, autonomy, dead, seen, lost, spent>>

\* A line gate.resolve: whatever run is registered under that gate goes on.
HandleResolve ==
    /\ server = "up" /\ toServer # <<>> /\ Head(toServer).gate # "start"
    /\ toServer' = Tail(toServer)
    /\ LET m == Head(toServer)  r == gates[m.gate]
           registry == [gates EXCEPT ![m.gate] = NoRun] IN
       IF r = NoRun
       THEN UNCHANGED <<at, result, gates, pending, nextId, inbox, toPage, seen>>
       ELSE IF m.decision = "approve"
            THEN GoesOn(r, pending, registry, inbox)
                 /\ seen' = [seen EXCEPT ![r] = m.run]
            ELSE /\ Stops(r, "aborted")
                 /\ gates' = registry
                 /\ UNCHANGED <<pending, nextId, inbox, toPage, seen>>
    /\ UNCHANGED <<server, uiVars, green, autonomy, dead, lost, spent>>

Without(s, id) ==
    [pending EXCEPT ![s] = [i \in DOMAIN @ \ {id} |-> @[i]]]

\* A sidecar answers the first request in its pipe, and onData resolves the
\* waiter with that id, if it is still there.  coe's answer says whether the
\* report is green.
Answer(s, verdict) ==
    LET q == Head(inbox[s])
        pipes == [inbox EXCEPT ![s] = Tail(@)] IN
    /\ server = "up" /\ s \notin dead /\ inbox[s] # <<>>
    /\ verdict = FALSE \/ s = "coe"
    /\ IF q.id \in DOMAIN pending[s]
       THEN LET r == pending[s][q.id] IN
            /\ GoesOn(r, Without(s, q.id), gates, pipes)
            /\ green' = IF s = "coe" THEN [green EXCEPT ![r] = verdict] ELSE green
       ELSE /\ inbox' = pipes
            /\ UNCHANGED <<at, result, green, gates, pending, nextId, toPage>>
    /\ UNCHANGED <<server, uiVars, toServer, autonomy, dead, seen, lost, spent>>

\* A sidecar raises: its answer has the id null, for which nobody waits.
AnswerNobody(s) ==
    /\ server = "up" /\ s \notin dead /\ inbox[s] # <<>>
    /\ spent.errors < MaxErrors
    /\ spent' = [spent EXCEPT !.errors = @ + 1]
    /\ inbox' = [inbox EXCEPT ![s] = Tail(@)]
    /\ UNCHANGED <<server, uiVars, toServer, toPage, at, result, green, gates,
                   pending, nextId, autonomy, dead, seen, lost>>

\* Mutants of Timeout: the id is given out again; a sidecar with an empty
\* pipe, which a dead one has, is not waited for.
TimeoutReusing(s, id) ==
    /\ server = "up" /\ id \in DOMAIN pending[s]
    /\ Stops(pending[s][id], "failed")
    /\ pending' = Without(s, id)
    /\ nextId' = [nextId EXCEPT ![s] = IF id + 1 = @ THEN id ELSE @]
    /\ UNCHANGED <<server, uiVars, toServer, toPage, green, gates, inbox,
                   autonomy, dead, seen, lost, spent>>

TimeoutAlive(s, id) ==
    /\ server = "up" /\ id \in DOMAIN pending[s] /\ inbox[s] # <<>>
    /\ Stops(pending[s][id], "failed")
    /\ pending' = Without(s, id)
    /\ UNCHANGED <<server, uiVars, toServer, toPage, green, gates, nextId, inbox,
                   autonomy, dead, seen, lost, spent>>

\* The timer of a call: its waiter is forgotten and its run raises.  The
\* request stays in the pipe and will be answered.
Timeout(s, id) ==
    /\ server = "up" /\ id \in DOMAIN pending[s]
    /\ Stops(pending[s][id], "failed")
    /\ pending' = Without(s, id)
    /\ UNCHANGED <<server, uiVars, toServer, toPage, green, gates, nextId, inbox,
                   autonomy, dead, seen, lost, spent>>

\* A sidecar dies.  They are started with the first run, and never again.
Dies(s) ==
    /\ \E r \in Runs : at[r] \notin {"none", "sent"}
    /\ s \notin dead /\ Cardinality(dead) < MaxDeaths
    /\ dead' = dead \union {s}
    /\ UNCHANGED <<server, uiVars, toServer, toPage, runVars, autonomy, seen,
                   lost, spent>>

\* A request was written to a sidecar that was dead: nobody listens to the
\* error of its stdin, and if the stream was still open the server ends.
Crash ==
    /\ server = "up"
    /\ \E s \in dead, id \in Ids :
          /\ id \in DOMAIN pending[s]
          /\ \A i \in DOMAIN inbox[s] : inbox[s][i].id # id
    /\ server' = "down"
    /\ UNCHANGED <<uiVars, toServer, toPage, runVars, autonomy, dead, seen, lost, spent>>

Next ==
    \/ Spawn \/ SpawnPanics
    \/ ServerReady \/ ServerFails \/ WatchdogWakes \/ WatchdogActs \/ BridgeReads
    \/ \E r \in Runs, level \in Levels : Start(r, level)
    \/ \E decision \in Decisions : Click(decision)
    \/ Reload \/ HandleStart \/ HandleResolve \/ Crash
    \/ \E s \in Sidecars, verdict \in BOOLEAN : Answer(s, verdict)
    \/ \E s \in Sidecars : AnswerNobody(s) \/ Dies(s)
    \/ \E s \in Sidecars, id \in Ids : Timeout(s, id)

Spec == Init /\ [][Next]_vars

\* The bridge starts, the watchdog's sleep and the timers end, threads run, the
\* server gets to its end of start-up or fails, and the human answers the
\* dialog.
FairSpec ==
    /\ Spec
    /\ WF_vars(Spawn \/ SpawnPanics)
    /\ WF_vars(ServerReady) /\ WF_vars(WatchdogWakes) /\ WF_vars(WatchdogActs)
    /\ WF_vars(BridgeReads) /\ WF_vars(HandleStart) /\ WF_vars(HandleResolve)
    /\ WF_vars(\E decision \in Decisions : Click(decision))
    /\ \A s \in Sidecars :
          /\ WF_vars(\E verdict \in BOOLEAN : Answer(s, verdict))
          /\ \A id \in Ids : WF_vars(Timeout(s, id))

-----------------------------------------------------------------------------
(* Properties *)

\* An answer on its way wakes the run that asked, or nobody: however many
\* runs share a sidecar and whichever of them have given up, no run goes on
\* with the answer to another's question (pending, rpc.ts:27-29, :36-45).
AnswersMatchCalls ==
    \A s \in Sidecars : \A i \in DOMAIN inbox[s] :
        LET q == inbox[s][i] IN
        q.id \in DOMAIN pending[s] =>
            pending[s][q.id] = q.run /\ at[q.run] \in Calls /\ Callee[at[q.run]] = s

\* What the human approved is what was signed: unless the page is reloaded
\* during a run, the run signed is the run whose dialog was answered.  The
\* server cannot tell the runs apart (server.ts:49); that the button stays
\* disabled is all there is (App.tsx:79).
SignedAsSeen ==
    \A r \in Runs : result[r] = "signed" => lost \/ seen[r] = r

\* Every run started comes to an end, whatever dies or raises, as long as the
\* server stays up and the page is not reloaded during a run (the timers of
\* rpc.ts:39-42 and the dialog of the page).
EveryRunEnds ==
    [](server # "down" /\ ~ lost) =>
        \A r \in Runs : at[r] = "sent" ~> at[r] = "ended"

\* A user who sees the splash screen is never left with it, whether the server
\* gets ready, early or late, or fails (lib.rs:59-60).  A start without npx shows
\* no screen at all (EveryStartShowsWindow).
NeverStuckOnSplash == window = "splash" ~> window = "main"

-----------------------------------------------------------------------------
(* What the documents say and the code does not do: TLC violates each of   *)
(* the following, as the README tells.                                     *)

\* contracts/ipc.schema.json:42 requires a decision to name its run; the
\* server looks at the gate only, so an approval signs another run than the
\* one it was given for.
DecisionsAreForTheirRun == \A r \in Runs : result[r] = "signed" => seen[r] = r

\* App.tsx:31-32: the page shows the status of the run when it has ended.
StatusIsShown ==
    (\E r \in Runs : Active(r)) ~> (~ page.running)

\* lib.rs:13 and :59-60, and the message at :67-70: without a server in time the
\* main window opens all the same and asks to check the Node / Python runtime.
\* Without the runtime the expect of lib.rs:47 ends the application instead.
EveryStartShowsWindow == <>(window = "main")

\* lib.rs:59-60: the banner is for a server that is not ready in time.
BannerMeansDown == [][page'.banner /\ ~ page.banner => ~ ready]_vars
=============================================================================
