------------------------------- MODULE Gateway -------------------------------
(***************************************************************************)
(* deploy/gateway.py: runs behind HTTP.  Every POST /v1/runs starts a      *)
(* thread, and the threads share one lock: one Orchestrator at a time.  A  *)
(* gate blocks the thread on a queue of its own until POST /v1/gates puts  *)
(* a decision into it; what the run has to say goes into a queue of        *)
(* events, which GET /v1/runs/{id}/events empties, one thread per stream.  *)
(*                                                                         *)
(* The run itself is module Orchestrator; here it is the gates it passes   *)
(* in order, at any of which it may also end by itself (blocked, failed).  *)
(* Log events are left out: they are lost and delivered like the others.   *)
(***************************************************************************)
EXTENDS Naturals, Sequences, FiniteSets, Functions

CONSTANTS
    Runs,       \* the runs posted
    Gates,      \* the gates of a run, in order
    Streams,    \* the requests for a stream of events
    StreamOf,   \* StreamOf[s], the run whose events s asks for
    NoRun,      \* the lock is free
    MaxExtra,   \* bound on the decisions posted beyond one per gate
    MaxGone     \* bound on the number of clients that go away

GateIds == {Gates[i] : i \in DOMAIN Gates}

ASSUME GatewayAssumption ==
    /\ Gates \in Seq(GateIds) /\ Len(Gates) > 0
    /\ GateIds \intersect {"none", "result", "error", "_end"} = {}
    /\ \A i, j \in DOMAIN Gates : Gates[i] = Gates[j] => i = j
    /\ IsFiniteSet(Runs) /\ IsFiniteSet(Streams) /\ StreamOf \in [Streams -> Runs]
    /\ NoRun \notin Runs /\ MaxExtra \in Nat /\ MaxGone \in Nat

VARIABLES
    thread,     \* where the thread of each run stands
    at,         \* at[r]: the number of the gate r asks, or asks next
    waiter,     \* waiter[r]: the queue in gate_waiters, under its gate
    lock,       \* the run that holds _orch_lock
    events,     \* the events queue of each session
    outcome,    \* how each run ended
    stream,     \* what each stream does
    shown,      \* the events each run's clients have received
    accepted,   \* the decisions answered ok: true, in order, per run
    gone        \* the number of clients gone

vars == <<thread, at, waiter, lock, events, outcome, stream, shown, accepted, gone>>
threadVars == <<thread, at, lock, outcome>>
streamVars == <<stream, shown, gone>>

Decisions == {"approve", "decline"}
NoWaiter == [gate |-> "none", queue |-> <<>>]
Events == GateIds \union {"result", "error", "_end"}

TypeOK ==
    /\ thread \in [Runs -> {"none", "queued", "running", "asking", "decided", "done"}]
    /\ at \in [Runs -> 1 .. Len(Gates) + 1]
    /\ waiter \in [Runs -> [gate : GateIds \union {"none"}, queue : Seq(Decisions)]]
    /\ lock \in Runs \union {NoRun}
    /\ events \in [Runs -> Seq(Events)]
    /\ outcome \in [Runs -> {"none", "signed", "stopped", "failed"}]
    /\ stream \in [Streams -> {"closed", "open", "broken", "ended"}]
    /\ shown \in [Runs -> SUBSET Events]
    /\ accepted \in [Runs -> Seq(GateIds \X Decisions)]
    /\ gone \in Nat

Init ==
    /\ thread = [r \in Runs |-> "none"]
    /\ at = [r \in Runs |-> 1]
    /\ waiter = [r \in Runs |-> NoWaiter]
    /\ lock = NoRun
    /\ events = [r \in Runs |-> <<>>]
    /\ outcome = [r \in Runs |-> "none"]
    /\ stream = [s \in Streams |-> "closed"]
    /\ shown = [r \in Runs |-> {}]
    /\ accepted = [r \in Runs |-> <<>>]
    /\ gone = 0

-----------------------------------------------------------------------------
(* The thread of a run: _run_bg and ask *)

Puts(r, es) == events' = [events EXCEPT ![r] = @ \o es]
Goes(r, to) == thread' = [thread EXCEPT ![r] = to]

\* POST /v1/runs.
PostRun(r) ==
    /\ thread[r] = "none"
    /\ Goes(r, "queued")
    /\ UNCHANGED <<at, lock, outcome, waiter, events, accepted, streamVars>>

Acquire(r) ==
    /\ thread[r] = "queued"
    /\ lock = NoRun
    /\ lock' = r
    /\ Goes(r, "running")
    /\ UNCHANGED <<at, outcome, waiter, events, accepted, streamVars>>

\* Mutants of Ends: a run that raises keeps the lock; it tells its client
\* nothing but the end.
EndsLocked(r, how) ==
    /\ Goes(r, "done")
    /\ lock' = IF how = "failed" THEN lock ELSE NoRun
    /\ outcome' = [outcome EXCEPT ![r] = how]
    /\ Puts(r, <<IF how = "failed" THEN "error" ELSE "result", "_end">>)
EndsSilently(r, how) ==
    /\ Goes(r, "done")
    /\ lock' = NoRun
    /\ outcome' = [outcome EXCEPT ![r] = how]
    /\ Puts(r, IF how = "failed" THEN <<"_end">> ELSE <<"result", "_end">>)

\* The end of _run_bg: the sidecars are closed and the lock is released, then
\* the result, or the error, and the end marker are put into the queue.
Ends(r, how) ==
    /\ Goes(r, "done")
    /\ lock' = NoRun
    /\ outcome' = [outcome EXCEPT ![r] = how]
    /\ Puts(r, <<IF how = "failed" THEN "error" ELSE "result", "_end">>)

\* ask: a fresh queue for the gate, then the request.
AskGate(r) ==
    /\ thread[r] = "running"
    /\ at[r] <= Len(Gates)
    /\ Goes(r, "asking")
    /\ waiter' = [waiter EXCEPT ![r] = [gate |-> Gates[at[r]], queue |-> <<>>]]
    /\ Puts(r, <<Gates[at[r]]>>)
    /\ UNCHANGED <<at, lock, outcome, accepted, streamVars>>

\* q.get returns the first decision; the gate is still registered.
TakeDecision(r) ==
    /\ thread[r] = "asking"
    /\ waiter[r].queue # <<>>
    /\ Goes(r, "decided")
    /\ UNCHANGED <<at, lock, outcome, waiter, events, accepted, streamVars>>

\* gate_waiters.pop, and the run goes on or aborts.  A gate whose refusal aborts
\* nothing, share_consent (orchestrator.py:61), is not among Gates: no run that
\* is green reaches it (PromptedAtThreshold of Orchestrator).
Resume(r) ==
    /\ thread[r] = "decided"
    /\ waiter' = [waiter EXCEPT ![r] = NoWaiter]
    /\ IF Head(waiter[r].queue) = "approve"
       THEN /\ Goes(r, "running")
            /\ at' = [at EXCEPT ![r] = @ + 1]
            /\ UNCHANGED <<lock, outcome, events>>
       ELSE Ends(r, "stopped") /\ UNCHANGED at
    /\ UNCHANGED <<accepted, streamVars>>

\* Past the last gate the run is signed; before, it may be blocked, or a
\* sidecar may fail and the exception ends it.
Finish(r, how) ==
    /\ thread[r] = "running"
    /\ how = "signed" <=> at[r] > Len(Gates)
    /\ Ends(r, how)
    /\ UNCHANGED <<at, waiter, accepted, streamVars>>

-----------------------------------------------------------------------------
(* The requests of the clients *)

\* Mutant of PostGate: the gate's name is not compared.
PostAnyGate(r, gate, decision) ==
    /\ thread[r] # "none"
    /\ waiter[r].gate # "none"
    /\ Len(accepted[r]) < at[r] + MaxExtra
    /\ waiter' = [waiter EXCEPT ![r].queue = Append(@, decision)]
    /\ accepted' = [accepted EXCEPT ![r] = Append(@, <<gate, decision>>)]
    /\ UNCHANGED <<threadVars, events, streamVars>>

\* POST /v1/gates: resolve_gate answers ok only for the gate that is waiting.
PostGate(r, gate, decision) ==
    /\ thread[r] # "none"
    /\ waiter[r].gate = gate
    /\ Len(accepted[r]) < at[r] + MaxExtra
    /\ waiter' = [waiter EXCEPT ![r].queue = Append(@, decision)]
    /\ accepted' = [accepted EXCEPT ![r] = Append(@, <<gate, decision>>)]
    /\ UNCHANGED <<threadVars, events, streamVars>>

\* GET /v1/runs/{id}/events: any number of streams, at any time.
Open(s) ==
    /\ stream[s] = "closed"
    /\ thread[StreamOf[s]] # "none"
    /\ stream' = [stream EXCEPT ![s] = "open"]
    /\ UNCHANGED <<threadVars, waiter, events, accepted, shown, gone>>

\* The client of a stream goes away, unnoticed until something is written.
GoAway(s) ==
    /\ stream[s] = "open"
    /\ gone < MaxGone
    /\ gone' = gone + 1
    /\ stream' = [stream EXCEPT ![s] = "broken"]
    /\ UNCHANGED <<threadVars, waiter, events, accepted, shown>>

\* _sse, without an event for 90 seconds: a comment is written, which only a
\* client that is gone notices.
KeepAlive(s) ==
    /\ stream[s] = "broken"
    /\ events[StreamOf[s]] = <<>>
    /\ stream' = [stream EXCEPT ![s] = "ended"]
    /\ UNCHANGED <<threadVars, waiter, events, accepted, shown, gone>>

\* Mutant of Deliver: the queue is emptied when a client is found gone.
DeliverFlushing(s) ==
    LET r == StreamOf[s]  e == Head(events[r]) IN
    /\ stream[s] \in {"open", "broken"}
    /\ events[r] # <<>>
    /\ events' = [events EXCEPT ![r] = IF stream[s] = "broken" THEN <<>> ELSE Tail(@)]
    /\ stream' = [stream EXCEPT ![s] =
                    IF stream[s] = "broken" \/ e = "_end" THEN "ended" ELSE "open"]
    /\ shown' = [shown EXCEPT ![r] =
                   IF stream[s] = "broken" THEN @ ELSE @ \union {e}]
    /\ UNCHANGED <<threadVars, waiter, accepted, gone>>

\* _sse: takes the next event and writes it.  To a client that is gone the
\* write fails and the handler ends; the event has left the queue.
Deliver(s) ==
    LET r == StreamOf[s]  e == Head(events[r]) IN
    /\ stream[s] \in {"open", "broken"}
    /\ events[r] # <<>>
    /\ events' = [events EXCEPT ![r] = Tail(@)]
    /\ stream' = [stream EXCEPT ![s] =
                    IF stream[s] = "broken" \/ e = "_end" THEN "ended" ELSE "open"]
    /\ shown' = [shown EXCEPT ![r] =
                   IF stream[s] = "broken" THEN @ ELSE @ \union {e}]
    /\ UNCHANGED <<threadVars, waiter, accepted, gone>>

Thread(r) == Acquire(r) \/ AskGate(r) \/ TakeDecision(r) \/ Resume(r)
             \/ \E how \in {"signed", "stopped", "failed"} : Finish(r, how)

Next ==
    \/ \E r \in Runs : PostRun(r) \/ Thread(r)
    \/ \E r \in Runs, gate \in GateIds, decision \in Decisions :
          PostGate(r, gate, decision)
    \/ \E s \in Streams : Open(s) \/ GoAway(s) \/ KeepAlive(s) \/ Deliver(s)

Spec == Init /\ [][Next]_vars

\* The threads run, and a thread that keeps asking for the lock gets it
\* (threading.Lock).  The client of each run answers a gate it was shown, and
\* opens its streams.
Answered(r) == \E gate \in shown[r] \intersect GateIds, decision \in Decisions :
                  PostGate(r, gate, decision)
FairSpec ==
    /\ Spec
    /\ \A r \in Runs : SF_vars(Acquire(r)) /\ WF_vars(Thread(r)) /\ WF_vars(Answered(r))
    /\ \A s \in Streams : WF_vars(Open(s)) /\ WF_vars(Deliver(s))

-----------------------------------------------------------------------------
(* Properties *)

\* The first of the decisions for a gate is this one.
FirstFor(gate, decisions, decision) ==
    \E k \in DOMAIN decisions :
        /\ decisions[k] = <<gate, decision>>
        /\ \A j \in DOMAIN decisions : decisions[j][1] = gate => j >= k

\* A run is signed on the first decision accepted for each of its gates, taken
\* after that gate was asked: a decision for another gate, or one that came
\* late for the gate before, never lets it through (ask and resolve_gate).
SignedByItsDecisions ==
    \A r \in Runs : outcome[r] = "signed" =>
        \A i \in DOMAIN Gates : FirstFor(Gates[i], accepted[r], "approve")

\* What the thread of run r has put into its queue at least, and what of it no
\* client will see.
Said(r) ==
    {Gates[i] : i \in {j \in DOMAIN Gates :
        j < at[r] \/ (j = at[r] /\ thread[r] \in {"asking", "decided"})}}
    \union (IF thread[r] # "done" THEN {}
            ELSE {IF outcome[r] = "failed" THEN "error" ELSE "result", "_end"})
Missed(r) == Said(r) \ (shown[r] \union Range(events[r]))

\* The streams of a run compete for its events, and no client sees them all;
\* but together they miss at most one event for every client that went away.
LeavingLosesOne ==
    Cardinality({re \in Runs \X Events : re[2] \in Missed(re[1])}) <= gone

\* Every run posted comes to an end, as long as no client goes away, is so
\* shown the gates of its run and answers them: the runs wait for one
\* another's humans.
EveryRunEnds ==
    [](gone = 0) => \A r \in Runs : thread[r] = "queued" ~> thread[r] = "done"

\* As long as no client goes away, the clients of a run get its result, or its
\* error, however many streams compete for its events (gateway.py:6).
ResultIsShown ==
    [](gone = 0) => \A r \in Runs :
        thread[r] = "done" ~> shown[r] \intersect {"result", "error"} # {}

-----------------------------------------------------------------------------
(* What the documents say and the code does not do: TLC violates each of   *)
(* the following, as the README tells.                                     *)

\* deploy/README.md:22 lists the result among what the stream of a run says,
\* without that condition: also to clients that went away and came back.
ResultSurvivesReconnect ==
    \A r \in Runs : thread[r] = "done" ~> shown[r] \intersect {"result", "error"} # {}

\* gateway.py:6: a stream of events comes to an end with its run.
StreamsEnd ==
    \A s \in Streams :
        stream[s] = "open" /\ thread[StreamOf[s]] = "done" ~> stream[s] # "open"
=============================================================================
