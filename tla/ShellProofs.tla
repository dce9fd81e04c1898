----------------------------- MODULE ShellProofs -----------------------------
(***************************************************************************)
(* Proofs about Shell, for any number of runs: whoever waits for an answer *)
(* gets the answer to its own request, and what is signed is what the      *)
(* human saw.                                                              *)
(*                                                                         *)
(* The first follows from what the server keeps: a run waits in one place  *)
(* at most, under an id that has been given out once.  The second has no   *)
(* such ground, for the server knows a gate by its name only: it rests on  *)
(* the page, whose disabled button keeps a second run away, and so on      *)
(* there being one request of a gate anywhere between the run that waits   *)
(* and the human.                                                          *)
(***************************************************************************)
EXTENDS Shell, SequenceTheorems, FiniteSetTheorems, TLAPS

Stages == GateIds \union Calls \union {"none", "sent", "ended"}
Lines == [run : Runs, gate : GateIds \union {"start"},
          decision : Decisions \union {"none"}]
Notes == [gate : GateIds, run : Runs] \union [gate : {"ready"}, run : {NoRun}]
Asked == [id : Nat \ {0}, run : Runs]

\* The types the argument needs.
Shape ==
    /\ page \in [running : BOOLEAN, banner : BOOLEAN,
                 gate : GateIds \union {"none"}, of : Runs \union {NoRun}]
    /\ page.gate # "none" => page.of \in Runs
    /\ toServer \in Seq(Lines)
    /\ toPage \in Seq(Notes)
    /\ at \in [Runs -> Stages]
    /\ result \in [Runs -> Results]
    /\ gates \in [GateIds -> Runs \union {NoRun}]
    /\ pending \in [Sidecars -> PartialFunctions(Nat \ {0}, Runs)]
    /\ nextId \in [Sidecars -> Nat \ {0}]
    /\ inbox \in [Sidecars -> Seq(Asked)]
    /\ seen \in [Runs -> Runs \union {NoRun}]
    /\ lost \in BOOLEAN

\* A run is started once: its line is on its way while it is "sent".
StartsOnce ==
    \A i \in DOMAIN toServer : toServer[i].gate = "start" =>
        /\ at[toServer[i].run] = "sent"
        /\ \A j \in DOMAIN toServer :
              toServer[j].gate = "start" /\ toServer[j].run = toServer[i].run => j = i

\* A promise registered under a gate is that of a run that waits there.
GatesWait == \A g \in GateIds : gates[g] # NoRun => at[gates[g]] = g

\* A waiter of a sidecar is a run at a call of that sidecar, one waiter for
\* each such run, and its id has been given out.
CallsWait ==
    \A s \in Sidecars : \A i \in DOMAIN pending[s] :
        /\ i < nextId[s]
        /\ at[pending[s][i]] \in Calls
        /\ Callee[at[pending[s][i]]] = s
        /\ \A j \in DOMAIN pending[s] : pending[s][j] = pending[s][i] => j = i

\* A request in a pipe has an id that has been given out, and whoever waits
\* under that id is the run that asked.
RequestsMatch ==
    \A s \in Sidecars : \A k \in DOMAIN inbox[s] :
        LET q == inbox[s][k] IN
        /\ q.id < nextId[s]
        /\ q.id \in DOMAIN pending[s] => pending[s][q.id] = q.run

WaitInv == Shape /\ StartsOnce /\ GatesWait /\ CallsWait /\ RequestsMatch

-----------------------------------------------------------------------------
(* What is true while the page has not been reloaded during a run.         *)

\* One run at a time, while the button is disabled.
OneRun ==
    /\ \A r, q \in Runs : Active(r) /\ Active(q) => r = q
    /\ \A r \in Runs : Active(r) => page.running

\* The request of a gate is in one place only (on its way to the page, in the
\* dialog, or in the decision on its way to the server), and belongs to the
\* run that waits there.
OneRequest ==
    /\ \A i \in DOMAIN toPage : toPage[i].gate # "ready" =>
          /\ at[toPage[i].run] = toPage[i].gate
          /\ page.gate = "none"
          /\ \A j \in DOMAIN toPage : toPage[j].gate # "ready" => j = i
    /\ page.gate # "none" => at[page.of] = page.gate
    /\ \A i \in DOMAIN toServer : toServer[i].gate # "start" =>
          /\ at[toServer[i].run] = toServer[i].gate
          /\ page.gate = "none"
          /\ \A j \in DOMAIN toPage : toPage[j].gate = "ready"
          /\ \A j \in DOMAIN toServer : toServer[j].gate # "start" => j = i

SeenInv ==
    /\ ~ lost => OneRun /\ OneRequest
    /\ \A r \in Runs : result[r] # "none" => at[r] = "ended"
    /\ SignedAsSeen

-----------------------------------------------------------------------------
(* Names and sequences *)

LEMMA Names ==
  /\ Calls = {"query", "generate", "verify", "write"}
  /\ \A c \in Calls : Callee[c] \in Sidecars
  /\ GateIds \intersect Calls = {}
  /\ {"none", "sent", "ended", "start", "ready"} \intersect (GateIds \union Calls) = {}
  BY DEF Calls, Callee, Sidecars, GateIds

\* Where a run goes on: to a gate, a call or its end, signed at the last gate
\* only.
LEMMA StageAfter ==
  ASSUME NEW r \in Runs, NEW stage \in GateIds \union Calls \union {"sent"}
  PROVE  /\ Following(r, stage) \in GateIds \union Calls \union {"ended"}
         /\ Following(r, stage) = "ended" => stage \in {"write", "pre_signoff"}
         /\ Outcome(stage) \in {"blocked", "signed"}
         /\ Outcome(stage) = "signed" => stage # "write"
  <1>1. stage \in {"sent", "topic_confirm", "query", "generate", "experiment_design",
                   "verify", "write", "pre_signoff"}
    BY Names DEF GateIds
  <1>2. {"topic_confirm", "query", "generate", "experiment_design", "verify", "write",
         "pre_signoff"} = GateIds \union Calls
    BY Names DEF GateIds
  <1> QED
    BY <1>1, <1>2 DEF Following, Outcome

\* The elements of a sequence after one more, and after one less.
LEMMA Longer ==
  ASSUME NEW S, NEW q \in Seq(S), NEW e \in S
  PROVE  /\ Append(q, e) \in Seq(S)
         /\ \A i \in DOMAIN Append(q, e) :
               \/ i \in DOMAIN q /\ Append(q, e)[i] = q[i]
               \/ i = Len(q) + 1 /\ i \notin DOMAIN q /\ Append(q, e)[i] = e
  <1>1. DOMAIN q = 1 .. Len(q) /\ Len(q) \in Nat
    BY LenProperties
  <1>2. DOMAIN Append(q, e) = 1 .. Len(q) + 1
    BY <1>1, AppendProperties, LenProperties
  <1> QED
    BY <1>1, <1>2, AppendProperties

LEMMA Shorter ==
  ASSUME NEW S, NEW q \in Seq(S), q # <<>>
  PROVE  /\ Tail(q) \in Seq(S) /\ Head(q) \in S
         /\ 1 \in DOMAIN q /\ q[1] = Head(q)
         /\ \A i \in DOMAIN Tail(q) :
               i \in Nat /\ i + 1 # 1 /\ i + 1 \in DOMAIN q /\ Tail(q)[i] = q[i + 1]
  <1>1. DOMAIN q = 1 .. Len(q) /\ Len(q) \in Nat
    BY LenProperties
  <1>2. /\ Tail(q) \in Seq(S) /\ Head(q) \in S /\ Len(Tail(q)) = Len(q) - 1
        /\ \A i \in 1 .. Len(Tail(q)) : Tail(q)[i] = q[i + 1]
    BY HeadTailProperties
  <1>3. DOMAIN Tail(q) = 1 .. Len(q) - 1 /\ Len(q) # 0
    BY <1>1, <1>2, LenProperties, EmptySeq
  <1>4. q[1] = Head(q)
    OBVIOUS
  <1> QED
    BY <1>1, <1>2, <1>3, <1>4

\* A partial function is one with its own domain.
LEMMA Partial ==
  ASSUME NEW S, NEW T
  PROVE  \A f : f \in PartialFunctions(S, T) <=>
                  /\ f = [i \in DOMAIN f |-> f[i]] /\ DOMAIN f \subseteq S
                  /\ \A i \in DOMAIN f : f[i] \in T
  BY DEF PartialFunctions

-----------------------------------------------------------------------------
(* A run moves on *)

\* Run r moves to stage to; waiters, registry and pipes are what is left of
\* pending, gates and inbox before it asks for anything there.
MovesTo(r, to, waiters, registry, pipes) ==
    /\ at' = [at EXCEPT ![r] = to]
    /\ Registered(r, to, waiters, registry)
    /\ inbox' = Written(r, to, pipes)

\* Nothing is left that waits for run r, and nothing is new.
LeftBy(r, waiters, registry, pipes) ==
    /\ waiters \in [Sidecars -> PartialFunctions(Nat \ {0}, Runs)]
    /\ \A s \in Sidecars : \A i \in DOMAIN waiters[s] :
          i \in DOMAIN pending[s] /\ waiters[s][i] = pending[s][i] /\ waiters[s][i] # r
    /\ registry \in [GateIds -> Runs \union {NoRun}]
    /\ \A g \in GateIds : registry[g] \in {gates[g], NoRun} /\ registry[g] # r
    /\ pipes \in [Sidecars -> Seq(Asked)]
    /\ \A s \in Sidecars : \A k \in DOMAIN pipes[s] :
          \E j \in DOMAIN inbox[s] : pipes[s][k] = inbox[s][j]

LEMMA MoveWaits ==
  ASSUME WaitInv, NEW r \in Runs, NEW to \in GateIds \union Calls \union {"ended"},
         NEW W, NEW R, NEW P, LeftBy(r, W, R, P), MovesTo(r, to, W, R, P)
  PROVE  /\ at' \in [Runs -> Stages] /\ gates' \in [GateIds -> Runs \union {NoRun}]
         /\ pending' \in [Sidecars -> PartialFunctions(Nat \ {0}, Runs)]
         /\ nextId' \in [Sidecars -> Nat \ {0}] /\ inbox' \in [Sidecars -> Seq(Asked)]
         /\ toPage' \in Seq(Notes)
         /\ GatesWait' /\ CallsWait' /\ RequestsMatch'
  <1>1. /\ at \in [Runs -> Stages] /\ nextId \in [Sidecars -> Nat \ {0}] /\ NoRun \notin Runs
        /\ inbox \in [Sidecars -> Seq(Asked)] /\ toPage \in Seq(Notes)
    BY ShellAssumption DEF WaitInv, Shape
  <1>2. /\ at' \in [Runs -> Stages] /\ at'[r] = to
        /\ \A q \in Runs \ {r} : at'[q] = at[q]
    BY <1>1 DEF MovesTo, Stages
  <1>3. \A s \in Sidecars : \A i \in DOMAIN W[s] :
           /\ i \in Nat \ {0} /\ W[s][i] \in Runs \ {r}
           /\ i < nextId[s] /\ at'[W[s][i]] \in Calls /\ Callee[at'[W[s][i]]] = s
           /\ \A j \in DOMAIN W[s] : W[s][j] = W[s][i] => j = i
    <2>1. \A s \in Sidecars : \A i \in DOMAIN W[s] : i \in Nat \ {0} /\ W[s][i] \in Runs
      BY Partial DEF LeftBy
    <2> QED
      BY <1>2, <2>1 DEF LeftBy, WaitInv, CallsWait
  <1>4. \A s \in Sidecars : \A k \in DOMAIN P[s] :
           /\ P[s][k] \in Asked /\ P[s][k].id < nextId[s]
           /\ P[s][k].id \in DOMAIN W[s] => W[s][P[s][k].id] = P[s][k].run
    <2>1. \A s \in Sidecars : \A k \in DOMAIN P[s] : P[s][k] \in Asked
      BY ElementOfSeq, LenProperties DEF LeftBy
    <2> QED
      BY <2>1 DEF LeftBy, WaitInv, RequestsMatch
  <1>5. GatesWait' /\ gates' \in [GateIds -> Runs \union {NoRun}] /\ toPage' \in Seq(Notes)
    <2>1. \A g \in GateIds : R[g] # NoRun => R[g] \in Runs \ {r} /\ at'[R[g]] = g
      BY <1>2 DEF LeftBy, WaitInv, GatesWait
    <2>2. CASE to \in GateIds
      <3>1. gates' = [R EXCEPT ![to] = r] /\ toPage' = Append(toPage, [gate |-> to, run |-> r])
        BY <2>2 DEF MovesTo, Registered
      <3>2. [gate |-> to, run |-> r] \in Notes
        BY <2>2 DEF Notes
      <3>3. toPage' \in Seq(Notes)
        BY <1>1, <3>1, <3>2, Longer
      <3> QED
        BY <1>2, <2>1, <2>2, <3>1, <3>3 DEF GatesWait, LeftBy
    <2>3. CASE to \notin GateIds
      <3>1. gates' = R /\ toPage' = toPage
        BY <2>3 DEF MovesTo, Registered
      <3> QED
        BY <1>1, <2>1, <3>1 DEF GatesWait, LeftBy
    <2> QED
      BY <2>2, <2>3
  <1>6. CASE to \in Calls
    <2> DEFINE c == Callee[to]
               id == nextId[c]
               mine == [i \in DOMAIN W[c] \union {id} |-> IF i = id THEN r ELSE W[c][i]]
               q0 == [id |-> id, run |-> r]
    <2>1. c \in Sidecars /\ id \in Nat \ {0} /\ q0 \in Asked
      BY <1>1, <1>6, Names DEF Asked
    <2>2. pending' = [W EXCEPT ![c] = mine] /\ nextId' = [nextId EXCEPT ![c] = id + 1]
      BY <1>6, <2>1 DEF MovesTo, Registered, LeftBy
    <2>3. id \notin DOMAIN W[c]
      BY <1>1, <1>3, <2>1
    <2>4. /\ DOMAIN mine = DOMAIN W[c] \union {id} /\ mine[id] = r
          /\ \A i \in DOMAIN W[c] : mine[i] = W[c][i]
          /\ mine \in PartialFunctions(Nat \ {0}, Runs)
      <3>1. /\ DOMAIN mine = DOMAIN W[c] \union {id} /\ mine[id] = r
            /\ \A i \in DOMAIN W[c] : mine[i] = W[c][i]
        BY <2>3
      <3>2. mine = [i \in DOMAIN mine |-> mine[i]]
        OBVIOUS
      <3>3. DOMAIN mine \subseteq Nat \ {0} /\ \A i \in DOMAIN mine : mine[i] \in Runs
        BY <1>3, <2>1, <3>1
      <3> HIDE DEF mine
      <3> QED
        BY <3>1, <3>2, <3>3, Partial
    <2> HIDE DEF mine, c, id, q0
    <2>5. /\ pending'[c] = mine /\ nextId'[c] = id + 1
          /\ \A s \in Sidecars \ {c} : pending'[s] = W[s] /\ nextId'[s] = nextId[s]
          /\ pending' \in [Sidecars -> PartialFunctions(Nat \ {0}, Runs)]
          /\ nextId' \in [Sidecars -> Nat \ {0}]
      BY <1>1, <2>1, <2>2, <2>4 DEF LeftBy
    <2>6. CallsWait'
      <3>1. ASSUME NEW s \in Sidecars, NEW i \in DOMAIN pending'[s]
            PROVE  /\ i < nextId'[s] /\ at'[pending'[s][i]] \in Calls
                   /\ Callee[at'[pending'[s][i]]] = s
                   /\ \A j \in DOMAIN pending'[s] : pending'[s][j] = pending'[s][i] => j = i
        <4>1. CASE s # c
          BY <1>3, <2>5, <3>1, <4>1
        <4>2. CASE s = c /\ i = id
          BY <1>2, <1>3, <1>6, <2>1, <2>4, <2>5, <4>2 DEF c
        <4>3. CASE s = c /\ i # id
          <5>1. i \in DOMAIN W[c] /\ i < id
            BY <1>3, <2>1, <2>4, <2>5, <3>1, <4>3 DEF id
          <5>2. i \in Nat /\ i < id + 1
            BY <1>3, <2>1, <5>1
          <5> QED
            BY <1>3, <2>1, <2>4, <2>5, <3>1, <4>3, <5>1, <5>2
        <4> QED
          BY <4>1, <4>2, <4>3
      <3> QED
        BY <3>1 DEF CallsWait
    <2>7. inbox' = [P EXCEPT ![c] = Append(P[c], q0)] \/ inbox' = P
      BY <1>6, <2>1 DEF MovesTo, Written, LeftBy, c, id, q0
    <2>8. ASSUME NEW s \in Sidecars
          PROVE  /\ inbox'[s] \in Seq(Asked)
                 /\ \A k \in DOMAIN inbox'[s] :
                      \/ k \in DOMAIN P[s] /\ inbox'[s][k] = P[s][k]
                      \/ s = c /\ inbox'[s][k] = q0
      <3>1. CASE s = c /\ inbox' = [P EXCEPT ![c] = Append(P[c], q0)]
        <4>1. inbox'[s] = Append(P[c], q0) /\ P[c] \in Seq(Asked)
          BY <2>1, <3>1 DEF LeftBy
        <4> QED
          BY <2>1, <3>1, <4>1, Longer
      <3>2. CASE ~ (s = c /\ inbox' = [P EXCEPT ![c] = Append(P[c], q0)])
        <4>1. inbox'[s] = P[s]
          BY <2>1, <2>7, <3>2 DEF LeftBy
        <4> QED
          BY <4>1 DEF LeftBy
      <3> QED
        BY <3>1, <3>2
    <2>9. inbox' \in [Sidecars -> Seq(Asked)]
      <3>1. inbox' = [s \in Sidecars |-> inbox'[s]]
        BY <2>7 DEF LeftBy
      <3> QED
        BY <2>8, <3>1
    <2>10. RequestsMatch'
      <3>1. ASSUME NEW s \in Sidecars, NEW k \in DOMAIN inbox'[s]
            PROVE  /\ inbox'[s][k].id < nextId'[s]
                   /\ inbox'[s][k].id \in DOMAIN pending'[s] =>
                        pending'[s][inbox'[s][k].id] = inbox'[s][k].run
        <4>1. CASE s = c /\ inbox'[s][k] = q0
          BY <2>1, <2>4, <2>5, <4>1 DEF q0
        <4>2. CASE k \in DOMAIN P[s] /\ inbox'[s][k] = P[s][k]
          <5>1. /\ P[s][k].id \in Nat /\ P[s][k].id < nextId[s]
                /\ P[s][k].id \in DOMAIN W[s] => W[s][P[s][k].id] = P[s][k].run
            BY <1>4, <4>2 DEF Asked
          <5>2. CASE s = c
            BY <1>1, <2>1, <2>4, <2>5, <4>2, <5>1, <5>2 DEF id
          <5>3. CASE s # c
            BY <2>5, <4>2, <5>1, <5>3
          <5> QED
            BY <5>2, <5>3
        <4> QED
          BY <2>8, <3>1, <4>1, <4>2
      <3> QED
        BY <3>1 DEF RequestsMatch
    <2> QED
      BY <1>2, <1>5, <2>5, <2>6, <2>9, <2>10
  <1>7. CASE to \notin Calls
    <2>1. pending' = W /\ nextId' = nextId /\ inbox' = P
      BY <1>7 DEF MovesTo, Registered, Written
    <2>2. CallsWait'
      BY <1>3, <2>1 DEF CallsWait
    <2>3. RequestsMatch'
      BY <1>4, <2>1 DEF RequestsMatch
    <2> QED
      BY <1>1, <1>2, <1>5, <2>1, <2>2, <2>3 DEF LeftBy
  <1> QED
    BY <1>6, <1>7

-----------------------------------------------------------------------------
(* What the steps have in common *)

\* The start of a run is read once, by that run.
LEMMA StartsKept ==
  ASSUME WaitInv,
         \/ toServer' = toServer
         \/ toServer # <<>> /\ toServer' = Tail(toServer),
         \A r \in Runs :
            \/ at'[r] = at[r]
            \/ at[r] # "sent"
            \/ /\ toServer # <<>> /\ toServer' = Tail(toServer)
               /\ Head(toServer).gate = "start" /\ Head(toServer).run = r
  PROVE  StartsOnce' /\ toServer' \in Seq(Lines)
  <1>1. toServer \in Seq(Lines)
    BY DEF WaitInv, Shape
  <1>2. \A i \in DOMAIN toServer : toServer[i] \in Lines /\ i \in Nat
    BY <1>1, ElementOfSeq, LenProperties
  <1>3. CASE toServer' = toServer
    <2>1. ASSUME NEW i \in DOMAIN toServer, toServer[i].gate = "start"
          PROVE  at'[toServer[i].run] = "sent"
      <3>1. toServer[i].run \in Runs /\ at[toServer[i].run] = "sent"
        BY <1>2, <2>1 DEF WaitInv, StartsOnce, Lines
      <3>2. CASE toServer # <<>> /\ toServer' = Tail(toServer)
        <4>1. Len(Tail(toServer)) = Len(toServer) - 1 /\ Len(toServer) \in Nat
          BY <1>1, <3>2, HeadTailProperties, LenProperties
        <4> QED
          BY <1>3, <3>2, <4>1
      <3> QED
        BY <3>1, <3>2
    <2> QED
      BY <1>1, <1>3, <2>1 DEF StartsOnce, WaitInv
  <1>4. CASE toServer # <<>> /\ toServer' = Tail(toServer)
    <2>1. /\ Tail(toServer) \in Seq(Lines) /\ 1 \in DOMAIN toServer
          /\ toServer[1] = Head(toServer)
          /\ \A i \in DOMAIN Tail(toServer) :
               i \in Nat /\ i + 1 # 1 /\ i + 1 \in DOMAIN toServer
               /\ Tail(toServer)[i] = toServer[i + 1]
      BY <1>1, <1>4, Shorter
    <2>2. ASSUME NEW i \in DOMAIN Tail(toServer), Tail(toServer)[i].gate = "start"
          PROVE  /\ at'[Tail(toServer)[i].run] = "sent"
                 /\ \A j \in DOMAIN Tail(toServer) :
                      Tail(toServer)[j].gate = "start"
                      /\ Tail(toServer)[j].run = Tail(toServer)[i].run => j = i
      <3>1. /\ toServer[i + 1].gate = "start" /\ toServer[i + 1].run \in Runs
            /\ at[toServer[i + 1].run] = "sent"
        BY <1>2, <2>1, <2>2 DEF WaitInv, StartsOnce, Lines
      <3>2. ~ (Head(toServer).gate = "start" /\ Head(toServer).run = toServer[i + 1].run)
        BY <2>1, <3>1 DEF WaitInv, StartsOnce
      <3>3. at'[toServer[i + 1].run] = "sent"
        BY <3>1, <3>2
      <3>4. \A j \in DOMAIN Tail(toServer) :
               Tail(toServer)[j].gate = "start"
               /\ Tail(toServer)[j].run = Tail(toServer)[i].run => j + 1 = i + 1
        BY <2>1, <3>1 DEF WaitInv, StartsOnce
      <3> QED
        BY <2>1, <3>3, <3>4
    <2> QED
      BY <1>4, <2>1, <2>2 DEF StartsOnce
  <1> QED
    BY <1>3, <1>4

\* A run that is under way and at no gate leaves no request of a gate
\* anywhere.
LEMMA NoRequest ==
  ASSUME WaitInv, SeenInv, ~ lost, NEW r \in Runs, Active(r), at[r] \notin GateIds
  PROVE  /\ page.gate = "none"
         /\ \A i \in DOMAIN toPage : toPage[i].gate = "ready"
         /\ \A i \in DOMAIN toServer : toServer[i].gate = "start"
  <1>1. \A q \in Runs : at[q] \notin GateIds
    BY Names DEF SeenInv, OneRun, Active
  <1>2. page.gate = "none"
    BY <1>1 DEF SeenInv, OneRequest, WaitInv, Shape
  <1>3. ASSUME NEW i \in DOMAIN toPage, toPage[i].gate # "ready"
        PROVE  FALSE
    <2>1. toPage[i] \in Notes
      BY ElementOfSeq, LenProperties DEF WaitInv, Shape
    <2>2. toPage[i].run \in Runs /\ toPage[i].gate \in GateIds
      BY <1>3, <2>1 DEF Notes
    <2> QED
      BY <1>1, <1>3, <2>2 DEF SeenInv, OneRequest
  <1>4. ASSUME NEW i \in DOMAIN toServer, toServer[i].gate # "start"
        PROVE  FALSE
    <2>1. toServer[i] \in Lines
      BY ElementOfSeq, LenProperties DEF WaitInv, Shape
    <2>2. toServer[i].run \in Runs /\ toServer[i].gate \in GateIds
      BY <1>4, <2>1 DEF Lines
    <2> QED
      BY <1>1, <1>4, <2>2 DEF SeenInv, OneRequest
  <1> QED
    BY <1>2, <1>3, <1>4

\* A run moves on, and the request that let it through was the last there was.
LEMMA MoveSeen ==
  ASSUME WaitInv, SeenInv, NEW r \in Runs, at[r] \in GateIds \union Calls \union {"sent"},
         NEW to \in GateIds \union Calls \union {"ended"}, NEW W, NEW R, NEW P,
         MovesTo(r, to, W, R, P), UNCHANGED <<page, lost>>,
         ~ lost => /\ page.gate = "none"
                   /\ \A i \in DOMAIN toPage : toPage[i].gate = "ready"
                   /\ \A i \in DOMAIN toServer' : toServer'[i].gate = "start",
         NEW x \in Results,
         result' = IF to = "ended" THEN [result EXCEPT ![r] = x] ELSE result,
         \A q \in Runs \ {r} : seen'[q] = seen[q],
         to = "ended" /\ x = "signed" => lost \/ seen'[r] = r
  PROVE  SeenInv' /\ result' \in [Runs -> Results]
  <1>1. /\ at \in [Runs -> Stages] /\ toPage \in Seq(Notes) /\ result \in [Runs -> Results]
        /\ lost \in BOOLEAN
    BY DEF WaitInv, Shape
  <1>2. at'[r] = to /\ \A q \in Runs \ {r} : at'[q] = at[q]
    BY <1>1 DEF MovesTo
  <1>3. Active(r) /\ \A q \in Runs : Active(q)' => Active(q)
    BY <1>2, Names DEF Active
  <1>4. ASSUME ~ lost
        PROVE  OneRun' /\ OneRequest'
    <2>1. OneRun'
      BY <1>3, <1>4 DEF SeenInv, OneRun
    <2>2. page'.gate = "none" /\ \A i \in DOMAIN toServer' : toServer'[i].gate = "start"
      BY <1>4
    <2>3. \A i \in DOMAIN toPage' : toPage'[i].gate # "ready" =>
             /\ at'[toPage'[i].run] = toPage'[i].gate
             /\ \A j \in DOMAIN toPage' : toPage'[j].gate # "ready" => j = i
      <3>1. CASE to \in GateIds
        <4> DEFINE n == [gate |-> to, run |-> r]
        <4>1. n \in Notes /\ n.run = r /\ n.gate = to
          BY <3>1 DEF Notes
        <4>2. toPage' = Append(toPage, n)
          BY <3>1 DEF MovesTo, Registered
        <4> HIDE DEF n
        <4>3. \A i \in DOMAIN Append(toPage, n) :
                 \/ i \in DOMAIN toPage /\ Append(toPage, n)[i] = toPage[i]
                 \/ i = Len(toPage) + 1 /\ Append(toPage, n)[i] = n
          BY <1>1, <4>1, Longer
        <4> QED
          BY <1>2, <1>4, <4>1, <4>2, <4>3
      <3>2. CASE to \notin GateIds
        <4>1. toPage' = toPage
          BY <3>2 DEF MovesTo, Registered
        <4> QED
          BY <1>4, <4>1
      <3> QED
        BY <3>1, <3>2
    <2>4. OneRequest'
      BY <2>2, <2>3 DEF OneRequest
    <2> QED
      BY <2>1, <2>4
  <1>5. result[r] = "none"
    BY Names DEF SeenInv
  <1>6. /\ \A q \in Runs \ {r} : result'[q] = result[q]
        /\ result'[r] = IF to = "ended" THEN x ELSE "none"
        /\ result' \in [Runs -> Results]
    BY <1>1, <1>5
  <1>7. (\A q \in Runs : result[q] # "none" => at[q] = "ended")'
    BY <1>2, <1>6 DEF SeenInv
  <1>8. SignedAsSeen'
    BY <1>6 DEF SeenInv, SignedAsSeen
  <1> QED
    BY <1>4, <1>6, <1>7, <1>8 DEF SeenInv

\* What is left of the waiters and the pipes when the run that waited for
\* request id of sidecar s has gone.
LEMMA WithoutLeft ==
  ASSUME WaitInv, NEW s \in Sidecars, NEW id \in DOMAIN pending[s],
         NEW P \in [Sidecars -> Seq(Asked)],
         \A t \in Sidecars : \A k \in DOMAIN P[t] :
            \E j \in DOMAIN inbox[t] : P[t][k] = inbox[t][j]
  PROVE  /\ LeftBy(pending[s][id], Without(s, id), gates, P)
         /\ pending[s][id] \in Runs /\ at[pending[s][id]] \in Calls
         /\ Callee[at[pending[s][id]]] = s
  <1> DEFINE r == pending[s][id]
             rest == [i \in DOMAIN pending[s] \ {id} |-> pending[s][i]]
  <1>1. \A t \in Sidecars : DOMAIN pending[t] \subseteq Nat \ {0}
                            /\ \A i \in DOMAIN pending[t] : pending[t][i] \in Runs
    BY Partial DEF WaitInv, Shape
  <1>2. r \in Runs /\ at[r] \in Calls /\ Callee[at[r]] = s
    BY <1>1 DEF WaitInv, CallsWait
  <1>3. Without(s, id) = [pending EXCEPT ![s] = rest]
    BY DEF Without
  <1>4. rest \in PartialFunctions(Nat \ {0}, Runs)
    <2>1. rest = [i \in DOMAIN rest |-> rest[i]] /\ DOMAIN rest = DOMAIN pending[s] \ {id}
          /\ \A i \in DOMAIN rest : rest[i] = pending[s][i]
      OBVIOUS
    <2> HIDE DEF rest
    <2> QED
      BY <1>1, <2>1, Partial
  <1>5. /\ Without(s, id) \in [Sidecars -> PartialFunctions(Nat \ {0}, Runs)]
        /\ Without(s, id)[s] = rest
        /\ \A t \in Sidecars \ {s} : Without(s, id)[t] = pending[t]
    <2> HIDE DEF rest
    <2> QED
      BY <1>3, <1>4 DEF WaitInv, Shape
  <1>6. ASSUME NEW t \in Sidecars, NEW i \in DOMAIN Without(s, id)[t]
        PROVE  /\ i \in DOMAIN pending[t] /\ Without(s, id)[t][i] = pending[t][i]
               /\ Without(s, id)[t][i] # r
    <2>1. CASE t = s
      BY <1>5, <1>6, <2>1 DEF WaitInv, CallsWait
    <2>2. CASE t # s
      BY <1>2, <1>5, <1>6, <2>2 DEF WaitInv, CallsWait
    <2> QED
      BY <2>1, <2>2
  <1>7. \A g \in GateIds : gates[g] # r
    BY <1>2, Names, ShellAssumption DEF WaitInv, GatesWait
  <1> QED
    BY <1>2, <1>5, <1>6, <1>7 DEF LeftBy, WaitInv, Shape

LEMMA PipesLeft ==
  ASSUME Shape, NEW s \in Sidecars, inbox[s] # <<>>
  PROVE  LET P == [inbox EXCEPT ![s] = Tail(@)] IN
         /\ P \in [Sidecars -> Seq(Asked)]
         /\ Head(inbox[s]) \in Asked
         /\ \E j \in DOMAIN inbox[s] : inbox[s][j] = Head(inbox[s])
         /\ \A t \in Sidecars : \A k \in DOMAIN P[t] :
               \E j \in DOMAIN inbox[t] : P[t][k] = inbox[t][j]
  <1> DEFINE P == [inbox EXCEPT ![s] = Tail(@)]
  <1>1. inbox \in [Sidecars -> Seq(Asked)]
    BY DEF Shape
  <1>2. /\ Tail(inbox[s]) \in Seq(Asked) /\ Head(inbox[s]) \in Asked
        /\ 1 \in DOMAIN inbox[s] /\ inbox[s][1] = Head(inbox[s])
        /\ \A i \in DOMAIN Tail(inbox[s]) :
             i + 1 \in DOMAIN inbox[s] /\ Tail(inbox[s])[i] = inbox[s][i + 1]
    BY <1>1, Shorter
  <1>3. /\ P \in [Sidecars -> Seq(Asked)] /\ P[s] = Tail(inbox[s])
        /\ \A t \in Sidecars \ {s} : P[t] = inbox[t]
    BY <1>1, <1>2
  <1> HIDE DEF P
  <1>4. \A t \in Sidecars : \A k \in DOMAIN P[t] :
           \E j \in DOMAIN inbox[t] : P[t][k] = inbox[t][j]
    <2>1. SUFFICES ASSUME NEW t \in Sidecars, NEW k \in DOMAIN P[t]
                   PROVE  \E j \in DOMAIN inbox[t] : P[t][k] = inbox[t][j]
      OBVIOUS
    <2>2. CASE t = s
      <3>1. k \in DOMAIN Tail(inbox[s]) /\ P[t][k] = Tail(inbox[s])[k]
        BY <1>3, <2>1, <2>2
      <3>2. k + 1 \in DOMAIN inbox[s] /\ P[t][k] = inbox[s][k + 1]
        BY <1>2, <3>1
      <3> QED
        BY <2>2, <3>2
    <2>3. CASE t # s
      BY <1>3, <2>1, <2>3
    <2> QED
      BY <2>2, <2>3
  <1> QED
    BY <1>2, <1>3, <1>4 DEF P

\* A request that wakes nobody leaves its pipe, and nothing else happens.
LEMMA PipesShrink ==
  ASSUME WaitInv, SeenInv, NEW s \in Sidecars, inbox[s] # <<>>,
         inbox' = [inbox EXCEPT ![s] = Tail(@)],
         UNCHANGED <<page, toServer, toPage, at, result, gates, pending, nextId, seen, lost>>
  PROVE  WaitInv' /\ SeenInv'
  <1>1. /\ inbox' \in [Sidecars -> Seq(Asked)]
        /\ \A t \in Sidecars : \A k \in DOMAIN inbox'[t] :
             \E j \in DOMAIN inbox[t] : inbox'[t][k] = inbox[t][j]
    BY PipesLeft DEF WaitInv
  <1>2. RequestsMatch'
    BY <1>1 DEF WaitInv, RequestsMatch
  <1>3. Shape'
    BY <1>1 DEF WaitInv, Shape
  <1>4. StartsOnce' /\ GatesWait' /\ CallsWait'
    BY DEF WaitInv, StartsOnce, GatesWait, CallsWait
  <1>5. SeenInv'
    BY DEF SeenInv, OneRun, OneRequest, SignedAsSeen, Active
  <1> QED
    BY <1>2, <1>3, <1>4, <1>5 DEF WaitInv

-----------------------------------------------------------------------------
(* The actions *)

\* A step of the window, the watchdog, the processes: no run, no request and
\* no dialog is touched.
LEMMA Elsewhere ==
  ASSUME WaitInv, SeenInv,
         UNCHANGED <<toServer, toPage, at, result, gates, pending, nextId, inbox, seen, lost>>,
         page' \in [running : BOOLEAN, banner : BOOLEAN,
                    gate : GateIds \union {"none"}, of : Runs \union {NoRun}],
         page'.running = page.running, page'.gate = page.gate, page'.of = page.of
  PROVE  WaitInv' /\ SeenInv'
  <1>1. Shape'
    BY DEF WaitInv, Shape
  <1>2. StartsOnce' /\ GatesWait' /\ CallsWait' /\ RequestsMatch'
    BY DEF WaitInv, StartsOnce, GatesWait, CallsWait, RequestsMatch
  <1>3. SeenInv'
    BY DEF SeenInv, OneRun, OneRequest, SignedAsSeen, Active
  <1> QED
    BY <1>1, <1>2, <1>3 DEF WaitInv

LEMMA ServerReadyStep ==
  ASSUME WaitInv, SeenInv, ServerReady
  PROVE  WaitInv' /\ SeenInv'
  <1> DEFINE n == [gate |-> "ready", run |-> NoRun]
  <1>1. n \in Notes /\ n.gate = "ready" /\ toPage \in Seq(Notes)
    BY DEF Notes, WaitInv, Shape
  <1>2. toPage' = Append(toPage, n)
    BY DEF ServerReady
  <1>3. UNCHANGED <<page, toServer, at, result, gates, pending, nextId, inbox, seen, lost>>
    BY DEF ServerReady, uiVars, runVars
  <1> HIDE DEF n
  <1>4. /\ toPage' \in Seq(Notes)
        /\ \A i \in DOMAIN toPage' :
              \/ i \in DOMAIN toPage /\ toPage'[i] = toPage[i]
              \/ i = Len(toPage) + 1 /\ toPage'[i] = n
    BY <1>1, <1>2, Longer
  <1>5. Shape' /\ StartsOnce' /\ GatesWait' /\ CallsWait' /\ RequestsMatch'
    BY <1>3, <1>4 DEF WaitInv, Shape, StartsOnce, GatesWait, CallsWait, RequestsMatch
  <1>6. ~ lost => OneRun' /\ OneRequest'
    BY <1>1, <1>3, <1>4 DEF SeenInv, OneRun, OneRequest, Active
  <1>7. SeenInv'
    BY <1>3, <1>6 DEF SeenInv, SignedAsSeen
  <1> QED
    BY <1>5, <1>7 DEF WaitInv

\* The request of a gate goes from the pipe into the dialog.
LEMMA BridgeReadsStep ==
  ASSUME WaitInv, SeenInv, BridgeReads
  PROVE  WaitInv' /\ SeenInv'
  <1> DEFINE n == Head(toPage)
  <1>1. toPage # <<>> /\ toPage' = Tail(toPage) /\ toPage \in Seq(Notes)
    BY DEF BridgeReads, WaitInv, Shape
  <1>2. /\ toPage' \in Seq(Notes) /\ n \in Notes
        /\ 1 \in DOMAIN toPage /\ toPage[1] = n
        /\ \A i \in DOMAIN toPage' :
             i \in Nat /\ i + 1 # 1 /\ i + 1 \in DOMAIN toPage /\ toPage'[i] = toPage[i + 1]
    BY <1>1, Shorter
  <1>3. UNCHANGED <<toServer, at, result, gates, pending, nextId, inbox, seen, lost>>
    BY DEF BridgeReads, runVars
  <1>4. StartsOnce' /\ GatesWait' /\ CallsWait' /\ RequestsMatch'
    BY <1>3 DEF WaitInv, StartsOnce, GatesWait, CallsWait, RequestsMatch
  <1>5. CASE n.gate = "ready"
    <2>1. page' = page
      BY <1>5 DEF BridgeReads
    <2>2. Shape'
      BY <1>2, <1>3, <2>1 DEF WaitInv, Shape
    <2>3. ~ lost => OneRun' /\ OneRequest'
      <3>1. ~ lost => \A i \in DOMAIN toPage' : toPage'[i].gate # "ready" =>
               /\ at[toPage'[i].run] = toPage'[i].gate
               /\ page.gate = "none"
               /\ \A j \in DOMAIN toPage' : toPage'[j].gate # "ready" => j + 1 = i + 1
        BY <1>2 DEF SeenInv, OneRequest
      <3>2. \A i, j \in DOMAIN toPage' : j + 1 = i + 1 => j = i
        BY <1>2
      <3> QED
        BY <1>2, <1>3, <2>1, <3>1, <3>2 DEF SeenInv, OneRun, OneRequest, Active
    <2>4. SeenInv'
      BY <1>3, <2>3 DEF SeenInv, SignedAsSeen
    <2> QED
      BY <1>4, <2>2, <2>4 DEF WaitInv
  <1>6. CASE n.gate # "ready"
    <2>1. page' = [page EXCEPT !.gate = n.gate, !.of = n.run]
      BY <1>6 DEF BridgeReads
    <2>2. n.gate \in GateIds /\ n.run \in Runs
      BY <1>2, <1>6 DEF Notes
    <2>3. /\ page'.gate = n.gate /\ page'.of = n.run /\ page'.running = page.running
          /\ page' \in [running : BOOLEAN, banner : BOOLEAN,
                        gate : GateIds \union {"none"}, of : Runs \union {NoRun}]
      BY <2>1, <2>2 DEF WaitInv, Shape
    <2>4. Shape'
      BY <1>2, <1>3, <2>2, <2>3 DEF WaitInv, Shape
    <2>5. ~ lost => OneRun' /\ OneRequest'
      <3>1. ~ lost => /\ at[n.run] = n.gate
                      /\ \A i \in DOMAIN toPage' : toPage'[i].gate = "ready"
                      /\ \A i \in DOMAIN toServer : toServer[i].gate = "start"
        BY <1>2, <1>6 DEF SeenInv, OneRequest
      <3> QED
        BY <1>3, <2>3, <3>1 DEF SeenInv, OneRun, OneRequest, Active
    <2>6. SeenInv'
      BY <1>3, <2>5 DEF SeenInv, SignedAsSeen
    <2> QED
      BY <1>4, <2>4, <2>6 DEF WaitInv
  <1> QED
    BY <1>5, <1>6

\* The button starts a run only when no other is running, unless the page has
\* forgotten one.
LEMMA StartStep ==
  ASSUME WaitInv, SeenInv, NEW r \in Runs, NEW level \in Levels, Start(r, level)
  PROVE  WaitInv' /\ SeenInv'
  <1> DEFINE m == [run |-> r, gate |-> "start", decision |-> "none"]
  <1>1. /\ toServer' = Append(toServer, m) /\ m \in Lines /\ toServer \in Seq(Lines)
        /\ m.run = r /\ m.gate = "start" /\ at[r] = "none" /\ ~ page.running
    BY DEF Start, Lines, WaitInv, Shape
  <1>2. UNCHANGED <<toPage, result, gates, pending, nextId, inbox, seen, lost>>
    BY DEF Start
  <1> HIDE DEF m
  <1>3. /\ toServer' \in Seq(Lines)
        /\ \A i \in DOMAIN toServer' :
              \/ i \in DOMAIN toServer /\ toServer'[i] = toServer[i]
              \/ i = Len(toServer) + 1 /\ toServer'[i] = m
    BY <1>1, Longer
  <1>4. \A i \in DOMAIN toServer : toServer[i] \in Lines
    BY <1>1, ElementOfSeq, LenProperties
  <1>5. /\ at' \in [Runs -> Stages] /\ at'[r] = "sent"
        /\ \A q \in Runs \ {r} : at'[q] = at[q]
    BY DEF Start, WaitInv, Shape, Stages
  <1>6. /\ page'.running = TRUE /\ page'.gate = page.gate /\ page'.of = page.of
        /\ page' \in [running : BOOLEAN, banner : BOOLEAN,
                      gate : GateIds \union {"none"}, of : Runs \union {NoRun}]
    BY DEF Start, WaitInv, Shape
  <1>7. Shape'
    BY <1>2, <1>3, <1>5, <1>6 DEF WaitInv, Shape
  <1>8. StartsOnce'
    <2>1. ASSUME NEW i \in DOMAIN toServer', toServer'[i].gate = "start"
          PROVE  /\ at'[toServer'[i].run] = "sent"
                 /\ \A j \in DOMAIN toServer' :
                      toServer'[j].gate = "start" /\ toServer'[j].run = toServer'[i].run => j = i
      <3>1. \A j \in DOMAIN toServer : toServer[j].gate = "start" =>
               toServer[j].run \in Runs \ {r} /\ at[toServer[j].run] = "sent"
        BY <1>1, <1>4 DEF WaitInv, StartsOnce, Lines
      <3>2. CASE i \in DOMAIN toServer /\ toServer'[i] = toServer[i]
        BY <1>1, <1>3, <1>5, <2>1, <3>1, <3>2 DEF WaitInv, StartsOnce
      <3>3. CASE i = Len(toServer) + 1 /\ toServer'[i] = m
        BY <1>1, <1>3, <1>5, <3>1, <3>3
      <3> QED
        BY <1>3, <2>1, <3>2, <3>3
    <2> QED
      BY <2>1 DEF StartsOnce
  <1>9. GatesWait' /\ CallsWait' /\ RequestsMatch'
    <2>1. \A g \in GateIds : gates[g] # NoRun => gates[g] \in Runs \ {r} /\ at[gates[g]] = g
      BY <1>1, Names DEF WaitInv, GatesWait, Shape
    <2>2. \A s \in Sidecars : \A i \in DOMAIN pending[s] : pending[s][i] \in Runs \ {r}
      <3>1. \A s \in Sidecars : \A i \in DOMAIN pending[s] : pending[s][i] \in Runs
        BY Partial DEF WaitInv, Shape
      <3> QED
        BY <1>1, <3>1, Names DEF WaitInv, CallsWait
    <2>3. GatesWait'
      BY <1>2, <1>5, <2>1 DEF GatesWait
    <2>4. CallsWait'
      BY <1>2, <1>5, <2>2 DEF WaitInv, CallsWait
    <2> QED
      BY <1>2, <2>3, <2>4 DEF WaitInv, RequestsMatch
  <1>10. ASSUME ~ lost
         PROVE  OneRun' /\ OneRequest'
    <2>1. \A q \in Runs : ~ Active(q)
      BY <1>1, <1>10 DEF SeenInv, OneRun
    <2>2. \A q \in Runs : at[q] \notin GateIds
      BY <2>1, Names DEF Active
    <2>3. OneRun'
      BY <1>5, <1>6, <2>1 DEF OneRun, Active
    <2>4. page.gate = "none"
      BY <1>10, <2>2 DEF SeenInv, OneRequest, WaitInv, Shape
    <2>5. \A i \in DOMAIN toPage : toPage[i].gate = "ready"
      <3>1. \A i \in DOMAIN toPage : toPage[i] \in Notes
        BY ElementOfSeq, LenProperties DEF WaitInv, Shape
      <3> QED
        BY <1>10, <2>2, <3>1 DEF SeenInv, OneRequest, Notes
    <2>6. \A i \in DOMAIN toServer : toServer[i].gate = "start"
      BY <1>4, <1>10, <2>2 DEF SeenInv, OneRequest, Lines
    <2>7. OneRequest'
      BY <1>1, <1>2, <1>3, <1>6, <2>4, <2>5, <2>6 DEF OneRequest
    <2> QED
      BY <2>3, <2>7
  <1>11. SeenInv'
    <2>1. (\A q \in Runs : result[q] # "none" => at[q] = "ended")'
      BY <1>1, <1>2, <1>5 DEF SeenInv
    <2> QED
      BY <1>2, <1>10, <2>1 DEF SeenInv, SignedAsSeen
  <1> QED
    BY <1>7, <1>8, <1>9, <1>11 DEF WaitInv

\* The request of a gate goes from the dialog into the decision.
LEMMA ClickStep ==
  ASSUME WaitInv, SeenInv, NEW decision \in Decisions, Click(decision)
  PROVE  WaitInv' /\ SeenInv'
  <1> DEFINE m == [run |-> page.of, gate |-> page.gate, decision |-> decision]
  <1>1. page.gate \in GateIds /\ page.of \in Runs /\ toServer \in Seq(Lines)
    BY DEF Click, WaitInv, Shape
  <1>2. /\ toServer' = Append(toServer, m) /\ m \in Lines
        /\ m.run = page.of /\ m.gate = page.gate /\ m.gate # "start"
    BY <1>1, Names DEF Click, Lines
  <1>3. UNCHANGED <<toPage, at, result, gates, pending, nextId, inbox, seen, lost>>
    BY DEF Click, runVars
  <1> HIDE DEF m
  <1>4. /\ toServer' \in Seq(Lines)
        /\ \A i \in DOMAIN toServer' :
              \/ i \in DOMAIN toServer /\ toServer'[i] = toServer[i]
              \/ i = Len(toServer) + 1 /\ toServer'[i] = m
    BY <1>1, <1>2, Longer
  <1>5. /\ page'.running = page.running /\ page'.gate = "none"
        /\ page' \in [running : BOOLEAN, banner : BOOLEAN,
                      gate : GateIds \union {"none"}, of : Runs \union {NoRun}]
    BY DEF Click, WaitInv, Shape
  <1>6. Shape'
    BY <1>3, <1>4, <1>5 DEF WaitInv, Shape
  <1>7. StartsOnce'
    BY <1>2, <1>3, <1>4 DEF WaitInv, StartsOnce
  <1>8. GatesWait' /\ CallsWait' /\ RequestsMatch'
    BY <1>3 DEF WaitInv, GatesWait, CallsWait, RequestsMatch
  <1>9. ASSUME ~ lost
        PROVE  OneRun' /\ OneRequest'
    <2>1. /\ at[page.of] = page.gate
          /\ \A i \in DOMAIN toPage : toPage[i].gate = "ready"
          /\ \A i \in DOMAIN toServer : toServer[i].gate = "start"
      BY <1>1, <1>9, Names DEF SeenInv, OneRequest
    <2>2. OneRequest'
      BY <1>2, <1>3, <1>4, <1>5, <2>1 DEF OneRequest
    <2>3. OneRun'
      BY <1>3, <1>5, <1>9 DEF SeenInv, OneRun, Active
    <2> QED
      BY <2>2, <2>3
  <1>10. SeenInv'
    BY <1>3, <1>9 DEF SeenInv, SignedAsSeen
  <1> QED
    BY <1>6, <1>7, <1>8, <1>10 DEF WaitInv

\* A page that is reloaded while nothing runs has lost nothing.
LEMMA ReloadStep ==
  ASSUME WaitInv, SeenInv, Reload
  PROVE  WaitInv' /\ SeenInv'
  <1>1. UNCHANGED <<toServer, toPage, at, result, gates, pending, nextId, inbox, seen>>
    BY DEF Reload, runVars
  <1>2. /\ page' = [running |-> FALSE, banner |-> FALSE, gate |-> "none", of |-> NoRun]
        /\ lost' \in BOOLEAN /\ (~ lost' <=> ~ lost /\ \A r \in Runs : ~ Active(r))
    BY DEF Reload, WaitInv, Shape
  <1>3. page'.gate = "none"
    BY <1>2
  <1>4. Shape'
    BY <1>1, <1>2, <1>3 DEF WaitInv, Shape
  <1>5. StartsOnce' /\ GatesWait' /\ CallsWait' /\ RequestsMatch'
    BY <1>1 DEF WaitInv, StartsOnce, GatesWait, CallsWait, RequestsMatch
  <1>6. ASSUME ~ lost'
        PROVE  OneRun' /\ OneRequest'
    <2>1. ~ lost /\ \A r \in Runs : ~ Active(r)
      BY <1>2, <1>6
    <2>2. \A r \in Runs : ~ Active(r)'
      BY <1>1, <2>1 DEF Active
    <2>3. \A r \in Runs : at[r] \notin GateIds
      BY <2>1, Names DEF Active
    <2>4. \A i \in DOMAIN toPage : toPage[i].gate = "ready"
      <3>1. \A i \in DOMAIN toPage : toPage[i] \in Notes
        BY ElementOfSeq, LenProperties DEF WaitInv, Shape
      <3> QED
        BY <2>1, <2>3, <3>1 DEF SeenInv, OneRequest, Notes
    <2>5. \A i \in DOMAIN toServer : toServer[i].gate = "start"
      <3>1. \A i \in DOMAIN toServer : toServer[i] \in Lines
        BY ElementOfSeq, LenProperties DEF WaitInv, Shape
      <3> QED
        BY <2>1, <2>3, <3>1 DEF SeenInv, OneRequest, Lines
    <2>6. OneRun' /\ OneRequest'
      BY <1>1, <1>3, <2>2, <2>4, <2>5 DEF OneRun, OneRequest
    <2> QED
      BY <2>6
  <1>7. SeenInv'
    BY <1>1, <1>2, <1>6 DEF SeenInv, SignedAsSeen
  <1> QED
    BY <1>4, <1>5, <1>7 DEF WaitInv

LEMMA HandleStartStep ==
  ASSUME WaitInv, SeenInv, HandleStart
  PROVE  WaitInv' /\ SeenInv'
  <1> DEFINE r == Head(toServer).run
             to == Following(r, at[r])
  <1>1. /\ toServer # <<>> /\ toServer' = Tail(toServer) /\ toServer \in Seq(Lines)
        /\ Head(toServer).gate = "start" /\ GoesOn(r, pending, gates, inbox)
        /\ UNCHANGED <<page, seen, lost>>
    BY DEF HandleStart, uiVars, WaitInv, Shape
  <1>2. /\ Head(toServer) \in Lines /\ 1 \in DOMAIN toServer /\ toServer[1] = Head(toServer)
        /\ \A i \in DOMAIN toServer' : i + 1 \in DOMAIN toServer /\ toServer'[i] = toServer[i + 1]
    BY <1>1, Shorter
  <1>3. r \in Runs /\ at[r] = "sent"
    BY <1>1, <1>2 DEF Lines, WaitInv, StartsOnce
  <1>4. to \in GateIds \union Calls
    BY <1>3, StageAfter
  <1>5. /\ MovesTo(r, to, pending, gates, inbox)
        /\ result' = IF to = "ended" THEN [result EXCEPT ![r] = "none"] ELSE result
    BY <1>1, <1>4, Names DEF GoesOn, MovesTo
  <1> HIDE DEF r, to
  <1>6. LeftBy(r, pending, gates, inbox)
    <2>1. \A s \in Sidecars : \A i \in DOMAIN pending[s] : pending[s][i] # r
      BY <1>3, Names DEF WaitInv, CallsWait
    <2>2. \A g \in GateIds : gates[g] # r
      BY <1>3, Names, ShellAssumption DEF WaitInv, GatesWait
    <2> QED
      BY <2>1, <2>2 DEF LeftBy, WaitInv, Shape
  <1>7. /\ at' \in [Runs -> Stages] /\ gates' \in [GateIds -> Runs \union {NoRun}]
        /\ pending' \in [Sidecars -> PartialFunctions(Nat \ {0}, Runs)]
        /\ nextId' \in [Sidecars -> Nat \ {0}] /\ inbox' \in [Sidecars -> Seq(Asked)]
        /\ toPage' \in Seq(Notes)
        /\ GatesWait' /\ CallsWait' /\ RequestsMatch'
    BY <1>3, <1>4, <1>5, <1>6, MoveWaits
  <1>8. \A q \in Runs \ {r} : at'[q] = at[q]
    BY <1>5 DEF MovesTo, WaitInv, Shape
  <1>9. StartsOnce' /\ toServer' \in Seq(Lines)
    BY <1>1, <1>8, StartsKept DEF r
  <1>10. ~ lost => /\ page.gate = "none"
                   /\ \A i \in DOMAIN toPage : toPage[i].gate = "ready"
                   /\ \A i \in DOMAIN toServer' : toServer'[i].gate = "start"
    BY <1>2, <1>3, Names, NoRequest DEF Active
  <1>11. SeenInv' /\ result' \in [Runs -> Results]
    <2>1. "none" \in Results
      BY DEF Results
    <2>2. at[r] \in GateIds \union Calls \union {"sent"} /\ UNCHANGED <<page, lost>>
      BY <1>1, <1>3
    <2>3. /\ to \in GateIds \union Calls \union {"ended"} /\ to # "ended"
          /\ \A q \in Runs \ {r} : seen'[q] = seen[q]
      BY <1>1, <1>4, Names
    <2> QED
      BY <1>3, <1>5, <1>10, <2>1, <2>2, <2>3, MoveSeen
  <1>12. Shape'
    BY <1>1, <1>7, <1>9, <1>11 DEF WaitInv, Shape
  <1> QED
    BY <1>7, <1>9, <1>11, <1>12 DEF WaitInv

\* A decision lets a run through, ends it, or reaches nobody.
LEMMA HandleResolveStep ==
  ASSUME WaitInv, SeenInv, HandleResolve
  PROVE  WaitInv' /\ SeenInv'
  <1> DEFINE m == Head(toServer)
             r == gates[m.gate]
             registry == [gates EXCEPT ![m.gate] = NoRun]
  <1>1. /\ toServer # <<>> /\ toServer' = Tail(toServer) /\ toServer \in Seq(Lines)
        /\ m.gate # "start" /\ UNCHANGED <<page, lost>>
    BY DEF HandleResolve, uiVars, WaitInv, Shape
  <1>2. /\ m \in Lines /\ 1 \in DOMAIN toServer /\ toServer[1] = m
        /\ \A i \in DOMAIN toServer' :
              i + 1 # 1 /\ i + 1 \in DOMAIN toServer /\ toServer'[i] = toServer[i + 1]
    BY <1>1, Shorter
  <1>3. m.gate \in GateIds /\ m.run \in Runs /\ r \in Runs \union {NoRun}
    BY <1>1, <1>2 DEF Lines, WaitInv, Shape
  <1>4. ~ lost => /\ at[m.run] = m.gate
                  /\ page.gate = "none"
                  /\ \A i \in DOMAIN toPage : toPage[i].gate = "ready"
                  /\ \A i \in DOMAIN toServer' : toServer'[i].gate = "start"
    BY <1>1, <1>2 DEF SeenInv, OneRequest
  <1>5. CASE r = NoRun
    <2>1. UNCHANGED <<at, result, gates, pending, nextId, inbox, toPage, seen>>
      BY <1>5 DEF HandleResolve
    <2>2. StartsOnce' /\ toServer' \in Seq(Lines)
      BY <1>1, <2>1, StartsKept
    <2>3. Shape'
      BY <1>1, <2>1, <2>2 DEF WaitInv, Shape
    <2>4. GatesWait' /\ CallsWait' /\ RequestsMatch'
      BY <2>1 DEF WaitInv, GatesWait, CallsWait, RequestsMatch
    <2>5. ~ lost => OneRun' /\ OneRequest'
      BY <1>1, <1>4, <2>1 DEF SeenInv, OneRun, OneRequest, Active
    <2>6. SeenInv'
      BY <1>1, <2>1, <2>5 DEF SeenInv, SignedAsSeen
    <2> QED
      BY <2>2, <2>3, <2>4, <2>6 DEF WaitInv
  <1>6. CASE r # NoRun
    <2>1. r \in Runs /\ at[r] = m.gate
      BY <1>3, <1>6 DEF WaitInv, GatesWait
    <2>2. ~ lost => m.run = r
      BY <1>3, <1>4, <2>1, Names DEF SeenInv, OneRun, Active
    <2>3. LeftBy(r, pending, registry, inbox)
      <3>1. registry \in [GateIds -> Runs \union {NoRun}]
        BY DEF WaitInv, Shape
      <3>2. \A g \in GateIds : registry[g] \in {gates[g], NoRun} /\ registry[g] # r
        BY <1>3, <2>1, ShellAssumption DEF WaitInv, Shape, GatesWait
      <3> HIDE DEF r, registry
      <3>3. \A s \in Sidecars : \A i \in DOMAIN pending[s] : pending[s][i] # r
        BY <1>3, <2>1, Names DEF WaitInv, CallsWait
      <3> QED
        BY <3>1, <3>2, <3>3 DEF LeftBy, WaitInv, Shape
    <2>4. \E to \in GateIds \union Calls \union {"ended"}, x \in Results :
             /\ MovesTo(r, to, pending, registry, inbox)
             /\ result' = IF to = "ended" THEN [result EXCEPT ![r] = x] ELSE result
             /\ \A q \in Runs \ {r} : seen'[q] = seen[q]
             /\ seen' \in [Runs -> Runs \union {NoRun}]
             /\ to = "ended" /\ x = "signed" => lost \/ seen'[r] = r
      <3>1. CASE m.decision = "approve"
        <4>1. GoesOn(r, pending, registry, inbox) /\ seen' = [seen EXCEPT ![r] = m.run]
          BY <1>6, <3>1 DEF HandleResolve
        <4>2. /\ Following(r, at[r]) \in GateIds \union Calls \union {"ended"}
              /\ Outcome(at[r]) \in Results
          BY <1>3, <2>1, StageAfter DEF Results
        <4>3. seen' \in [Runs -> Runs \union {NoRun}] /\ (~ lost => seen'[r] = r)
              /\ \A q \in Runs \ {r} : seen'[q] = seen[q]
          BY <1>3, <2>1, <2>2, <4>1 DEF WaitInv, Shape
        <4>4. /\ MovesTo(r, Following(r, at[r]), pending, registry, inbox)
              /\ result' = IF Following(r, at[r]) = "ended"
                           THEN [result EXCEPT ![r] = Outcome(at[r])] ELSE result
          BY <4>1 DEF GoesOn, MovesTo
        <4> HIDE DEF r, registry, m
        <4> QED
          BY <4>2, <4>3, <4>4
      <3>2. CASE m.decision # "approve"
        <4>1. /\ Stops(r, "aborted") /\ gates' = registry
              /\ UNCHANGED <<pending, nextId, inbox, toPage, seen>>
          BY <1>6, <3>2 DEF HandleResolve
        <4> HIDE DEF r, registry
        <4>2. /\ MovesTo(r, "ended", pending, registry, inbox)
              /\ result' = [result EXCEPT ![r] = "aborted"]
          BY <4>1, Names DEF Stops, MovesTo, Registered, Written
        <4> QED
          BY <4>1, <4>2 DEF WaitInv, Shape, Results
      <3> QED
        BY <3>1, <3>2
    <2> HIDE DEF r, registry
    <2>5. PICK to \in GateIds \union Calls \union {"ended"}, x \in Results :
             /\ MovesTo(r, to, pending, registry, inbox)
             /\ result' = IF to = "ended" THEN [result EXCEPT ![r] = x] ELSE result
             /\ \A q \in Runs \ {r} : seen'[q] = seen[q]
             /\ seen' \in [Runs -> Runs \union {NoRun}]
             /\ to = "ended" /\ x = "signed" => lost \/ seen'[r] = r
      BY <2>4
    <2>6. /\ at' \in [Runs -> Stages] /\ gates' \in [GateIds -> Runs \union {NoRun}]
          /\ pending' \in [Sidecars -> PartialFunctions(Nat \ {0}, Runs)]
          /\ nextId' \in [Sidecars -> Nat \ {0}] /\ inbox' \in [Sidecars -> Seq(Asked)]
          /\ toPage' \in Seq(Notes)
          /\ GatesWait' /\ CallsWait' /\ RequestsMatch'
      BY <2>1, <2>3, <2>5, MoveWaits
    <2>7. \A q \in Runs : at'[q] = at[q] \/ at[q] # "sent"
      BY <1>3, <2>1, <2>5, Names DEF MovesTo, WaitInv, Shape
    <2>8. StartsOnce' /\ toServer' \in Seq(Lines)
      BY <1>1, <2>7, StartsKept
    <2>9. SeenInv' /\ result' \in [Runs -> Results]
      BY <1>1, <1>3, <1>4, <2>1, <2>5, MoveSeen
    <2>10. Shape'
      BY <1>1, <2>5, <2>6, <2>8, <2>9 DEF WaitInv, Shape
    <2> QED
      BY <2>6, <2>8, <2>9, <2>10 DEF WaitInv
  <1> QED
    BY <1>5, <1>6

\* The run that waited for request id of sidecar s moves on, with its answer
\* or without.
LEMMA WakeStep ==
  ASSUME WaitInv, SeenInv, NEW s \in Sidecars, NEW id \in DOMAIN pending[s],
         NEW P \in [Sidecars -> Seq(Asked)],
         \A t \in Sidecars : \A k \in DOMAIN P[t] :
            \E j \in DOMAIN inbox[t] : P[t][k] = inbox[t][j],
         NEW to \in GateIds \union Calls \union {"ended"},
         MovesTo(pending[s][id], to, Without(s, id), gates, P),
         NEW x \in Results \ {"signed"},
         result' = IF to = "ended" THEN [result EXCEPT ![pending[s][id]] = x] ELSE result,
         UNCHANGED <<page, toServer, seen, lost>>
  PROVE  WaitInv' /\ SeenInv'
  <1> DEFINE r == pending[s][id]
  <1>1. LeftBy(r, Without(s, id), gates, P) /\ r \in Runs /\ at[r] \in Calls
    BY WithoutLeft
  <1> HIDE DEF r
  <1>2. MovesTo(r, to, Without(s, id), gates, P)
        /\ result' = IF to = "ended" THEN [result EXCEPT ![r] = x] ELSE result
    BY DEF r
  <1>3. /\ at' \in [Runs -> Stages] /\ gates' \in [GateIds -> Runs \union {NoRun}]
        /\ pending' \in [Sidecars -> PartialFunctions(Nat \ {0}, Runs)]
        /\ nextId' \in [Sidecars -> Nat \ {0}] /\ inbox' \in [Sidecars -> Seq(Asked)]
        /\ toPage' \in Seq(Notes)
        /\ GatesWait' /\ CallsWait' /\ RequestsMatch'
    BY <1>1, <1>2, MoveWaits
  <1>4. \A q \in Runs : at'[q] = at[q] \/ at[q] # "sent"
    BY <1>1, <1>2, Names DEF MovesTo, WaitInv, Shape
  <1>5. StartsOnce' /\ toServer' \in Seq(Lines)
    BY <1>4, StartsKept
  <1>6. ~ lost => /\ page.gate = "none"
                  /\ \A i \in DOMAIN toPage : toPage[i].gate = "ready"
                  /\ \A i \in DOMAIN toServer' : toServer'[i].gate = "start"
    BY <1>1, Names, NoRequest DEF Active
  <1>7. SeenInv' /\ result' \in [Runs -> Results]
    BY <1>1, <1>2, <1>6, MoveSeen
  <1>8. Shape'
    BY <1>3, <1>5, <1>7 DEF WaitInv, Shape
  <1> QED
    BY <1>3, <1>5, <1>7, <1>8 DEF WaitInv

LEMMA AnswerStep ==
  ASSUME WaitInv, SeenInv, NEW s \in Sidecars, NEW verdict \in BOOLEAN, Answer(s, verdict)
  PROVE  WaitInv' /\ SeenInv'
  <1> DEFINE q == Head(inbox[s])
             P == [inbox EXCEPT ![s] = Tail(@)]
  <1>1. inbox[s] # <<>> /\ UNCHANGED <<page, toServer, seen, lost>>
    BY DEF Answer, uiVars
  <1>2. /\ P \in [Sidecars -> Seq(Asked)]
        /\ \A t \in Sidecars : \A k \in DOMAIN P[t] :
              \E j \in DOMAIN inbox[t] : P[t][k] = inbox[t][j]
    BY <1>1, PipesLeft DEF WaitInv
  <1>3. CASE q.id \in DOMAIN pending[s]
    <2> DEFINE id == q.id
               r == pending[s][id]
               to == Following(r, at[r])
    <2>1. GoesOn(r, Without(s, id), gates, P)
      BY <1>3 DEF Answer
    <2>2. r \in Runs /\ at[r] \in Calls
      BY <1>2, <1>3, WithoutLeft
    <2>3. to \in GateIds \union Calls \union {"ended"} /\ (to = "ended" => at[r] = "write")
      BY <2>2, StageAfter, Names DEF GateIds
    <2>4. /\ MovesTo(r, to, Without(s, id), gates, P)
          /\ result' = IF to = "ended" THEN [result EXCEPT ![r] = "blocked"] ELSE result
      BY <2>1, <2>3 DEF GoesOn, MovesTo, Outcome
    <2>5. "blocked" \in Results \ {"signed"}
      BY DEF Results
    <2>6. /\ id \in DOMAIN pending[s]
          /\ MovesTo(pending[s][id], to, Without(s, id), gates, P)
          /\ result' = IF to = "ended" THEN [result EXCEPT ![pending[s][id]] = "blocked"]
                       ELSE result
      BY <1>3, <2>4
    <2> HIDE DEF P, to, r, id
    <2> QED
      BY <1>1, <1>2, <2>3, <2>5, <2>6, WakeStep
  <1>4. CASE q.id \notin DOMAIN pending[s]
    <2>1. inbox' = P /\ UNCHANGED <<at, result, gates, pending, nextId, toPage>>
      BY <1>4 DEF Answer
    <2> QED
      BY <1>1, <2>1, PipesShrink
  <1> QED
    BY <1>3, <1>4

LEMMA TimeoutStep ==
  ASSUME WaitInv, SeenInv, NEW s \in Sidecars, NEW id \in Ids, Timeout(s, id)
  PROVE  WaitInv' /\ SeenInv'
  <1> DEFINE r == pending[s][id]
  <1>1. id \in DOMAIN pending[s] /\ UNCHANGED <<page, toServer, seen, lost>>
    BY DEF Timeout, uiVars
  <1>2. /\ MovesTo(r, "ended", Without(s, id), gates, inbox)
        /\ result' = [result EXCEPT ![r] = "failed"]
    BY Names DEF Timeout, Stops, MovesTo, Registered, Written
  <1>3. inbox \in [Sidecars -> Seq(Asked)]
    BY DEF WaitInv, Shape
  <1>4. "failed" \in Results \ {"signed"}
    BY DEF Results
  <1> QED
    BY <1>1, <1>2, <1>3, <1>4, WakeStep

-----------------------------------------------------------------------------
(* The invariant *)

LEMMA InitInv == Init => WaitInv /\ SeenInv
  <1> SUFFICES ASSUME Init PROVE WaitInv /\ SeenInv
    OBVIOUS
  <1>1. <<>> \in Seq(Lines) /\ <<>> \in Seq(Notes) /\ <<>> \in Seq(Asked)
        /\ DOMAIN <<>> = {} /\ Len(<<>>) = 0
    BY EmptySeq, LenProperties
  <1>2. [i \in {} |-> NoRun] \in PartialFunctions(Nat \ {0}, Runs)
        /\ DOMAIN [i \in {} |-> NoRun] = {}
    <2> DEFINE f == [i \in {} |-> NoRun]
    <2>1. f = [i \in DOMAIN f |-> f[i]] /\ DOMAIN f = {}
      OBVIOUS
    <2> HIDE DEF f
    <2> QED
      BY <2>1, Partial DEF f
  <1>3. Shape
    <2>1. /\ nextId \in [Sidecars -> Nat \ {0}] /\ inbox \in [Sidecars -> Seq(Asked)]
          /\ pending \in [Sidecars -> PartialFunctions(Nat \ {0}, Runs)]
      BY <1>1, <1>2 DEF Init
    <2> QED
      BY <1>1, <2>1, Names DEF Init, Shape, Stages, Results
  <1>4. StartsOnce /\ GatesWait /\ CallsWait /\ RequestsMatch
    BY <1>1, <1>2 DEF Init, StartsOnce, GatesWait, CallsWait, RequestsMatch
  <1>5. SeenInv
    BY <1>1 DEF Init, SeenInv, OneRun, OneRequest, SignedAsSeen, Active
  <1> QED
    BY <1>3, <1>4, <1>5 DEF WaitInv

LEMMA StepInv == WaitInv /\ SeenInv /\ [Next]_vars => WaitInv' /\ SeenInv'
  <1> SUFFICES ASSUME WaitInv, SeenInv, [Next]_vars
               PROVE  WaitInv' /\ SeenInv'
    OBVIOUS
  <1>1. CASE Spawn \/ SpawnPanics \/ ServerFails \/ WatchdogWakes \/ Crash \/ (\E s \in Sidecars : Dies(s))
             \/ UNCHANGED vars
    <2>1. UNCHANGED <<page, toServer, toPage, at, result, gates, pending, nextId, inbox,
                      seen, lost>>
      BY <1>1 DEF Spawn, SpawnPanics, ServerFails, WatchdogWakes, Crash, Dies, vars, uiVars, runVars
    <2> QED
      BY <2>1, Elsewhere DEF WaitInv, Shape
  <1>2. CASE WatchdogActs
    <2>1. /\ UNCHANGED <<toServer, toPage, at, result, gates, pending, nextId, inbox,
                         seen, lost>>
          /\ page' = [page EXCEPT !.banner = TRUE]
      BY <1>2 DEF WatchdogActs, runVars
    <2>2. /\ page'.running = page.running /\ page'.gate = page.gate /\ page'.of = page.of
          /\ page' \in [running : BOOLEAN, banner : BOOLEAN,
                        gate : GateIds \union {"none"}, of : Runs \union {NoRun}]
      BY <2>1 DEF WaitInv, Shape
    <2> QED
      BY <2>1, <2>2, Elsewhere
  <1>3. ASSUME NEW s \in Sidecars, AnswerNobody(s)
        PROVE  WaitInv' /\ SeenInv'
    <2>1. inbox[s] # <<>> /\ inbox' = [inbox EXCEPT ![s] = Tail(@)]
          /\ UNCHANGED <<page, toServer, toPage, at, result, gates, pending, nextId, seen, lost>>
      BY <1>3 DEF AnswerNobody, uiVars
    <2> QED
      BY <2>1, PipesShrink
  <1> QED
    BY <1>1, <1>2, <1>3, ServerReadyStep, BridgeReadsStep, StartStep, ClickStep, ReloadStep,
       HandleStartStep, HandleResolveStep, AnswerStep, TimeoutStep
    DEF Next

LEMMA Invariance == Spec => [](WaitInv /\ SeenInv)
  BY InitInv, StepInv, PTL DEF Spec

-----------------------------------------------------------------------------
\* However many runs share a sidecar and whoever gives up on whom, an answer
\* wakes the run that asked, at the call it asked with, or nobody (pending of
\* rpc.ts: an id is given out once, and its waiter is forgotten with it).
THEOREM AnswersReachTheirCaller == Spec => []AnswersMatchCalls
  <1>1. WaitInv => AnswersMatchCalls
    <2> SUFFICES ASSUME WaitInv, NEW s \in Sidecars, NEW k \in DOMAIN inbox[s],
                        inbox[s][k].id \in DOMAIN pending[s]
                 PROVE  LET q == inbox[s][k] IN
                        /\ pending[s][q.id] = q.run
                        /\ at[q.run] \in Calls
                        /\ Callee[at[q.run]] = s
      BY DEF AnswersMatchCalls
    <2> QED
      BY DEF WaitInv, CallsWait, RequestsMatch
  <1> QED
    BY <1>1, Invariance, PTL

\* Unless the page was reloaded during a run, the run signed is the one whose
\* request the human answered: the disabled button of App.tsx is enough, for
\* a server that knows a gate by its name only.
THEOREM SignedIsSeen == Spec => []SignedAsSeen
  <1>1. SeenInv => SignedAsSeen
    BY DEF SeenInv
  <1> QED
    BY <1>1, Invariance, PTL

-----------------------------------------------------------------------------
(* How many calls there are: the ids are counted against the calls that    *)
(* are still ahead of the runs.                                            *)

\* The stages in the order a run comes to them.
Place == [none |-> 0, sent |-> 1, topic_confirm |-> 2, query |-> 3, generate |-> 4,
          experiment_design |-> 5, verify |-> 6, write |-> 7, pre_signoff |-> 8, ended |-> 9]

\* The calls of sidecar s that are still ahead of the runs.
CallsOf(s) == {c \in Calls : Callee[c] = s}
Ahead(s) == {x \in Runs \X CallsOf(s) : Place[at[x[1]]] < Place[x[2]]}

\* The calls made of a sidecar, which is how many ids it gave out, and those
\* ahead are not more than two for each run.
CallsAreFew ==
    \A s \in Sidecars : nextId[s] - 1 + Cardinality(Ahead(s)) <= 2 * Cardinality(Runs)

LEMMA Places ==
  /\ Stages = DOMAIN Place
  /\ \A stage \in Stages : Place[stage] \in 0 .. 9
  BY Names DEF Stages, GateIds, Place

LEMMA AheadFinite ==
  ASSUME NEW s \in Sidecars
  PROVE  /\ IsFiniteSet(Runs \X CallsOf(s))
         /\ Cardinality(Runs \X CallsOf(s)) <= 2 * Cardinality(Runs)
         /\ IsFiniteSet(Ahead(s))
         /\ Cardinality(Ahead(s)) <= Cardinality(Runs \X CallsOf(s))
  <1>1. IsFiniteSet(CallsOf(s)) /\ Cardinality(CallsOf(s)) \in {1, 2}
    <2>1. /\ s = "mem" => CallsOf(s) = {"query"} \union {"write"}
          /\ s = "pipe" => CallsOf(s) = {"generate"}
          /\ s = "coe" => CallsOf(s) = {"verify"}
      BY Names DEF CallsOf, Callee
    <2>2. IsFiniteSet({"query"}) /\ Cardinality({"query"}) = 1
      BY FS_Singleton
    <2>3. /\ IsFiniteSet({"query"} \union {"write"})
          /\ Cardinality({"query"} \union {"write"}) = 2
      BY <2>2, FS_AddElement
    <2>4. CASE s = "mem"
      BY <2>1, <2>3, <2>4
    <2>5. ASSUME NEW c, CallsOf(s) = {c}
          PROVE  IsFiniteSet(CallsOf(s)) /\ Cardinality(CallsOf(s)) = 1
      BY <2>5, FS_Singleton
    <2> QED
      BY <2>1, <2>4, <2>5 DEF Sidecars
  <1>2. IsFiniteSet(Runs) /\ Cardinality(Runs) \in Nat
    BY ShellAssumption, FS_CardinalityType
  <1>3. /\ IsFiniteSet(Runs \X CallsOf(s))
        /\ Cardinality(Runs \X CallsOf(s)) = Cardinality(Runs) * Cardinality(CallsOf(s))
    BY <1>1, <1>2, FS_Product
  <1>4. Cardinality(Runs \X CallsOf(s)) <= 2 * Cardinality(Runs)
    BY <1>1, <1>2, <1>3
  <1>5. Ahead(s) \in SUBSET (Runs \X CallsOf(s))
    BY DEF Ahead
  <1> QED
    BY <1>3, <1>4, <1>5, FS_Subset

\* A run that goes on leaves what is behind it: the call it comes to is counted
\* no longer, and counts as an id given out.
LEMMA RunAdvances ==
  ASSUME CallsAreFew, at \in [Runs -> Stages], nextId \in [Sidecars -> Nat \ {0}],
         NEW r \in Runs, NEW to \in Stages, Place[at[r]] < Place[to],
         at' = [at EXCEPT ![r] = to],
         nextId' = IF to \in Calls THEN [nextId EXCEPT ![Callee[to]] = @ + 1] ELSE nextId
  PROVE  CallsAreFew'
  <1>1. at[r] \in Stages /\ at'[r] = to /\ \A q \in Runs \ {r} : at'[q] = at[q]
    OBVIOUS
  <1> SUFFICES ASSUME NEW s \in Sidecars
               PROVE  nextId'[s] - 1 + Cardinality(Ahead(s)') <= 2 * Cardinality(Runs)
    BY DEF CallsAreFew
  <1>2. Ahead(s)' \in SUBSET Ahead(s)
    <2> SUFFICES ASSUME NEW x \in Runs \X CallsOf(s), Place[at'[x[1]]] < Place[x[2]]
                 PROVE  Place[at[x[1]]] < Place[x[2]]
      BY DEF Ahead
    <2>1. Place[x[2]] \in Nat /\ Place[at[r]] \in Nat /\ Place[to] \in Nat
      BY <1>1, Places DEF CallsOf, Stages
    <2> QED
      BY <1>1, <2>1
  <1>3. /\ IsFiniteSet(Ahead(s)) /\ Cardinality(Ahead(s)) \in Nat
        /\ Cardinality(Runs) \in Nat
    BY AheadFinite, FS_CardinalityType, ShellAssumption
  <1>4. CASE to \in Calls /\ Callee[to] = s
    <2> DEFINE x == <<r, to>>
    <2>1. x \in Ahead(s)
      BY <1>4 DEF Ahead, CallsOf
    <2>2. x \notin Ahead(s)'
      <3>1. ~ (Place[to] < Place[to])
        BY Places
      <3> QED
        BY <1>1, <3>1 DEF Ahead
    <2>3. Ahead(s)' \in SUBSET (Ahead(s) \ {x})
      BY <1>2, <2>2
    <2>4. IsFiniteSet(Ahead(s) \ {x}) /\ Cardinality(Ahead(s) \ {x}) = Cardinality(Ahead(s)) - 1
      BY <1>3, <2>1, FS_RemoveElement
    <2>5. IsFiniteSet(Ahead(s)') /\ Cardinality(Ahead(s)') <= Cardinality(Ahead(s)) - 1
      BY <2>3, <2>4, FS_Subset
    <2>6. Cardinality(Ahead(s)') \in Nat
      BY <2>5, FS_CardinalityType
    <2>7. nextId'[s] = nextId[s] + 1
      BY <1>4
    <2> QED
      BY <1>3, <2>5, <2>6, <2>7 DEF CallsAreFew
  <1>5. CASE ~ (to \in Calls /\ Callee[to] = s)
    <2>1. IsFiniteSet(Ahead(s)') /\ Cardinality(Ahead(s)') <= Cardinality(Ahead(s))
      BY <1>2, <1>3, FS_Subset
    <2>2. Cardinality(Ahead(s)') \in Nat
      BY <2>1, FS_CardinalityType
    <2>3. nextId'[s] = nextId[s]
      BY <1>5, Names
    <2> QED
      BY <1>3, <2>1, <2>2, <2>3 DEF CallsAreFew
  <1> QED
    BY <1>4, <1>5

\* A run goes on to a later stage.
LEMMA StagesAdvance ==
  ASSUME NEW r \in Runs, NEW stage \in GateIds \union Calls \union {"sent"}
  PROVE  /\ Following(r, stage) \in Stages
         /\ Place[stage] < Place[Following(r, stage)]
  <1>1. stage \in {"sent", "topic_confirm", "query", "generate", "experiment_design",
                   "verify", "write", "pre_signoff"}
    BY Names DEF GateIds
  <1>2. Following(r, stage) \in Stages
    BY StageAfter DEF Stages
  <1> QED
    BY <1>1, <1>2 DEF Following, Place

\* The ids of a run that goes on from a stage where it waits.
LEMMA GoesOnAdvances ==
  ASSUME CallsAreFew, WaitInv, NEW r \in Runs, at[r] \in GateIds \union Calls \union {"sent"},
         NEW W, NEW R, NEW P, GoesOn(r, W, R, P)
  PROVE  CallsAreFew'
  <1>1. at \in [Runs -> Stages] /\ nextId \in [Sidecars -> Nat \ {0}]
    BY DEF WaitInv, Shape
  <1> DEFINE to == Following(r, at[r])
  <1>2. to \in Stages /\ Place[at[r]] < Place[to]
    BY StagesAdvance
  <1>3. /\ at' = [at EXCEPT ![r] = to]
        /\ nextId' = IF to \in Calls THEN [nextId EXCEPT ![Callee[to]] = @ + 1] ELSE nextId
    BY DEF GoesOn, Registered
  <1> HIDE DEF to
  <1> QED
    BY <1>1, <1>2, <1>3, RunAdvances

\* And of one that stops.
LEMMA StopAdvances ==
  ASSUME CallsAreFew, WaitInv, NEW r \in Runs, at[r] \in GateIds \union Calls, NEW how,
         Stops(r, how), UNCHANGED nextId
  PROVE  CallsAreFew'
  <1>1. at \in [Runs -> Stages] /\ nextId \in [Sidecars -> Nat \ {0}]
    BY DEF WaitInv, Shape
  <1>2. "ended" \in Stages /\ "ended" \notin Calls /\ at' = [at EXCEPT ![r] = "ended"]
    BY Names DEF Stops, Stages
  <1>3. Place[at[r]] < Place["ended"]
    BY Names DEF GateIds, Place
  <1> QED
    BY <1>1, <1>2, <1>3, RunAdvances

LEMMA CountStep == CallsAreFew /\ WaitInv /\ [Next]_vars => CallsAreFew'
  <1> SUFFICES ASSUME CallsAreFew, WaitInv, [Next]_vars PROVE CallsAreFew'
    OBVIOUS
  <1>1. CASE UNCHANGED <<at, nextId>>
    BY <1>1 DEF CallsAreFew, Ahead
  <1>2. ASSUME NEW r \in Runs, NEW level \in Levels, Start(r, level) PROVE CallsAreFew'
    <2>1. /\ at \in [Runs -> Stages] /\ nextId \in [Sidecars -> Nat \ {0}]
          /\ at' = [at EXCEPT ![r] = "sent"] /\ at[r] = "none" /\ nextId' = nextId
      BY <1>2 DEF Start, WaitInv, Shape
    <2>2. "sent" \in Stages \ Calls /\ Place["none"] < Place["sent"]
      BY Names DEF Stages, Place
    <2> QED
      BY <2>1, <2>2, RunAdvances
  <1>3. CASE HandleStart
    <2> DEFINE r == Head(toServer).run
    <2>1. /\ toServer # <<>> /\ toServer \in Seq(Lines) /\ Head(toServer).gate = "start"
          /\ GoesOn(r, pending, gates, inbox)
      BY <1>3 DEF HandleStart, WaitInv, Shape
    <2>2. Head(toServer) \in Lines /\ 1 \in DOMAIN toServer /\ toServer[1] = Head(toServer)
      BY <2>1, Shorter
    <2>3. r \in Runs /\ at[r] = "sent"
      BY <2>1, <2>2 DEF Lines, WaitInv, StartsOnce
    <2> QED
      BY <2>1, <2>3, GoesOnAdvances
  <1>4. CASE HandleResolve
    <2> DEFINE m == Head(toServer)  r == gates[m.gate]
               registry == [gates EXCEPT ![m.gate] = NoRun]
    <2>1. /\ toServer # <<>> /\ toServer \in Seq(Lines) /\ m.gate # "start"
      BY <1>4 DEF HandleResolve, WaitInv, Shape
    <2>2. m \in Lines
      BY <2>1, Shorter
    <2>3. m.gate \in GateIds
      BY <2>1, <2>2 DEF Lines
    <2>4. CASE r = NoRun
      BY <1>1, <1>4, <2>4 DEF HandleResolve
    <2>5. CASE r # NoRun
      <3>1. r \in Runs /\ at[r] \in GateIds
        BY <2>3, <2>5 DEF WaitInv, Shape, GatesWait
      <3>2. \/ GoesOn(r, pending, registry, inbox)
            \/ Stops(r, "aborted") /\ UNCHANGED nextId
        BY <1>4, <2>5 DEF HandleResolve
      <3> HIDE DEF r, registry
      <3> QED
        BY <3>1, <3>2, GoesOnAdvances, StopAdvances
    <2> QED
      BY <2>4, <2>5
  <1>5. ASSUME NEW s \in Sidecars, NEW verdict \in BOOLEAN, Answer(s, verdict)
        PROVE  CallsAreFew'
    <2> DEFINE q == Head(inbox[s])  P == [inbox EXCEPT ![s] = Tail(@)]
               r == pending[s][q.id]
    <2>1. CASE q.id \in DOMAIN pending[s]
      <3>1. GoesOn(r, Without(s, q.id), gates, P)
        BY <1>5, <2>1 DEF Answer
      <3>2. r \in Runs /\ at[r] \in Calls
        BY <2>1, Partial DEF WaitInv, Shape, CallsWait
      <3> HIDE DEF r, P, q
      <3> QED
        BY <3>1, <3>2, GoesOnAdvances
    <2>2. CASE q.id \notin DOMAIN pending[s]
      BY <1>1, <1>5, <2>2 DEF Answer
    <2> QED
      BY <2>1, <2>2
  <1>6. ASSUME NEW s \in Sidecars, NEW id \in Ids, Timeout(s, id) PROVE CallsAreFew'
    <2>1. /\ pending[s][id] \in Runs /\ at[pending[s][id]] \in Calls
          /\ Stops(pending[s][id], "failed") /\ UNCHANGED nextId
      BY <1>6, Partial DEF Timeout, WaitInv, Shape, CallsWait
    <2> QED
      BY <2>1, StopAdvances
  <1>7. CASE Spawn \/ SpawnPanics \/ ServerReady \/ ServerFails \/ WatchdogWakes \/ WatchdogActs \/ BridgeReads
             \/ (\E decision \in Decisions : Click(decision)) \/ Reload \/ Crash
             \/ (\E s \in Sidecars : AnswerNobody(s) \/ Dies(s)) \/ UNCHANGED vars
    BY <1>1, <1>7
    DEF Spawn, SpawnPanics, ServerReady, ServerFails, WatchdogWakes, WatchdogActs, BridgeReads, Click, Reload,
        Crash, AnswerNobody, Dies, vars, runVars
  <1> QED
    BY <1>2, <1>3, <1>4, <1>5, <1>6, <1>7 DEF Next

LEMMA CountInit == Init => CallsAreFew
  <1> SUFFICES ASSUME Init, NEW s \in Sidecars
               PROVE  nextId[s] - 1 + Cardinality(Ahead(s)) <= 2 * Cardinality(Runs)
    BY DEF CallsAreFew
  <1>1. nextId[s] = 1
    BY DEF Init
  <1>2. /\ Cardinality(Ahead(s)) \in Nat /\ Cardinality(Runs \X CallsOf(s)) \in Nat
        /\ Cardinality(Runs) \in Nat
    BY AheadFinite, FS_CardinalityType, ShellAssumption
  <1> QED
    BY <1>1, <1>2, AheadFinite

\* An id that waits, or is on its way to a sidecar, is one of Ids: the bound of
\* the model leaves out no timeout and no crash, for no run makes more than two
\* calls to a sidecar (Orchestrator.run of orchestrator.ts).
IdsSuffice ==
    \A s \in Sidecars :
        /\ DOMAIN pending[s] \subseteq Ids
        /\ \A k \in DOMAIN inbox[s] : inbox[s][k].id \in Ids

\* For any number of runs, whatever times out, raises or dies (pending and nextId
\* of rpc.ts, at the calls of orchestrator.ts): an id given out is one of Ids.
THEOREM BoundedIds == Spec => []IdsSuffice
  <1>1. WaitInv /\ CallsAreFew => IdsSuffice
    <2> SUFFICES ASSUME WaitInv, CallsAreFew, NEW s \in Sidecars
                 PROVE  /\ DOMAIN pending[s] \subseteq Ids
                        /\ \A k \in DOMAIN inbox[s] : inbox[s][k].id \in Ids
      BY DEF IdsSuffice
    <2>1. Cardinality(Ahead(s)) \in Nat /\ Cardinality(Runs) \in Nat
      BY AheadFinite, FS_CardinalityType, ShellAssumption
    <2>2. nextId[s] \in Nat /\ nextId[s] - 1 <= 2 * Cardinality(Runs)
      BY <2>1 DEF CallsAreFew, WaitInv, Shape
    <2>3. \A i \in DOMAIN pending[s] : i \in Nat \ {0} /\ i < nextId[s]
      BY Partial DEF WaitInv, Shape, CallsWait
    <2>4. \A k \in DOMAIN inbox[s] : inbox[s][k].id \in Nat \ {0} /\ inbox[s][k].id < nextId[s]
      <3>1. \A k \in DOMAIN inbox[s] : inbox[s][k] \in Asked
        BY ElementOfSeq, LenProperties DEF WaitInv, Shape
      <3> QED
        BY <3>1 DEF Asked, WaitInv, RequestsMatch
    <2> QED
      BY <2>1, <2>2, <2>3, <2>4 DEF Ids
  <1> QED
    BY <1>1, CountInit, CountStep, Invariance, PTL DEF Spec

\* A sequence is one of what its elements are.
LEMMA Elements ==
  ASSUME NEW S, NEW T, NEW q \in Seq(S), \A k \in DOMAIN q : q[k] \in T
  PROVE  q \in Seq(T)
  <1>1. Len(q) \in Nat /\ DOMAIN q = 1 .. Len(q) /\ q \in [1 .. Len(q) -> S]
    BY LenProperties
  <1>2. q \in [1 .. Len(q) -> T]
    BY <1>1
  <1> QED
    BY <1>1, <1>2, SeqDef

\* The rest of the types: the start of the application, the levels, what died.
RestTyped ==
    /\ server \in {"none", "missing", "starting", "up", "down"}
    /\ ready \in BOOLEAN
    /\ watchdog \in {"none", "asleep", "late", "done"}
    /\ window \in {"none", "splash", "main"}
    /\ autonomy \in [Runs -> Levels \union {0}]
    /\ green \in [Runs -> BOOLEAN]
    /\ dead \subseteq Sidecars
    /\ spent \in [{"reloads", "errors"} -> Nat]

LEMMA RestStep == RestTyped /\ WaitInv /\ [Next]_vars => RestTyped'
  <1> SUFFICES ASSUME RestTyped, WaitInv, [Next]_vars PROVE RestTyped'
    OBVIOUS
  <1>1. CASE UNCHANGED <<server, ready, watchdog, window, autonomy, green, dead, spent>>
    BY <1>1 DEF RestTyped
  <1>2. ASSUME NEW r \in Runs, NEW level \in Levels, Start(r, level) PROVE RestTyped'
    BY <1>2 DEF Start, RestTyped
  <1>3. CASE Spawn \/ SpawnPanics \/ ServerReady \/ ServerFails \/ WatchdogWakes \/ WatchdogActs \/ Crash
    BY <1>3 DEF Spawn, SpawnPanics, ServerReady, ServerFails, WatchdogWakes, WatchdogActs, Crash, uiVars, runVars,
                RestTyped
  <1>4. CASE BridgeReads
    BY <1>4 DEF BridgeReads, runVars, RestTyped
  <1>5. CASE Reload
    BY <1>5 DEF Reload, runVars, RestTyped
  <1>6. ASSUME NEW s \in Sidecars, AnswerNobody(s) \/ Dies(s) PROVE RestTyped'
    BY <1>6 DEF AnswerNobody, Dies, uiVars, runVars, RestTyped
  <1>7. ASSUME NEW s \in Sidecars, NEW verdict \in BOOLEAN, Answer(s, verdict)
        PROVE  RestTyped'
    BY <1>7 DEF Answer, uiVars, RestTyped
  <1>8. CASE (\E decision \in Decisions : Click(decision)) \/ HandleStart \/ HandleResolve
             \/ (\E s \in Sidecars, id \in Ids : Timeout(s, id)) \/ UNCHANGED vars
    BY <1>1, <1>8 DEF Click, HandleStart, HandleResolve, Timeout, uiVars, runVars, vars
  <1> QED
    BY <1>2, <1>3, <1>4, <1>5, <1>6, <1>7, <1>8 DEF Next

\* Type correctness of the application, for any number of runs, with the ids in
\* their bounds: page, bridge, server and the calls to the sidecars.
THEOREM ShellTypeCorrect == Spec => []TypeOK
  <1>1. Init => RestTyped
    <2> SUFFICES ASSUME Init PROVE RestTyped
      OBVIOUS
    <2>1. spent \in [{"reloads", "errors"} -> Nat]
      BY DEF Init
    <2>2. autonomy \in [Runs -> Levels \union {0}] /\ green \in [Runs -> BOOLEAN]
      BY DEF Init
    <2>3. dead = {} /\ server = "none" /\ ready = FALSE /\ watchdog = "none"
          /\ window = "none"
      BY DEF Init
    <2> QED
      BY <2>1, <2>2, <2>3 DEF RestTyped
  <1>2. WaitInv /\ IdsSuffice /\ RestTyped => TypeOK
    <2> SUFFICES ASSUME WaitInv, IdsSuffice, RestTyped PROVE TypeOK
      OBVIOUS
    <2>1. toServer \in Seq([run : Runs, gate : GateIds \union {"start"},
                            decision : Decisions \union {"none"}])
      BY DEF WaitInv, Shape, Lines
    <2>2. toPage \in Seq([gate : GateIds \union {"ready"}, run : Runs \union {NoRun}])
      <3>1. Notes \subseteq [gate : GateIds \union {"ready"}, run : Runs \union {NoRun}]
        BY DEF Notes
      <3>2. toPage \in Seq(Notes)
        BY DEF WaitInv, Shape
      <3>3. \A k \in DOMAIN toPage : toPage[k] \in Notes
        BY <3>2, ElementOfSeq, LenProperties
      <3> QED
        BY <3>1, <3>2, <3>3, Elements
    <2>3. pending \in [Sidecars -> PartialFunctions(Ids, Runs)]
      <3>1. pending \in [Sidecars -> PartialFunctions(Nat \ {0}, Runs)]
        BY DEF WaitInv, Shape
      <3>2. \A s \in Sidecars : pending[s] \in PartialFunctions(Ids, Runs)
        BY <3>1, Partial DEF IdsSuffice
      <3> QED
        BY <3>1, <3>2
    <2>4. inbox \in [Sidecars -> Seq(Requests)]
      <3>1. inbox \in [Sidecars -> Seq(Asked)]
        BY DEF WaitInv, Shape
      <3>2. ASSUME NEW s \in Sidecars PROVE inbox[s] \in Seq(Requests)
        <4>1. inbox[s] \in Seq(Asked)
          BY <3>1
        <4>2. \A k \in DOMAIN inbox[s] : inbox[s][k] \in Requests
          <5>1. \A k \in DOMAIN inbox[s] : inbox[s][k] \in Asked
            BY <4>1, ElementOfSeq, LenProperties
          <5> QED
            BY <5>1 DEF IdsSuffice, Asked, Requests
        <4> QED
          BY <4>1, <4>2, Elements
      <3> QED
        BY <3>1, <3>2
    <2>5. nextId \in [Sidecars -> Nat \ {0}] /\ at \in [Runs -> Stages]
      BY DEF WaitInv, Shape
    <2> QED
      BY <2>1, <2>2, <2>3, <2>4, <2>5 DEF WaitInv, Shape, Stages, RestTyped, TypeOK
  <1> QED
    BY <1>1, <1>2, RestStep, BoundedIds, Invariance, PTL DEF Spec
=============================================================================
