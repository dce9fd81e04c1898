---------------------------- MODULE GatewayProofs ----------------------------
(***************************************************************************)
(* Proofs about Gateway, for any number of runs, gates and streams.        *)
(*                                                                         *)
(* A run is signed by its own decisions because ask makes a fresh queue    *)
(* for each gate and resolve_gate compares the gate's name: what is in the *)
(* queue was accepted for the gate that waits, and nothing was accepted    *)
(* for a gate that has not been asked yet (DecisionsOf).                   *)
(*                                                                         *)
(* A client that goes away costs an event at most when its stream next     *)
(* writes, and then the stream is over; so the events lost and the broken  *)
(* streams that may still lose one are together at most the clients gone   *)
(* (LossInv).                                                              *)
(***************************************************************************)
EXTENDS Gateway, SequenceTheorems, FiniteSetTheorems, TLAPS

\* What the queue of run r's gate and the decisions accepted for it have to do
\* with each other.
DecisionsOf(r) ==
    /\ thread[r] \in {"asking", "decided"} <=> waiter[r].gate # "none"
    /\ waiter[r].gate # "none" =>
          at[r] \in DOMAIN Gates /\ waiter[r].gate = Gates[at[r]]
    /\ waiter[r].gate = "none" => waiter[r].queue = <<>>
    /\ waiter[r].queue # <<>> =>
          FirstFor(Gates[at[r]], accepted[r], Head(waiter[r].queue))
    /\ thread[r] = "decided" => waiter[r].queue # <<>>
    /\ \A i \in DOMAIN Gates : i < at[r] => FirstFor(Gates[i], accepted[r], "approve")
    /\ \A i \in DOMAIN Gates :
          thread[r] # "done" /\ (i > at[r] \/ (i = at[r] /\ waiter[r].queue = <<>>)) =>
              \A j \in DOMAIN accepted[r] : accepted[r][j][1] # Gates[i]
    /\ outcome[r] = "signed" => thread[r] = "done" /\ at[r] = Len(Gates) + 1

\* The events that no client will see, and the streams whose next event will
\* be one of them.
Lost == {re \in Runs \X Events : re[2] \in Missed(re[1])}
Broken == {s \in Streams : stream[s] = "broken"}

LossInv == Cardinality(Lost) + Cardinality(Broken) <= gone

IInv == TypeOK /\ (\A r \in Runs : DecisionsOf(r)) /\ LossInv

-----------------------------------------------------------------------------
(* Sequences and sets *)

LEMMA LongerByOne ==
  ASSUME NEW S, NEW q \in Seq(S), NEW e \in S
  PROVE  /\ Append(q, e) \in Seq(S) /\ Append(q, e) # <<>>
         /\ Head(Append(q, e)) = IF q = <<>> THEN e ELSE Head(q)
         /\ DOMAIN Append(q, e) = DOMAIN q \union {Len(q) + 1}
         /\ \A i \in DOMAIN q : i < Len(q) + 1 /\ Append(q, e)[i] = q[i]
         /\ Append(q, e)[Len(q) + 1] = e
  <1>1. DOMAIN q = 1 .. Len(q) /\ Len(q) \in Nat
    BY LenProperties
  <1>2. DOMAIN Append(q, e) = 1 .. Len(q) + 1
    BY <1>1, AppendProperties, LenProperties
  <1>3. 1 .. Len(q) + 1 = 1 .. Len(q) \union {Len(q) + 1}
    BY <1>1
  <1>4. Head(Append(q, e)) = Append(q, e)[1] /\ Head(q) = q[1]
    OBVIOUS
  <1>5. q = <<>> <=> Len(q) = 0
    BY EmptySeq
  <1> QED
    BY <1>1, <1>2, <1>3, <1>4, <1>5, AppendProperties

\* The first decision for a gate stays the first, and one for a gate that had
\* none is the first.
LEMMA FirstStays ==
  ASSUME NEW q \in Seq(GateIds \X Decisions), NEW e \in GateIds \X Decisions,
         NEW gate, NEW decision, FirstFor(gate, q, decision)
  PROVE  FirstFor(gate, Append(q, e), decision)
  <1>1. PICK k \in DOMAIN q : /\ q[k] = <<gate, decision>>
                              /\ \A j \in DOMAIN q : q[j][1] = gate => j >= k
    BY DEF FirstFor
  <1>2. /\ DOMAIN Append(q, e) = DOMAIN q \union {Len(q) + 1}
        /\ \A i \in DOMAIN q : i < Len(q) + 1 /\ Append(q, e)[i] = q[i]
    BY LongerByOne
  <1>3. DOMAIN q \subseteq Nat /\ Len(q) \in Nat
    BY LenProperties
  <1> QED
    BY <1>1, <1>2, <1>3 DEF FirstFor

LEMMA FirstComes ==
  ASSUME NEW q \in Seq(GateIds \X Decisions), NEW gate \in GateIds, NEW decision \in Decisions,
         \A j \in DOMAIN q : q[j][1] # gate
  PROVE  FirstFor(gate, Append(q, <<gate, decision>>), decision)
  <1> DEFINE e == <<gate, decision>>
  <1>1. /\ DOMAIN Append(q, e) = DOMAIN q \union {Len(q) + 1}
        /\ \A i \in DOMAIN q : Append(q, e)[i] = q[i]
        /\ Append(q, e)[Len(q) + 1] = e
    BY LongerByOne
  <1>2. Len(q) + 1 >= Len(q) + 1
    BY LenProperties
  <1> DEFINE longer == Append(q, e)
  <1>3. /\ Len(q) + 1 \in DOMAIN longer /\ longer[Len(q) + 1] = <<gate, decision>>
        /\ \A j \in DOMAIN longer : longer[j][1] = gate => j = Len(q) + 1
    BY <1>1
  <1> HIDE DEF longer
  <1>4. FirstFor(gate, longer, decision)
    BY <1>2, <1>3 DEF FirstFor
  <1> QED BY <1>4 DEF longer

\* Nothing leaves a queue but its head.
LEMMA RangePuts ==
  ASSUME NEW q \in Seq(Events), NEW es \in Seq(Events)
  PROVE  q \o es \in Seq(Events) /\ Range(q) \union Range(es) \subseteq Range(q \o es)
  <1>1. /\ q \o es \in Seq(Events) /\ Len(q \o es) = Len(q) + Len(es)
        /\ \A i \in 1 .. Len(q) + Len(es) :
              (q \o es)[i] = IF i <= Len(q) THEN q[i] ELSE es[i - Len(q)]
    BY ConcatProperties
  <1>2. /\ Len(q) \in Nat /\ Len(es) \in Nat
        /\ DOMAIN q = 1 .. Len(q) /\ DOMAIN es = 1 .. Len(es)
        /\ DOMAIN (q \o es) = 1 .. Len(q) + Len(es)
    BY <1>1, LenProperties
  <1>3. ASSUME NEW i \in DOMAIN q PROVE q[i] \in Range(q \o es)
    <2>1. i \in DOMAIN (q \o es) /\ (q \o es)[i] = q[i]
      BY <1>1, <1>2
    <2> QED BY <2>1 DEF Range
  <1>4. ASSUME NEW i \in DOMAIN es PROVE es[i] \in Range(q \o es)
    <2>1. Len(q) + i \in DOMAIN (q \o es) /\ (q \o es)[Len(q) + i] = es[i]
      BY <1>1, <1>2
    <2> QED BY <2>1 DEF Range
  <1> QED BY <1>1, <1>3, <1>4 DEF Range

LEMMA RangeTakes ==
  ASSUME NEW q \in Seq(Events), q # <<>>
  PROVE  /\ Tail(q) \in Seq(Events) /\ Head(q) \in Events
         /\ Range(q) \subseteq Range(Tail(q)) \union {Head(q)}
  <1>1. /\ Tail(q) \in Seq(Events) /\ Head(q) \in Events /\ Len(Tail(q)) = Len(q) - 1
        /\ \A i \in 1 .. Len(Tail(q)) : Tail(q)[i] = q[i + 1]
    BY HeadTailProperties
  <1>2. /\ Len(q) \in Nat /\ DOMAIN q = 1 .. Len(q)
        /\ DOMAIN Tail(q) = 1 .. Len(q) - 1 /\ Head(q) = q[1]
    BY <1>1, LenProperties
  <1>3. ASSUME NEW i \in DOMAIN q, i # 1 PROVE q[i] \in Range(Tail(q))
    <2>1. i - 1 \in DOMAIN Tail(q) /\ Tail(q)[i - 1] = q[i]
      BY <1>1, <1>2, <1>3
    <2> QED BY <2>1 DEF Range
  <1> QED BY <1>1, <1>2, <1>3 DEF Range

LEMMA FiniteEvents == IsFiniteSet(Runs \X Events)
  <1>1. IsFiniteSet(GateIds)
    <2>1. DOMAIN Gates = 1 .. Len(Gates) /\ Len(Gates) \in Nat /\ Gates \in [1 .. Len(Gates) -> GateIds]
      BY LenProperties, GatewayAssumption
    <2>2. Gates \in Surjection(1 .. Len(Gates), GateIds)
      BY <2>1 DEF Surjection, GateIds
    <2>3. IsFiniteSet(1 .. Len(Gates))
      BY <2>1, FS_Interval
    <2> QED BY <2>2, <2>3, FS_Surjection
  <1>2. IsFiniteSet({"result", "error", "_end"})
    <2>1. IsFiniteSet({"result"} \union {"error"})
      BY FS_Singleton, FS_Union
    <2>2. IsFiniteSet(({"result"} \union {"error"}) \union {"_end"})
      BY <2>1, FS_Singleton, FS_Union
    <2>3. ({"result"} \union {"error"}) \union {"_end"} = {"result", "error", "_end"}
      OBVIOUS
    <2> QED BY <2>2, <2>3
  <1>3. IsFiniteSet(Events)
    BY <1>1, <1>2, FS_Union DEF Events
  <1> QED BY <1>3, FS_Product, GatewayAssumption

-----------------------------------------------------------------------------
(* Events lost *)

LEMMA BrokenFinite ==
  ASSUME TypeOK
  PROVE  /\ IsFiniteSet(Broken) /\ Cardinality(Broken) \in Nat
         /\ IsFiniteSet(Lost) /\ Cardinality(Lost) \in Nat
         /\ IsFiniteSet(Lost') /\ Cardinality(Lost') \in Nat
  <1>1. Broken \subseteq Streams /\ Lost \subseteq Runs \X Events /\ Lost' \subseteq Runs \X Events
    BY DEF Broken, Lost
  <1> QED
    BY <1>1, FiniteEvents, GatewayAssumption, FS_Subset, FS_CardinalityType

\* A step by which no run misses more loses nothing.
LEMMA NothingLost ==
  ASSUME TypeOK, \A r \in Runs : Missed(r)' \subseteq Missed(r)
  PROVE  Cardinality(Lost') <= Cardinality(Lost)
  <1>1. Lost' \subseteq Lost
    BY DEF Lost
  <1> QED
    BY <1>1, BrokenFinite, FS_Subset

\* A step that takes one event from a queue and shows it to nobody loses one.
LEMMA OneLost ==
  ASSUME TypeOK, NEW q \in Runs, NEW e,
         Missed(q)' \subseteq Missed(q) \union {e},
         \A r \in Runs \ {q} : Missed(r)' \subseteq Missed(r)
  PROVE  Cardinality(Lost') <= Cardinality(Lost) + 1
  <1>1. Lost' \subseteq Lost \union {<<q, e>>}
    BY DEF Lost
  <1>2. /\ IsFiniteSet(Lost \union {<<q, e>>})
        /\ Cardinality(Lost \union {<<q, e>>}) \in {Cardinality(Lost), Cardinality(Lost) + 1}
    BY BrokenFinite, FS_AddElement
  <1>3. Cardinality(Lost') <= Cardinality(Lost \union {<<q, e>>})
    BY <1>1, <1>2, FS_Subset
  <1> QED
    BY <1>2, <1>3, BrokenFinite

\* What a step does to the two together, when it leaves the streams alone.
LEMMA LossKept ==
  ASSUME IInv, \A r \in Runs : Missed(r)' \subseteq Missed(r), UNCHANGED <<stream, gone>>
  PROVE  LossInv'
  <1>1. Broken' = Broken
    BY DEF Broken
  <1>2. gone \in Nat /\ TypeOK /\ LossInv
    BY DEF IInv, TypeOK
  <1>3. Cardinality(Lost') <= Cardinality(Lost)
    BY <1>2, NothingLost
  <1> QED
    BY <1>1, <1>2, <1>3, BrokenFinite DEF LossInv

\* A step of the thread of run q that puts es into its queue, and says nothing
\* else: no client misses more than before.
LEMMA SaysWhatItPuts ==
  ASSUME TypeOK, NEW q \in Runs, NEW es \in Seq(Events), Puts(q, es), UNCHANGED streamVars,
         Said(q)' \subseteq Said(q) \union Range(es),
         \A r \in Runs \ {q} : Said(r)' = Said(r)
  PROVE  /\ \A r \in Runs : Missed(r)' \subseteq Missed(r)
         /\ events' \in [Runs -> Seq(Events)]
  <1>1. events \in [Runs -> Seq(Events)] /\ shown' = shown
    BY DEF TypeOK, streamVars
  <1>2. /\ events'[q] \in Seq(Events) /\ events'[q] = events[q] \o es
        /\ Range(events[q]) \union Range(es) \subseteq Range(events'[q])
    BY <1>1, RangePuts DEF Puts
  <1>3. \A r \in Runs \ {q} : events'[r] = events[r]
    BY <1>1 DEF Puts
  <1>4. events' \in [Runs -> Seq(Events)]
    BY <1>1, <1>2 DEF Puts
  <1>5. ASSUME NEW r \in Runs PROVE Missed(r)' \subseteq Missed(r)
    <2>1. CASE r = q
      BY <1>1, <1>2, <2>1 DEF Missed
    <2>2. CASE r # q
      BY <1>1, <1>3, <2>2 DEF Missed
    <2> QED BY <2>1, <2>2
  <1> QED BY <1>4, <1>5

-----------------------------------------------------------------------------
(* The thread of a run *)

LEMMA SameDecisions ==
  ASSUME NEW r \in Runs, DecisionsOf(r), thread'[r] = thread[r], at'[r] = at[r],
         waiter'[r] = waiter[r], accepted'[r] = accepted[r], outcome'[r] = outcome[r]
  PROVE  DecisionsOf(r)'
  BY DEF DecisionsOf

LEMMA PostRunStep ==
  ASSUME IInv, NEW q \in Runs, PostRun(q) PROVE IInv'
  <1>1. TypeOK'
    BY DEF IInv, PostRun, Goes, TypeOK, streamVars
  <1>2. ASSUME NEW r \in Runs PROVE DecisionsOf(r)' /\ Said(r)' = Said(r)
    <2>1. CASE r = q
      BY <2>1 DEF IInv, TypeOK, PostRun, Goes, DecisionsOf, Said
    <2>2. CASE r # q
      BY <2>2, SameDecisions DEF IInv, TypeOK, PostRun, Goes, Said
    <2> QED BY <2>1, <2>2
  <1>3. LossInv'
    BY <1>2, LossKept DEF PostRun, streamVars, Missed
  <1> QED BY <1>1, <1>2, <1>3 DEF IInv

LEMMA AcquireStep ==
  ASSUME IInv, NEW q \in Runs, Acquire(q) PROVE IInv'
  <1>1. TypeOK'
    BY DEF IInv, Acquire, Goes, TypeOK, streamVars
  <1>2. ASSUME NEW r \in Runs PROVE DecisionsOf(r)' /\ Said(r)' = Said(r)
    <2>1. CASE r = q
      BY <2>1 DEF IInv, TypeOK, Acquire, Goes, DecisionsOf, Said
    <2>2. CASE r # q
      BY <2>2, SameDecisions DEF IInv, TypeOK, Acquire, Goes, Said
    <2> QED BY <2>1, <2>2
  <1>3. LossInv'
    BY <1>2, LossKept DEF Acquire, streamVars, Missed
  <1> QED BY <1>1, <1>2, <1>3 DEF IInv

LEMMA TakeDecisionStep ==
  ASSUME IInv, NEW q \in Runs, TakeDecision(q) PROVE IInv'
  <1>1. TypeOK'
    BY DEF IInv, TakeDecision, Goes, TypeOK, streamVars
  <1>2. ASSUME NEW r \in Runs PROVE DecisionsOf(r)' /\ Said(r)' = Said(r)
    <2>1. CASE r = q
      <3>1. /\ thread[q] = "asking" /\ thread'[q] = "decided" /\ waiter[q].queue # <<>>
            /\ at'[q] = at[q] /\ waiter'[q] = waiter[q] /\ accepted'[q] = accepted[q]
            /\ outcome'[q] = outcome[q]
        BY DEF IInv, TypeOK, TakeDecision, Goes
      <3>2. DecisionsOf(q)
        BY DEF IInv
      <3>3. DecisionsOf(q)'
        BY <3>1, <3>2 DEF DecisionsOf
      <3> QED BY <2>1, <3>1, <3>3 DEF Said
    <2>2. CASE r # q
      BY <2>2, SameDecisions DEF IInv, TypeOK, TakeDecision, Goes, Said
    <2> QED BY <2>1, <2>2
  <1>3. LossInv'
    BY <1>2, LossKept DEF TakeDecision, streamVars, Missed
  <1> QED BY <1>1, <1>2, <1>3 DEF IInv

LEMMA GatesFacts ==
  /\ Len(Gates) \in Nat \ {0} /\ DOMAIN Gates = 1 .. Len(Gates)
  /\ \A i \in DOMAIN Gates : Gates[i] \in GateIds /\ Gates[i] # "none" /\ Gates[i] \in Events
  /\ \A i, j \in DOMAIN Gates : Gates[i] = Gates[j] => i = j
  /\ "none" \notin GateIds
  BY GatewayAssumption, LenProperties DEF GateIds, Events

LEMMA AskGateStep ==
  ASSUME IInv, NEW q \in Runs, AskGate(q) PROVE IInv'
  <1>1. at[q] \in DOMAIN Gates /\ Gates[at[q]] \in GateIds /\ Gates[at[q]] \in Events
    BY GatesFacts DEF IInv, TypeOK, AskGate
  <1> DEFINE gate == Gates[at[q]]
             es == <<gate>>
  <1>2. es \in Seq(Events) /\ gate \in Range(es)
    BY <1>1 DEF Range
  <1>3. Said(q)' \subseteq Said(q) \union {gate}
    BY <1>1 DEF IInv, TypeOK, AskGate, Goes, Said
  <1>4. \A r \in Runs \ {q} : Said(r)' = Said(r)
    BY DEF IInv, TypeOK, AskGate, Goes, Said
  <1>5. Puts(q, es) /\ UNCHANGED streamVars
    BY DEF AskGate
  <1>6. /\ \A r \in Runs : Missed(r)' \subseteq Missed(r)
        /\ events' \in [Runs -> Seq(Events)]
    <2> HIDE DEF gate, es
    <2> QED BY <1>2, <1>3, <1>4, <1>5, SaysWhatItPuts DEF IInv
  <1>7. <<>> \in Seq(Decisions)
    BY EmptySeq
  <1>8. TypeOK'
    BY <1>1, <1>6, <1>7 DEF IInv, AskGate, Goes, TypeOK, streamVars
  <1>9. ASSUME NEW r \in Runs PROVE DecisionsOf(r)'
    <2>1. CASE r = q
      <3>1. /\ thread[q] = "running" /\ thread'[q] = "asking"
            /\ waiter'[q].gate = Gates[at[q]] /\ waiter'[q].queue = <<>>
            /\ at'[q] = at[q] /\ accepted'[q] = accepted[q] /\ outcome'[q] = outcome[q]
        BY DEF IInv, TypeOK, AskGate, Goes
      <3>2. DecisionsOf(q)
        BY DEF IInv
      <3>3. waiter[q].queue = <<>> /\ outcome[q] # "signed" /\ Gates[at[q]] # "none"
        BY <1>1, <3>1, <3>2, GatesFacts DEF DecisionsOf
      <3>4. DecisionsOf(q)'
        BY <1>1, <3>1, <3>2, <3>3 DEF DecisionsOf
      <3> QED BY <2>1, <3>4
    <2>2. CASE r # q
      BY <2>2, SameDecisions DEF IInv, TypeOK, AskGate, Goes
    <2> QED BY <2>1, <2>2
  <1>10. LossInv'
    BY <1>5, <1>6, LossKept DEF streamVars
  <1> QED BY <1>8, <1>9, <1>10 DEF IInv

\* The end of run q, however it ends: nothing more is said of its gates.
LEMMA EndsLoses ==
  ASSUME IInv, NEW q \in Runs, NEW how \in {"signed", "stopped", "failed"},
         Ends(q, how), at' = at, UNCHANGED streamVars
  PROVE  LossInv' /\ events' \in [Runs -> Seq(Events)]
  <1> DEFINE last == IF how = "failed" THEN "error" ELSE "result"
             es == <<last, "_end">>
  <1>1. es \in Seq(Events) /\ {last, "_end"} \subseteq Range(es)
    <2>1. last \in Events /\ "_end" \in Events
      BY DEF Events
    <2>2. es[1] = last /\ es[2] = "_end" /\ DOMAIN es = {1, 2}
      OBVIOUS
    <2>3. {last, "_end"} \subseteq Range(es)
      BY <2>2 DEF Range
    <2> QED BY <2>1, <2>3
  <1>2. Said(q)' \subseteq Said(q) \union {last, "_end"}
    <2>1. thread'[q] = "done" /\ outcome'[q] = how /\ at'[q] = at[q]
      BY DEF Ends, Goes, IInv, TypeOK
    <2> QED BY <2>1 DEF Said
  <1>3. \A r \in Runs \ {q} : Said(r)' = Said(r)
    BY DEF IInv, TypeOK, Ends, Goes, Said
  <1>4. Puts(q, es)
    BY DEF Ends
  <1> HIDE DEF es, last
  <1>5. /\ \A r \in Runs : Missed(r)' \subseteq Missed(r)
        /\ events' \in [Runs -> Seq(Events)]
    BY <1>1, <1>2, <1>3, <1>4, SaysWhatItPuts DEF IInv
  <1> QED
    BY <1>5, LossKept DEF streamVars

LEMMA ResumeStep ==
  ASSUME IInv, NEW q \in Runs, Resume(q) PROVE IInv'
  <1> DEFINE decision == Head(waiter[q].queue)
  <1>1. /\ thread[q] = "decided" /\ waiter[q].queue # <<>> /\ at[q] \in DOMAIN Gates
        /\ waiter[q].gate = Gates[at[q]]
        /\ FirstFor(Gates[at[q]], accepted[q], decision)
        /\ waiter' = [waiter EXCEPT ![q] = NoWaiter] /\ UNCHANGED <<accepted, streamVars>>
    BY DEF IInv, DecisionsOf, Resume
  <1>2. /\ waiter' \in [Runs -> [gate : GateIds \union {"none"}, queue : Seq(Decisions)]]
        /\ waiter'[q] = NoWaiter
    BY <1>1, EmptySeq DEF IInv, TypeOK, NoWaiter
  <1>3. CASE decision = "approve"
    <2>1. /\ thread' = [thread EXCEPT ![q] = "running"] /\ at' = [at EXCEPT ![q] = @ + 1]
          /\ UNCHANGED <<lock, outcome, events>>
      BY <1>3 DEF Resume, Goes
    <2>2. at[q] + 1 \in 1 .. Len(Gates) + 1
      BY <1>1, GatesFacts
    <2>3. TypeOK'
      BY <1>1, <1>2, <2>1, <2>2 DEF IInv, TypeOK, streamVars
    <2>4. \A r \in Runs \ {q} : DecisionsOf(r)' /\ Said(r)' = Said(r)
      BY <1>1, <2>1, SameDecisions DEF IInv, TypeOK, Said
    <2>5. Said(q)' = Said(q)
      BY <1>1, <2>1, GatesFacts DEF IInv, TypeOK, Said
    <2>6. DecisionsOf(q)'
      <3>1. at'[q] = at[q] + 1 /\ thread'[q] = "running"
            /\ accepted'[q] = accepted[q] /\ outcome'[q] = outcome[q]
        BY <1>1, <2>1 DEF IInv, TypeOK
      <3>2. \A i \in DOMAIN Gates : i < at[q] + 1 => FirstFor(Gates[i], accepted[q], "approve")
        BY <1>1, <1>3, GatesFacts DEF IInv, DecisionsOf
      <3>3. \A i \in DOMAIN Gates : i >= at[q] + 1 =>
               \A j \in DOMAIN accepted[q] : accepted[q][j][1] # Gates[i]
        BY <1>1, GatesFacts DEF IInv, DecisionsOf
      <3>4. outcome[q] # "signed"
        BY <1>1 DEF IInv, DecisionsOf
      <3>5. waiter'[q].gate = "none" /\ waiter'[q].queue = <<>>
        BY <1>2 DEF NoWaiter
      <3>6. \A i \in DOMAIN Gates : i > at[q] + 1 \/ i = at[q] + 1 => i >= at[q] + 1
        BY <2>2, GatesFacts
      <3> HIDE DEF decision
      <3> QED BY <3>1, <3>2, <3>3, <3>4, <3>5, <3>6 DEF DecisionsOf
    <2>7. LossInv'
      BY <1>1, <2>1, <2>4, <2>5, LossKept DEF streamVars, Missed
    <2> QED BY <2>3, <2>4, <2>6, <2>7 DEF IInv
  <1>4. CASE decision # "approve"
    <2>1. Ends(q, "stopped") /\ UNCHANGED at
      BY <1>4 DEF Resume
    <2>2. /\ thread' = [thread EXCEPT ![q] = "done"] /\ lock' = NoRun
          /\ outcome' = [outcome EXCEPT ![q] = "stopped"]
      BY <2>1 DEF Ends, Goes
    <2>3. LossInv' /\ events' \in [Runs -> Seq(Events)]
      BY <1>1, <2>1, EndsLoses
    <2>4. TypeOK'
      BY <1>1, <1>2, <2>1, <2>2, <2>3 DEF IInv, TypeOK, streamVars
    <2>5. \A r \in Runs \ {q} : DecisionsOf(r)'
      BY <1>1, <2>1, <2>2, SameDecisions DEF IInv, TypeOK
    <2>6. DecisionsOf(q)'
      BY <1>1, <1>2, <2>1, <2>2 DEF IInv, TypeOK, DecisionsOf, NoWaiter
    <2> QED BY <2>3, <2>4, <2>5, <2>6 DEF IInv
  <1> QED BY <1>3, <1>4

LEMMA FinishStep ==
  ASSUME IInv, NEW q \in Runs, NEW how \in {"signed", "stopped", "failed"}, Finish(q, how)
  PROVE  IInv'
  <1>1. /\ thread[q] = "running" /\ (how = "signed" => at[q] > Len(Gates))
        /\ Ends(q, how) /\ UNCHANGED <<at, waiter, accepted, streamVars>>
    BY DEF Finish
  <1>2. /\ thread' = [thread EXCEPT ![q] = "done"] /\ lock' = NoRun
        /\ outcome' = [outcome EXCEPT ![q] = how]
    BY <1>1 DEF Ends, Goes
  <1>3. LossInv' /\ events' \in [Runs -> Seq(Events)]
    BY <1>1, EndsLoses
  <1>4. TypeOK'
    BY <1>1, <1>2, <1>3 DEF IInv, TypeOK, streamVars
  <1>5. \A r \in Runs \ {q} : DecisionsOf(r)'
    BY <1>1, <1>2, SameDecisions DEF IInv, TypeOK
  <1>6. DecisionsOf(q)'
    <2>1. how = "signed" => at[q] = Len(Gates) + 1
      BY <1>1, GatesFacts DEF IInv, TypeOK
    <2> QED BY <1>1, <1>2, <2>1 DEF IInv, TypeOK, DecisionsOf
  <1> QED BY <1>3, <1>4, <1>5, <1>6 DEF IInv

-----------------------------------------------------------------------------
(* The clients *)

LEMMA PostGateStep ==
  ASSUME IInv, NEW q \in Runs, NEW gate \in GateIds, NEW decision \in Decisions,
         PostGate(q, gate, decision)
  PROVE  IInv'
  <1> DEFINE e == <<gate, decision>>
  <1>1. /\ waiter[q].gate = gate
        /\ waiter' = [waiter EXCEPT ![q].queue = Append(@, decision)]
        /\ accepted' = [accepted EXCEPT ![q] = Append(@, e)]
        /\ UNCHANGED <<thread, at, lock, outcome, events, stream, shown, gone>>
    BY DEF PostGate, threadVars, streamVars
  <1>2. /\ waiter[q].queue \in Seq(Decisions) /\ accepted[q] \in Seq(GateIds \X Decisions)
        /\ waiter[q] \in [gate : GateIds \union {"none"}, queue : Seq(Decisions)]
    BY DEF IInv, TypeOK
  <1>3. /\ waiter'[q].gate = gate /\ waiter'[q].queue = Append(waiter[q].queue, decision)
        /\ accepted'[q] = Append(accepted[q], e)
        /\ \A r \in Runs \ {q} : waiter'[r] = waiter[r] /\ accepted'[r] = accepted[r]
    BY <1>1, <1>2 DEF IInv, TypeOK
  <1>4. /\ Append(waiter[q].queue, decision) \in Seq(Decisions)
        /\ Append(waiter[q].queue, decision) # <<>>
        /\ Head(Append(waiter[q].queue, decision)) =
              IF waiter[q].queue = <<>> THEN decision ELSE Head(waiter[q].queue)
    BY <1>2, LongerByOne
  <1>5. /\ Append(accepted[q], e) \in Seq(GateIds \X Decisions)
        /\ DOMAIN Append(accepted[q], e) = DOMAIN accepted[q] \union {Len(accepted[q]) + 1}
        /\ \A i \in DOMAIN accepted[q] : Append(accepted[q], e)[i] = accepted[q][i]
        /\ Append(accepted[q], e)[Len(accepted[q]) + 1] = e
    BY <1>2, LongerByOne
  <1>6. TypeOK'
    <2>1. waiter' \in [Runs -> [gate : GateIds \union {"none"}, queue : Seq(Decisions)]]
      BY <1>1, <1>2, <1>4 DEF IInv, TypeOK
    <2>2. accepted' \in [Runs -> Seq(GateIds \X Decisions)]
      BY <1>1, <1>5 DEF IInv, TypeOK
    <2> QED BY <1>1, <2>1, <2>2 DEF IInv, TypeOK
  <1>7. /\ DecisionsOf(q) /\ gate # "none" /\ at[q] \in DOMAIN Gates /\ gate = Gates[at[q]]
        /\ thread[q] \in {"asking", "decided"}
    BY <1>1, GatesFacts DEF IInv, DecisionsOf
  <1>8. FirstFor(gate, Append(accepted[q], e), Head(Append(waiter[q].queue, decision)))
    <2>1. CASE waiter[q].queue = <<>>
      <3>1. \A j \in DOMAIN accepted[q] : accepted[q][j][1] # gate
        BY <1>7, <2>1 DEF DecisionsOf
      <3> QED BY <1>2, <1>4, <2>1, <3>1, FirstComes
    <2>2. CASE waiter[q].queue # <<>>
      <3>1. FirstFor(gate, accepted[q], Head(waiter[q].queue))
        BY <1>7, <2>2 DEF DecisionsOf
      <3> QED BY <1>2, <1>4, <2>2, <3>1, FirstStays
    <2> QED BY <2>1, <2>2
  <1>9. ASSUME NEW i \in DOMAIN Gates, i < at[q]
        PROVE  FirstFor(Gates[i], Append(accepted[q], e), "approve")
    BY <1>2, <1>7, <1>9, FirstStays DEF DecisionsOf
  <1>10. ASSUME NEW i \in DOMAIN Gates, i > at[q], NEW j \in DOMAIN Append(accepted[q], e)
         PROVE  Append(accepted[q], e)[j][1] # Gates[i]
    <2>1. CASE j \in DOMAIN accepted[q]
      BY <1>5, <1>7, <1>10, <2>1 DEF DecisionsOf
    <2>2. CASE j = Len(accepted[q]) + 1
      <3>1. Gates[i] # gate
        BY <1>7, <1>10, GatesFacts
      <3> QED BY <1>5, <2>2, <3>1
    <2> QED BY <1>5, <2>1, <2>2
  <1>11. DecisionsOf(q)'
    <2>1. /\ thread'[q] = thread[q] /\ at'[q] = at[q] /\ outcome'[q] = outcome[q]
          /\ outcome[q] # "signed"
      BY <1>1, <1>7 DEF DecisionsOf
    <2> HIDE DEF e
    <2> QED BY <1>3, <1>4, <1>7, <1>8, <1>9, <1>10, <2>1 DEF DecisionsOf
  <1>12. \A r \in Runs \ {q} : DecisionsOf(r)'
    BY <1>1, <1>3, SameDecisions DEF IInv
  <1>13. LossInv'
    BY <1>1, LossKept DEF Missed, Said
  <1> QED BY <1>6, <1>11, <1>12, <1>13 DEF IInv

\* What the streams do is nothing to the decisions.
LEMMA DecisionsKept ==
  ASSUME IInv, UNCHANGED <<threadVars, waiter, accepted>>
  PROVE  \A r \in Runs : DecisionsOf(r)'
  BY SameDecisions DEF IInv, threadVars

LEMMA OpenStep ==
  ASSUME IInv, NEW s \in Streams, Open(s) PROVE IInv'
  <1>1. /\ stream[s] = "closed" /\ stream' = [stream EXCEPT ![s] = "open"]
        /\ UNCHANGED <<thread, at, lock, outcome, waiter, events, accepted, shown, gone>>
    BY DEF Open, threadVars
  <1>2. TypeOK'
    BY <1>1 DEF IInv, TypeOK
  <1>3. Broken' = Broken
    BY <1>1 DEF IInv, TypeOK, Broken
  <1>4. Cardinality(Lost') <= Cardinality(Lost)
    BY <1>1, NothingLost DEF IInv, Missed, Said
  <1>5. LossInv'
    BY <1>1, <1>3, <1>4, BrokenFinite DEF IInv, TypeOK, LossInv
  <1> QED BY <1>1, <1>2, <1>5, DecisionsKept DEF IInv, threadVars

LEMMA GoAwayStep ==
  ASSUME IInv, NEW s \in Streams, GoAway(s) PROVE IInv'
  <1>1. /\ stream[s] = "open" /\ stream' = [stream EXCEPT ![s] = "broken"] /\ gone' = gone + 1
        /\ UNCHANGED <<thread, at, lock, outcome, waiter, events, accepted, shown>>
    BY DEF GoAway, threadVars
  <1>2. TypeOK'
    BY <1>1 DEF IInv, TypeOK
  <1>3. Broken' = Broken \union {s}
    BY <1>1 DEF IInv, TypeOK, Broken
  <1>4. Cardinality(Lost') <= Cardinality(Lost)
    BY <1>1, NothingLost DEF IInv, Missed, Said
  <1>5. Cardinality(Broken') <= Cardinality(Broken) + 1 /\ Cardinality(Broken') \in Nat
    <2>1. IsFiniteSet(Broken) /\ Cardinality(Broken) \in Nat
      BY BrokenFinite DEF IInv
    <2>2. Cardinality(Broken \union {s}) \in {Cardinality(Broken), Cardinality(Broken) + 1}
      BY <2>1, FS_AddElement
    <2> QED BY <1>3, <2>1, <2>2
  <1>6. LossInv'
    BY <1>1, <1>4, <1>5, BrokenFinite DEF IInv, TypeOK, LossInv
  <1> QED BY <1>1, <1>2, <1>6, DecisionsKept DEF IInv, threadVars

\* A stream that was broken and ends may lose nothing any more.
LEMMA BrokenEnds ==
  ASSUME IInv, NEW s \in Streams, stream[s] = "broken",
         stream' = [stream EXCEPT ![s] = "ended"]
  PROVE  Cardinality(Broken') = Cardinality(Broken) - 1 /\ Cardinality(Broken') \in Nat
  <1>1. s \in Broken /\ Broken' = Broken \ {s}
    BY DEF IInv, TypeOK, Broken
  <1>2. IsFiniteSet(Broken)
    BY BrokenFinite DEF IInv
  <1> QED BY <1>1, <1>2, FS_RemoveElement, FS_CardinalityType

LEMMA KeepAliveStep ==
  ASSUME IInv, NEW s \in Streams, KeepAlive(s) PROVE IInv'
  <1>1. /\ stream[s] = "broken" /\ stream' = [stream EXCEPT ![s] = "ended"]
        /\ UNCHANGED <<thread, at, lock, outcome, waiter, events, accepted, shown, gone>>
    BY DEF KeepAlive, threadVars
  <1>2. TypeOK'
    BY <1>1 DEF IInv, TypeOK
  <1>3. Cardinality(Lost') <= Cardinality(Lost)
    BY <1>1, NothingLost DEF IInv, Missed, Said
  <1>4. LossInv'
    <2>1. Cardinality(Broken') = Cardinality(Broken) - 1
      BY <1>1, BrokenEnds
    <2>2. {Cardinality(Broken), Cardinality(Lost), Cardinality(Lost')} \subseteq Nat
      BY BrokenFinite DEF IInv
    <2> QED BY <1>1, <1>3, <2>1, <2>2 DEF IInv, TypeOK, LossInv
  <1> QED BY <1>1, <1>2, <1>4, DecisionsKept DEF IInv, threadVars

LEMMA DeliverStep ==
  ASSUME IInv, NEW s \in Streams, Deliver(s) PROVE IInv'
  <1> DEFINE q == StreamOf[s]
             e == Head(events[q])
  <1>1. q \in Runs
    BY GatewayAssumption
  <1>2. /\ events[q] # <<>> /\ events' = [events EXCEPT ![q] = Tail(@)]
        /\ stream[s] \in {"open", "broken"}
        /\ stream' = [stream EXCEPT ![s] =
                        IF stream[s] = "broken" \/ e = "_end" THEN "ended" ELSE "open"]
        /\ shown' = [shown EXCEPT ![q] = IF stream[s] = "broken" THEN @ ELSE @ \union {e}]
        /\ UNCHANGED <<thread, at, lock, outcome, waiter, accepted, gone>>
    BY DEF Deliver, threadVars
  <1>3. /\ Tail(events[q]) \in Seq(Events) /\ e \in Events
        /\ Range(events[q]) \subseteq Range(Tail(events[q])) \union {e}
    BY <1>1, <1>2, RangeTakes DEF IInv, TypeOK
  <1> HIDE DEF q, e
  <1>4. TypeOK'
    BY <1>1, <1>2, <1>3 DEF IInv, TypeOK
  <1>5. \A r \in Runs \ {q} : Missed(r)' \subseteq Missed(r)
    BY <1>1, <1>2 DEF IInv, TypeOK, Missed, Said
  <1>6. Said(q)' = Said(q) /\ events'[q] = Tail(events[q])
    BY <1>1, <1>2 DEF IInv, TypeOK, Said
  <1>7. CASE stream[s] = "broken"
    <2>1. shown' = shown /\ stream' = [stream EXCEPT ![s] = "ended"]
      BY <1>1, <1>2, <1>7 DEF IInv, TypeOK
    <2>2. Missed(q)' \subseteq Missed(q) \union {e}
      BY <1>3, <1>6, <2>1 DEF Missed
    <2>3. Cardinality(Lost') <= Cardinality(Lost) + 1
      BY <1>1, <1>5, <2>2, OneLost DEF IInv
    <2>4. LossInv'
      <3>1. Cardinality(Broken') = Cardinality(Broken) - 1
        BY <1>7, <2>1, BrokenEnds
      <3>2. {Cardinality(Broken), Cardinality(Lost), Cardinality(Lost')} \subseteq Nat
        BY BrokenFinite DEF IInv
      <3> QED BY <1>2, <2>3, <3>1, <3>2 DEF IInv, TypeOK, LossInv
    <2> QED BY <1>2, <1>4, <2>4, DecisionsKept DEF IInv, threadVars
  <1>8. CASE stream[s] = "open"
    <2>1. shown'[q] = shown[q] \union {e}
      BY <1>1, <1>2, <1>8 DEF IInv, TypeOK
    <2>2. Missed(q)' \subseteq Missed(q)
      BY <1>3, <1>6, <2>1 DEF Missed
    <2>3. Cardinality(Lost') <= Cardinality(Lost)
      BY <1>1, <1>5, <2>2, NothingLost DEF IInv
    <2>4. Broken' = Broken
      BY <1>2, <1>8 DEF IInv, TypeOK, Broken
    <2>5. LossInv'
      BY <1>2, <2>3, <2>4, BrokenFinite DEF IInv, TypeOK, LossInv
    <2> QED BY <1>2, <1>4, <2>5, DecisionsKept DEF IInv, threadVars
  <1> QED BY <1>2, <1>7, <1>8

-----------------------------------------------------------------------------
(* Theorems *)

LEMMA InitIInv == Init => IInv
  <1> SUFFICES ASSUME Init PROVE IInv
    OBVIOUS
  <1>1. TypeOK
    BY GatesFacts, EmptySeq DEF Init, TypeOK, NoWaiter
  <1>2. \A r \in Runs : DecisionsOf(r)
    BY GatesFacts DEF Init, DecisionsOf, NoWaiter
  <1>3. Lost = {} /\ Broken = {}
    BY GatesFacts DEF Init, Lost, Missed, Said, Broken
  <1>4. LossInv
    BY <1>3, FS_EmptySet DEF Init, LossInv
  <1> QED BY <1>1, <1>2, <1>4 DEF IInv

LEMMA NextIInv == IInv /\ [Next]_vars => IInv'
  <1> SUFFICES ASSUME IInv, [Next]_vars PROVE IInv'
    OBVIOUS
  <1>1. CASE UNCHANGED vars
    BY <1>1 DEF vars, IInv, TypeOK, DecisionsOf, LossInv, Lost, Broken, Missed, Said
  <1>2. CASE \E r \in Runs : PostRun(r) \/ Thread(r)
    BY <1>2, PostRunStep, AcquireStep, AskGateStep, TakeDecisionStep, ResumeStep, FinishStep
    DEF Thread
  <1>3. CASE \E r \in Runs, gate \in GateIds, decision \in Decisions :
                PostGate(r, gate, decision)
    BY <1>3, PostGateStep
  <1>4. CASE \E s \in Streams : Open(s) \/ GoAway(s) \/ KeepAlive(s) \/ Deliver(s)
    BY <1>4, OpenStep, GoAwayStep, KeepAliveStep, DeliverStep
  <1> QED BY <1>1, <1>2, <1>3, <1>4 DEF Next

\* The gateway keeps its types, for any gates, runs and streams.
THEOREM GatewayTypeCorrect == Spec => []TypeOK
  BY InitIInv, NextIInv, PTL DEF Spec, IInv

\* Whatever is posted, when and how often, a run is signed on the first decision
\* that resolve_gate accepted for each of its gates.
THEOREM SignedOnOwnDecisions == Spec => []SignedByItsDecisions
  <1>1. IInv => SignedByItsDecisions
    BY GatesFacts DEF IInv, TypeOK, DecisionsOf, SignedByItsDecisions
  <1> QED BY <1>1, InitIInv, NextIInv, PTL DEF Spec

\* However many streams compete for the events of the runs, each client that
\* goes away takes one event at most with it (_sse).
THEOREM OneEventPerClient == Spec => []LeavingLosesOne
  <1>1. IInv => LeavingLosesOne
    BY BrokenFinite DEF IInv, TypeOK, LossInv, LeavingLosesOne, Lost
  <1> QED BY <1>1, InitIInv, NextIInv, PTL DEF Spec
=============================================================================
