-------------------------- MODULE SignalValidation --------------------------
(***************************************************************************)
(* The signal validation engine (app/services/signal_validation.py).       *)
(*                                                                         *)
(* The scheduler loop and every GET /api/validation run validate_many over *)
(* the ideas of the video catalog: an idea without a final result is       *)
(* simulated over the loaded candles and its result put in the registry    *)
(* file, which is read, changed and written without a lock.  A validator   *)
(* here is one such thread; a step is one read or write it makes.          *)
(*                                                                         *)
(* All ideas are about one symbol.  Time counts candles.                   *)
(***************************************************************************)
EXTENDS Naturals, Sequences, FiniteSets, SequencesExt

CONSTANTS
  Validators, \* threads that may run validate_many at once
  Worlds,     \* what validation may find: the ideas, newest first, and whether _dt can
              \* parse the times of their provider's candles
  Batch,      \* ideas of the catalog one cycle looks at (50 in the code)
  Bars,       \* [high, low] of the candles the market may draw
  MaxTime,    \* bound: candles drawn
  MaxLoad,    \* candles in one load (500 in the code)
  Faults      \* subset of {"raise", "crash"}

Idea == [id : STRING, published : Nat, expires : Nat, complete : BOOLEAN,
         side : {"BUY", "SELL"}, entry : Nat, stop : Nat, target : Nat]
ASSUME WorldsAssumption == Worlds \subseteq [catalog : Seq(Idea), stamped : BOOLEAN]
ASSUME BarsAssumption == Bars \subseteq [high : Nat, low : Nat]
ASSUME ValidationBound == {Batch, MaxTime, MaxLoad} \subseteq Nat

Candle == [high : Nat, low : Nat, time : Nat]
Result == [id : STRING,
           status  : {"pending", "validated", "expired", "invalid"},
           outcome : {"UNKNOWN", "NOT_TRIGGERED", "TP", "SL"}]
Final == {"validated", "expired", "invalid"}

VARIABLES
  now,
  history,   \* the candles drawn so far
  world,     \* one of Worlds, for good
  registry,  \* results in signal_validations.json
  pc,        \* where each validator stands
  todo,      \* ideas the validator's cycle has left
  result,    \* result it has computed
  items,     \* registry it has read and changed in memory
  crossed,   \* history: validators during whose work on an idea another saved
  missed     \* history: ideas validated on a load that had lost candles of their period

local == <<pc, todo, result, items>>
validationVars  == <<now, history, world, registry, local, crossed, missed>>

NoResult == [id |-> "none", status |-> "pending", outcome |-> "UNKNOWN"]

ValidationTypeOK ==
  /\ now \in 0..MaxTime
  /\ history \in Seq(Candle)
  /\ registry \subseteq Result
  /\ world \in Worlds
  /\ pc \in [Validators -> {"idle", "look", "load", "read", "save", "audit"}]
  /\ todo \in [Validators -> Seq(Idea)]
  /\ result \in [Validators -> Result \cup {NoResult}]
  /\ items \in [Validators -> SUBSET Result]
  /\ crossed \subseteq Validators
  /\ missed \subseteq STRING

ValidationInit ==
  /\ now = 0
  /\ history = <<>>
  /\ world \in Worlds
  /\ registry = {}
  /\ pc = [v \in Validators |-> "idle"]
  /\ todo = [v \in Validators |-> <<>>]
  /\ result = [v \in Validators |-> NoResult]
  /\ items = [v \in Validators |-> {}]
  /\ crossed = {}
  /\ missed = {}

-----------------------------------------------------------------------------
(* What one validation computes.                                           *)

FirstOf(s, n) == SubSeq(s, 1, IF Len(s) < n THEN Len(s) ELSE n)
LastOf(s, n)  == SubSeq(s, IF Len(s) < n THEN 1 ELSE Len(s) - n + 1, Len(s))

\* A level against the trade, and one in its direction, is inside the candle.
FallsTo(i, c, level) == IF i.side = "BUY" THEN c.low <= level ELSE c.high >= level
Reaches(i, c, level) == IF i.side = "BUY" THEN c.high >= level ELSE c.low <= level

\* The provider drops candles outside the idea's period, but keeps those whose time
\* it cannot parse.
InPeriod(i, c) == world.stamped => i.published <= c.time /\ c.time <= i.expires

\* Mutant: the entry is not waited for.
Walk_NoEntry(i, state, c) ==
  IF Reaches(i, c, i.target) /\ state \in {"waiting", "entered"} THEN "TP"
  ELSE IF FallsTo(i, c, i.stop) /\ state \in {"waiting", "entered"} THEN "SL" ELSE state

\* One candle of the simulation: the entry candle itself may hit, the target is looked
\* at before the stop, and a candle without a time counts as the expiry.
Walk(i, state, c) ==
  LET entered == state = "entered" \/ (state = "waiting" /\ FallsTo(i, c, i.entry))
  IN CASE entered /\ Reaches(i, c, i.target) -> "TP"
       [] entered /\ ~Reaches(i, c, i.target) /\ FallsTo(i, c, i.stop) -> "SL"
       [] entered /\ ~Reaches(i, c, i.target) /\ ~FallsTo(i, c, i.stop) ->
            IF world.stamped /\ c.time < i.expires THEN "entered" ELSE "over"
       [] OTHER -> state

\* When the candles end, an idea without a hit is expired, whatever the clock says.
Simulated(i, s) ==
  LET end == FoldLeft(LAMBDA state, c : IF InPeriod(i, c) THEN Walk(i, state, c) ELSE state,
                      "waiting", s)
  IN [id |-> i.id,
      status |-> IF end \in {"TP", "SL"} THEN "validated" ELSE "expired",
      outcome |-> CASE end \in {"TP", "SL"} -> end
                    [] end = "waiting" -> "NOT_TRIGGERED"
                    [] OTHER -> "UNKNOWN"]

\* Mutant: without candles an idea stays pending for ever.
WithoutCandles_Pending(i) == [id |-> i.id, status |-> "pending", outcome |-> "UNKNOWN"]

WithoutCandles(i) ==
  IF i.expires > now
  THEN [id |-> i.id, status |-> "pending", outcome |-> "UNKNOWN"]
  ELSE [id |-> i.id, status |-> "expired", outcome |-> "NOT_TRIGGERED"]

ResultOf(i, s) ==
  IF \E k \in DOMAIN s : InPeriod(i, s[k]) THEN Simulated(i, s) ELSE WithoutCandles(i)

-----------------------------------------------------------------------------
(* validate_many and validate_signal.                                      *)

NextIdea(v) == /\ todo' = [todo EXCEPT ![v] = Tail(@)]
            /\ pc' = [pc EXCEPT ![v] = IF Len(todo[v]) = 1 THEN "idle" ELSE "look"]

\* The catalog holds what was published; a cycle takes its first ideas.
Published ==
  FoldLeft(LAMBDA ideas, i : IF i.published <= now THEN Append(ideas, i) ELSE ideas,
           <<>>, world.catalog)

Begin(v) ==
  LET ideas == FirstOf(Published, Batch) IN
  /\ pc[v] = "idle"
  /\ ideas # <<>>
  /\ todo' = [todo EXCEPT ![v] = ideas]
  /\ pc' = [pc EXCEPT ![v] = "look"]
  /\ UNCHANGED <<now, history, world, registry, result, items, crossed, missed>>

HasFinal(i) == \E r \in registry : r.id = i.id /\ r.status \in Final

\* Mutant: an idea that has a final result is validated again.
Look_Again(v) ==
  /\ pc[v] = "look"
  /\ pc' = [pc EXCEPT ![v] = "load"]
  /\ UNCHANGED <<now, history, world, registry, todo, result, items, crossed, missed>>

\* An idea without levels is invalid at once; one with a final result is left alone.
Look(v) ==
  LET i == Head(todo[v]) IN
  /\ pc[v] = "look"
  /\ \/ HasFinal(i) /\ NextIdea(v) /\ UNCHANGED result
     \/ /\ ~HasFinal(i) /\ ~i.complete
        /\ result' = [result EXCEPT ![v] =
                        [id |-> i.id, status |-> "invalid", outcome |-> "UNKNOWN"]]
        /\ pc' = [pc EXCEPT ![v] = "read"]
        /\ UNCHANGED todo
     \/ /\ ~HasFinal(i) /\ i.complete
        /\ pc' = [pc EXCEPT ![v] = "load"]
        /\ UNCHANGED <<todo, result>>
  /\ UNCHANGED <<now, history, world, registry, items, crossed, missed>>

\* The candle loader returns the latest candles, or none.
Load(v) ==
  LET i == Head(todo[v]) IN
  /\ pc[v] = "load"
  /\ \E loaded \in {<<>>, LastOf(history, MaxLoad)} :
       result' = [result EXCEPT ![v] = ResultOf(i, loaded)]
  /\ missed' = IF \E k \in 1..(Len(history) - MaxLoad) : i.published <= history[k].time
               THEN missed \cup {i.id} ELSE missed
  /\ pc' = [pc EXCEPT ![v] = "read"]
  /\ UNCHANGED <<now, history, world, registry, todo, items, crossed>>

\* The loader raises: the cycle is over.
LoadRaises(v) ==
  /\ pc[v] = "load"
  /\ "raise" \in Faults
  /\ todo' = [todo EXCEPT ![v] = <<>>]
  /\ pc' = [pc EXCEPT ![v] = "idle"]
  /\ crossed' = crossed \ {v}
  /\ UNCHANGED <<now, history, world, registry, result, items, missed>>

\* Mutant: the idea's earlier result stays.
ReadItems_Appends(v) ==
  /\ pc[v] = "read"
  /\ items' = [items EXCEPT ![v] = registry \cup {result[v]}]
  /\ pc' = [pc EXCEPT ![v] = "save"]
  /\ UNCHANGED <<now, history, world, registry, todo, result, crossed, missed>>

ReadItems(v) ==
  /\ pc[v] = "read"
  /\ items' = [items EXCEPT ![v] = {r \in registry : r.id # result[v].id} \cup {result[v]}]
  /\ pc' = [pc EXCEPT ![v] = "save"]
  /\ UNCHANGED <<now, history, world, registry, todo, result, crossed, missed>>

SaveItems(v) ==
  /\ pc[v] = "save"
  /\ registry' = items[v]
  /\ pc' = [pc EXCEPT ![v] = "audit"]
  /\ crossed' = (crossed \cup {w \in Validators : pc[w] \in {"load", "read", "save"}}) \ {v}
  /\ UNCHANGED <<now, history, world, todo, result, items, missed>>

\* The audit file, which no code reads, is written from the same items.
SaveAudit(v) ==
  /\ pc[v] = "audit"
  /\ result' = [result EXCEPT ![v] = NoResult]
  /\ items' = [items EXCEPT ![v] = {}]
  /\ NextIdea(v)
  /\ UNCHANGED <<now, history, world, registry, crossed, missed>>

\* The market draws a candle and the clock moves on.
Tick ==
  /\ now < MaxTime
  /\ now' = now + 1
  /\ \E b \in Bars : history' = Append(history, [high |-> b.high, low |-> b.low, time |-> now'])
  /\ UNCHANGED <<world, registry, local, crossed, missed>>

Crash ==
  /\ "crash" \in Faults
  /\ pc' = [v \in Validators |-> "idle"]
  /\ todo' = [v \in Validators |-> <<>>]
  /\ result' = [v \in Validators |-> NoResult]
  /\ items' = [v \in Validators |-> {}]
  /\ crossed' = {}
  /\ UNCHANGED <<now, history, world, registry, missed>>

Regular(v) == Begin(v) \/ Look(v) \/ Load(v) \/ ReadItems(v) \/ SaveItems(v) \/ SaveAudit(v)
Step(v) == Regular(v) \/ LoadRaises(v)
ValidationNext == (\E v \in Validators : Step(v)) \/ Tick \/ Crash
ValidationSpec == ValidationInit /\ [][ValidationNext]_validationVars

\* The clock runs, and so do the scheduler loop and the threads.
FairValidation == ValidationSpec /\ WF_validationVars(Tick) /\ \A v \in Validators : WF_validationVars(Step(v))

-----------------------------------------------------------------------------
(* Properties.                                                             *)

\* However validators overlap, the registry has one result per idea: author win
\* rates count every idea once.
UniqueResults == \A r, q \in registry : r.id = q.id => r = q

\* Where candle times can be parsed and the load held the idea's whole period, the
\* outcome is objective: a recorded TP or SL is the first level the market hit in the
\* period, from the first candle that held the entry on, however early the idea was
\* validated and whatever was drawn since.
HitFirst(i) ==
  LET inside == {k \in DOMAIN history : i.published <= history[k].time /\ history[k].time <= i.expires}
      entered(k) == \E e \in inside : e <= k /\ FallsTo(i, history[e], i.entry)
      hits == {k \in inside : /\ entered(k)
                              /\ \/ Reaches(i, history[k], i.target)
                                 \/ FallsTo(i, history[k], i.stop)}
  IN IF hits = {} THEN "none"
     ELSE LET k == CHOOSE k \in hits : \A m \in hits : k <= m
          IN IF Reaches(i, history[k], i.target) THEN "TP" ELSE "SL"

ResultsObjective ==
  world.stamped => \A r \in registry : r.outcome \in {"TP", "SL"} /\ r.id \notin missed =>
    \E k \in DOMAIN world.catalog : world.catalog[k].id = r.id /\ HitFirst(world.catalog[k]) = r.outcome

\* A final result stays: neither a later cycle, nor a restart, nor an overlapping
\* validator changes or drops one, but for a validator that another one's save met
\* while it was at work on its idea.
FinalForEver ==
  [][\A r \in registry : r.status \in Final =>
       r \in registry' \/ \E v \in crossed : pc[v] = "save" /\ pc'[v] = "audit"]_validationVars

Decided(i) == \E r \in registry : r.id = i.id /\ r.status \in Final
AllDecided == \A k \in DOMAIN FirstOf(world.catalog, Batch) : Decided(world.catalog[k])

\* The newest ideas, as many as a cycle takes, end up with a final result for good,
\* even if candles are never available and validators overwrite each other's results,
\* once loads stop raising and the process stops dying.
NewestDecided == <>[][Tick \/ \E v \in Validators : Regular(v)]_validationVars => <>[]AllDecided
=============================================================================
