---------------------------- MODULE DerivedChain ----------------------------
(***************************************************************************)
(* The chain of derived engines: confluence, opportunities and decisions   *)
(* (app/services/confluence, opportunity_scanner, decision_engine), and    *)
(* the strategy evaluation at its end.  Each engine keeps its last payload *)
(* in a file and in a cache of 60 seconds, and builds from what the engine *)
(* above it answers.  A rebuild of one cascades to those below             *)
(* (_rebuild_*_safely in app/main.py).                                     *)
(*                                                                         *)
(* The scheduler rebuilds the whole chain again and again; threads of      *)
(* endpoints rebuild parts of it under a lock per operation, or read.      *)
(* Nothing excludes the scheduler, and nothing excludes readers.           *)
(*                                                                         *)
(* Confluence and opportunities evaluate the performance of all signals    *)
(* while they are built, and so do the market state and multi-timeframe    *)
(* engines above them.  For an outcome that is finished the evaluation     *)
(* calls a hook, which rebuilds everything from the market state down, in  *)
(* the same thread and inside the build: only Python's recursion limit     *)
(* ends the nesting.                                                       *)
(*                                                                         *)
(* A call is a stack of frames, each of which advances one file or cache   *)
(* access at a time.  A payload is the oldest and the newest version of    *)
(* the source that something in it comes from.                             *)
(***************************************************************************)
EXTENDS Integers, Sequences, FiniteSets

CONSTANTS
  Clients,     \* threads that serve endpoints
  MaxNest,     \* cascades inside one another that the stack has room for
  MaxChanges,  \* bound: changes of the source (reviews, validation, candles)
  MaxCalls,    \* bound: calls of endpoints, and sources with a finished outcome
  MaxFails     \* bound: builds that raise

ASSUME ChainAssumption ==
  /\ "scheduler" \notin Clients /\ "none" \notin Clients
  /\ MaxNest \in Nat \ {0}
  /\ MaxChanges \in Nat /\ MaxCalls \in Nat /\ MaxFails \in Nat

MarketState == -1        \* the engines above the chain: what they keep is
MultiTimeframe == 0      \* part of the source
Confluence == 1
Opportunities == 2
Decisions == 3
Signals == 4
Layers == Confluence .. Signals
Cached == Confluence .. Decisions

Of(version) == [old |-> version, new |-> version]
None   == Of(-1)      \* no file, an empty cache
NoData == Of(0)       \* the NO_DATA payload of an engine without input

Procs == Clients \cup {"scheduler"}

VARIABLES
  source,    \* version of what the loaders return
  finished,  \* whether it holds an outcome that is finished
  file,      \* file[l]: the payload in the file of layer l
  cache,     \* cache[l]: what it answers, None when it is empty or 60 seconds have passed
  stack,     \* stack[p]: frames of p, the innermost last
  lock,      \* lock[p]: operation whose lock p holds, or "none"
  calls, fails,
  \* history, for the properties
  lone,      \* the process whose full cascade has met nobody and no failure, or "none"
  order      \* "equal" after such a cascade, "raced" once calls or cascades have met, or "kept"

vars == <<source, finished, file, cache, stack, lock, calls, fails, lone, order>>

Idle(p) == stack[p] = <<>>
Top(p) == stack[p][Len(stack[p])]
Below(p) == SubSeq(stack[p], 1, Len(stack[p]) - 1)
\* chain: the layers below follow; depth: the cascades around it.
Frame(layer, at, chain, depth) ==
  [layer |-> layer, at |-> at, val |-> None, chain |-> chain, depth |-> depth]
As(frame, at, val) == [frame EXCEPT !.at = at, !.val = val]
\* The innermost frame becomes another, calls one, or is gone and the one under it goes on.
Become(p, frame) == stack' = [stack EXCEPT ![p] = Append(Below(p), frame)]
Go(p, at, val) == Become(p, As(Top(p), at, val))
Call(p, frame, callee) == stack' = [stack EXCEPT ![p] = Append(Append(Below(p), frame), callee)]
Caller(p) == stack[p][Len(stack[p]) - 1]
Resume(p, frame) == stack' = [stack EXCEPT ![p] = [Below(p) EXCEPT ![Len(stack[p]) - 1] = frame]]

\* Mutant: the rebuild of an engine answers what all() answers.
FirstStep_All(layer) ==
  IF layer < Confluence THEN "evaluate" ELSE IF layer = Signals THEN "rebuild" ELSE "look"
\* How a rebuild begins; of the engines above the chain only the evaluation matters.
FirstStep(layer) == IF layer < Confluence THEN "evaluate" ELSE "rebuild"
RebuildFrame(layer, chain, depth) == Frame(layer, FirstStep(layer), chain, depth)

Init ==
  /\ source = 1 /\ finished = FALSE
  /\ file = [l \in Layers |-> None]
  /\ cache = [l \in Cached |-> None]
  /\ stack = [p \in Procs |-> <<>>]
  /\ lock = [p \in Procs |-> "none"]
  /\ calls = 0 /\ fails = 0
  /\ lone = "none" /\ order = "kept"

-----------------------------------------------------------------------------
(* Calls.                                                                  *)

Start(p, frame, operation) ==
  /\ Idle(p)
  /\ stack' = [stack EXCEPT ![p] = <<frame>>]
  /\ lock' = [lock EXCEPT ![p] = operation]
  /\ LET quiet == \A q \in Procs : Idle(q) IN
       /\ lone' = IF quiet /\ frame.chain /\ frame.layer <= Confluence THEN p ELSE "none"
       /\ order' = IF quiet /\ order # "raced" THEN "kept" ELSE "raced"
  /\ UNCHANGED <<source, finished, file, cache, fails>>

\* One round of _signal_validation_scheduler_loop.
Round ==
  /\ Start("scheduler", RebuildFrame(MultiTimeframe, TRUE, 0), "none")
  /\ UNCHANGED calls

\* What the OPS endpoints rebuild: the layer, and the layers below it.  The endpoint of
\* confluence stops there; consensus, authors, ... cascade like market state.
Operations == [confluence_rebuild      |-> [first |-> Confluence,    chain |-> FALSE],
               market_state_rebuild    |-> [first |-> MarketState,   chain |-> TRUE],
               opportunities_rebuild   |-> [first |-> Opportunities, chain |-> TRUE],
               decisions_rebuild       |-> [first |-> Decisions,     chain |-> TRUE]]

\* _run_locked_ops: 409 for an operation whose lock is held.
Operate(p, operation) ==
  /\ calls < MaxCalls /\ calls' = calls + 1
  /\ \A q \in Procs : lock[q] # operation
  /\ Start(p, RebuildFrame(Operations[operation].first, Operations[operation].chain, 0), operation)

\* GET endpoints: all() of one engine, or the performance of all signals.
Read(p) ==
  /\ calls < MaxCalls /\ calls' = calls + 1
  /\ \/ \E l \in Cached : Start(p, Frame(l, "look", FALSE, 0), "none")
     \/ Start(p, RebuildFrame(MultiTimeframe, FALSE, 0), "none")

\* cache_clear invalidates the three caches one after the other; no step reads two.
ClearCaches ==
  /\ calls < MaxCalls /\ calls' = calls + 1
  /\ cache' = [l \in Cached |-> None]
  /\ UNCHANGED <<source, finished, file, stack, lock, fails, lone, order>>

-----------------------------------------------------------------------------
(* Frames.                                                                 *)

\* Mutant: the rebuild of confluence goes on with the decisions.
Following_Skips(layer) == IF layer = Confluence THEN Decisions ELSE layer + 1
Following(layer) == layer + 1

\* What follows the evaluation of the performance: the engines above the chain have only
\* changed the source, a build of the chain has all that it rests on.
Evaluated(frame) ==
  IF frame.layer >= Confluence THEN As(frame, "save", [frame.val EXCEPT !.new = source])
  ELSE IF frame.chain THEN RebuildFrame(Following(frame.layer), TRUE, frame.depth)
  ELSE As(frame, "end", None)

\* What follows the answer of the engine above: opportunities evaluate, then they write.
Loaded(frame, val) == As(frame, IF frame.layer = Opportunities THEN "evaluate" ELSE "save", val)

Over(p) ==
  /\ stack' = [stack EXCEPT ![p] = <<>>]
  /\ lock' = [lock EXCEPT ![p] = "none"]

\* The innermost frame of p returns val: its cascade goes on with the next layer, or the
\* call is over, or the evaluation whose hook it was goes on, or the build above it.
Return(p, val) ==
  LET f == Top(p) IN
  IF ~f.chain /\ Len(stack[p]) = 1 THEN Over(p)
  ELSE /\ IF f.chain THEN Become(p, RebuildFrame(Following(f.layer), TRUE, f.depth))
          ELSE IF Caller(p).at = "evaluate" THEN Resume(p, Evaluated(Caller(p)))
          ELSE Resume(p, Loaded(Caller(p), val))
       /\ UNCHANGED lock

\* What a build does when the engine above raises: opportunities give up, decisions too
\* unless they have no file yet, the strategy evaluation always.
NotLoaded(frame) ==
  IF frame.layer = Decisions /\ file[Decisions] = None THEN As(frame, "save", NoData)
  ELSE As(frame, "rescue", None)

\* The innermost frame of p raises: the call is over, or the cascade of a hook is, whose
\* errors it logs, or the build above sees its loader fail.
Raise(p) ==
  IF Len(stack[p]) = 1 THEN Over(p)
  ELSE /\ Resume(p, IF Caller(p).at = "evaluate" THEN Evaluated(Caller(p)) ELSE NotLoaded(Caller(p)))
       /\ UNCHANGED lock

Running(p, at) == ~Idle(p) /\ Top(p).at = at

\* all(): the cache answers, unless 60 seconds have passed since it was set.
Look(p) ==
  /\ Running(p, "look")
  /\ \/ cache[Top(p).layer] # None /\ Return(p, cache[Top(p).layer]) /\ UNCHANGED cache
     \/ Go(p, "read", None) /\ cache' = [cache EXCEPT ![Top(p).layer] = None] /\ UNCHANGED lock
  /\ UNCHANGED <<source, finished, file, calls, fails, lone, order>>

\* ... else the file, whatever its age; only without one is the layer built.
ReadFile(p) ==
  /\ Running(p, "read")
  /\ LET l == Top(p).layer IN
       IF file[l] # None THEN Go(p, "store", file[l]) ELSE Go(p, "rebuild", None)
  /\ UNCHANGED <<source, finished, file, cache, lock, calls, fails, lone, order>>

\* rebuild() begins by emptying the cache, the strategy engine has none; build_all then
\* loads: confluence from the source, the others from all() of the engine above.
Rebuild(p) ==
  /\ Running(p, "rebuild")
  /\ LET l == Top(p).layer IN
       /\ cache' = IF l \in Cached THEN [cache EXCEPT ![l] = None] ELSE cache
       /\ IF l = Confluence THEN Go(p, "load", None)
          ELSE Call(p, As(Top(p), "load", None), Frame(l - 1, "look", FALSE, Top(p).depth))
  /\ UNCHANGED <<source, finished, file, lock, calls, fails, lone, order>>

Load(p) ==
  /\ Running(p, "load") /\ Top(p).layer = Confluence
  /\ Go(p, "evaluate", Of(source))
  /\ UNCHANGED <<source, finished, file, cache, lock, calls, fails, lone, order>>

\* evaluate_all without an outcome that is finished, or with no room for its hook.
Evaluate(p) ==
  /\ Running(p, "evaluate")
  /\ ~finished \/ Top(p).depth = MaxNest
  /\ Become(p, Evaluated(Top(p)))
  /\ UNCHANGED <<source, finished, file, cache, lock, calls, fails, lone, order>>

\* _performance_completion_hook: a cascade inside the build.
Hook(p) ==
  /\ Running(p, "evaluate")
  /\ finished /\ Top(p).depth < MaxNest
  /\ Call(p, Top(p), RebuildFrame(MarketState, TRUE, Top(p).depth + 1))
  /\ order' = "raced"
  /\ UNCHANGED <<source, finished, file, cache, lock, calls, fails, lone>>

\* The build raises before it has written: any of them may, and those at the limit of the
\* recursion do somewhere.
Fail(p) ==
  /\ ~Idle(p)
  /\ Top(p).at = IF Top(p).layer < Confluence THEN "evaluate" ELSE "save"
  /\ \/ fails < MaxFails /\ fails' = fails + 1 /\ lone' = "none"
     \/ Top(p).depth = MaxNest /\ UNCHANGED <<fails, lone>>
  /\ Go(p, "rescue", None)
  /\ UNCHANGED <<source, finished, file, cache, lock, calls, order>>

\* After its write the strategy evaluation asks for the decisions again, to count them.
CountDecisions(frame) == Frame(Decisions, "look", FALSE, frame.depth)

\* Mutant: the payload goes to the cache only.
Save_CacheOnly(p) ==
  /\ Running(p, "save")
  /\ IF Top(p).layer = Signals
     THEN file' = [file EXCEPT ![Signals] = Top(p).val] /\ Become(p, CountDecisions(Top(p)))
     ELSE Go(p, "store", Top(p).val) /\ UNCHANGED file
  /\ UNCHANGED <<source, finished, cache, lock, calls, fails, lone, order>>

\* atomic_write_json; the strategy evaluation keeps no cache.
Save(p) ==
  /\ Running(p, "save")
  /\ LET l == Top(p).layer IN
       /\ file' = [file EXCEPT ![l] = Top(p).val]
       /\ IF l = Signals THEN Become(p, CountDecisions(Top(p))) ELSE Go(p, "store", Top(p).val)
       /\ order' = IF l = Signals /\ lone = p /\ Top(p).depth = 0 THEN "equal" ELSE order
  /\ UNCHANGED <<source, finished, cache, lock, calls, fails, lone>>

\* cache.set, after the file was read or written.
Store(p) ==
  /\ Running(p, "store")
  /\ cache' = [cache EXCEPT ![Top(p).layer] = Top(p).val]
  /\ Return(p, Top(p).val)
  /\ UNCHANGED <<source, finished, file, calls, fails, lone, order>>

\* The performance was asked for alone.
End(p) ==
  /\ Running(p, "end")
  /\ Over(p)
  /\ UNCHANGED <<source, finished, file, cache, calls, fails, lone, order>>

\* A failed rebuild answers with the payload of the file, if there is one.
Rescue(p) ==
  /\ Running(p, "rescue")
  /\ LET l == Top(p).layer IN
       IF l \in Cached /\ file[l] # None
       THEN Go(p, "store", file[l]) /\ UNCHANGED lock
       ELSE Raise(p)
  /\ UNCHANGED <<source, finished, file, cache, calls, fails, lone, order>>

Step(p) ==
  \/ Look(p) \/ ReadFile(p) \/ Rebuild(p) \/ Load(p) \/ Evaluate(p) \/ Hook(p)
  \/ Save(p) \/ Store(p) \/ End(p) \/ Rescue(p)

-----------------------------------------------------------------------------
(* Surroundings.                                                           *)

\* The source changes, and with it which outcomes are finished.  A cascade with hooks in
\* it does not count as one that met nobody.
NewSource ==
  /\ source <= MaxChanges
  /\ source' = source + 1
  /\ \/ finished' = FALSE /\ UNCHANGED calls
     \/ finished' = TRUE /\ calls < MaxCalls /\ calls' = calls + 1
  /\ lone' = IF finished \/ finished' THEN "none" ELSE lone
  /\ UNCHANGED <<file, cache, stack, lock, fails, order>>

Next ==
  \/ Round \/ ClearCaches \/ NewSource
  \/ \E p \in Clients : Read(p) \/ \E o \in DOMAIN Operations : Operate(p, o)
  \/ \E p \in Procs : Step(p) \/ Fail(p)
Spec == Init /\ [][Next]_vars

\* The scheduler sleeps and runs again; a thread that runs finishes its call.
FairSpec == Spec /\ WF_vars(Round) /\ \A p \in Procs : WF_vars(Step(p))

-----------------------------------------------------------------------------
(* Properties.                                                             *)

Versions == -1 .. source
Payloads == [old : Versions, new : Versions]

Stages(layer) ==
  IF layer < Confluence THEN {"evaluate", "rescue", "end"}
  ELSE {"rebuild", "load", "save", "rescue"}
       \cup (IF layer \in Cached THEN {"look", "read", "store"} ELSE {})
       \cup (IF layer <= Opportunities THEN {"evaluate"} ELSE {})

Frames ==
  {f \in [layer : MarketState .. Signals,
          at : {"look", "read", "rebuild", "load", "evaluate", "save", "store", "rescue", "end"},
          val : Payloads, chain : BOOLEAN, depth : 0 .. MaxNest] :
     /\ f.at \in Stages(f.layer)
     /\ f.layer = Signals => f.chain}

\* A build waits for the engine above it, or for the cascade of the hook inside it.
Waits(f, g) ==
  \/ f.at = "load" /\ g.layer = f.layer - 1 /\ ~g.chain /\ g.depth = f.depth
  \/ f.at = "evaluate" /\ g.depth = f.depth + 1

Nested(st) ==
  /\ \A i \in 1 .. Len(st) - 1 : Waits(st[i], st[i + 1])
  /\ st # <<>> => st[1].depth = 0

TypeOK ==
  /\ source \in 1 .. MaxChanges + 1 /\ finished \in BOOLEAN
  /\ file \in [Layers -> Payloads]
  /\ cache \in [Cached -> Payloads]
  /\ stack \in [Procs -> Seq(Frames)]
  /\ lock \in [Procs -> {"none"} \cup DOMAIN Operations]
  /\ \A p \in Procs :
       /\ Nested(stack[p])
       /\ Idle(p) => lock[p] = "none"     \* also when it raised
  /\ calls \in 0 .. MaxCalls /\ fails \in 0 .. MaxFails
  /\ lone \in Procs \cup {"none"}
  /\ order \in {"equal", "kept", "raced"}

Rank(version) == IF version = -1 THEN 0 ELSE version

\* As long as no two calls met and no cascade ran inside a build, no layer rests on a later
\* source than the layer it was built from, except for what opportunities read themselves,
\* and what a cache answers is what its file holds: failures, expiry and cleared caches in
\* any order do not break it, and a complete cascade restores it after a race.
InOrder ==
  order # "raced" =>
    /\ \A l \in Cached :
         /\ Rank(file[l + 1].old) <= Rank(file[l].old)
         /\ l # Confluence => Rank(file[l + 1].new) <= Rank(file[l].new)
    /\ \A l \in Cached : cache[l] # None => cache[l] = file[l]

\* A cascade that met nobody and no failure leaves one version of the source in all the
\* files, also when hooks ran whole cascades inside its builds: no build took the answer of
\* a cache older than the rebuild above it.  Opportunities alone may know more, what they
\* read themselves, and what is built from them then knows the same.
CascadeAgrees ==
  order = "equal" =>
    \A l \in Cached : /\ file[l + 1].old = file[l].old
                      /\ l # Confluence => file[l + 1].new = file[l].new

\* Whatever races there were, once the source rests and calls stop, the rounds of the
\* scheduler bring every file to it, for good.
Converges == <>[](\A l \in Layers : file[l] = Of(source))
=============================================================================
