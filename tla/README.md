# A TLA+ model of FXPilot, the AI forex signal platform

This directory holds TLA+ modules that model the part of the platform that
decides about trades and keeps its data, the TLC configurations that check them,
and proofs checked by TLAPS. Line numbers refer to `src/`, the source tree of the
platform; `PROJECT.json` maps every definition to its lines.

## 1. The system

FXPilot is a FastAPI process (`app/main.py`, about 7300 lines, and
`app/services/`). Synchronous endpoints run in a thread pool; the media scheduler
(APScheduler threads), the validation loop (an asyncio task) and one background
worker for the published ideas run beside them. State is kept in JSON files. Most
are written by `atomic_write_json` (temporary file with a unique name,
`os.replace`), so a single write is all or nothing; what one request reads,
changes and writes is not. Few components take a lock.

Two pipelines share the market data (MT4 pushes, providers, candle caches):

* media import -> reviews -> knowledge graph, consensus, author intelligence,
  signal validation, market state -> confluence -> opportunities -> decisions ->
  strategies, which approve signals -> paper trading -> portfolio, and execution
  gateway;
* candles -> signal -> score -> idea lifecycle -> market ideas cache -> pages and
  the MT4 expert.

### Components

| component | state | operations | what makes it correct |
|---|---|---|---|
| Execution gateway (`services/execution_gateway/`) | orders, results, state: three files; `GATEWAY_LOCK` | build, rebuild, dispatch, cancel, kill switch | one order per signal; nothing is placed while the kill switch is on; an order is placed and recorded once; requests end |
| Idea lifecycle (`services/idea_lifecycle.py`) | `active_ideas.json`, `archive.json`, two fixed temporary files | `apply_idea_lifecycle`, called by GET endpoints and a worker | an active idea is fixed until TP or SL; a result counts once; no idea vanishes |
| Signal generation and scoring (`main.py:4926-5150`, `prop_signal_engine.py`, `core/prop_score_recovery_patch.py`) | none but which scorer is installed | build a signal, score it, open or close an idea | levels lie on their sides of the entry at a reward worth the risk; an unmoved market closes nothing |
| Signal validation (`services/signal_validation.py`) | `signal_validations.json`, its audit file | `validate_many` by the scheduler loop and by GET requests | one final, objective result per idea, for every idea |
| Paper trading (`services/paper_trading/`) | account, positions, trades, statistics: four files | rebuild, reset | a position is decided by the first level the market hits; losses are bounded by the risk; what closes is booked |
| Strategy builder (`services/strategy_builder/`) | strategies, evaluations, approved signals: three files | create, update, delete, activate, clone, rebuild | approved signals come from active strategies and from one evaluation, and are worth trading |
| Portfolio (`services/portfolio/`) | portfolio, statistics, history (1000 entries) | rebuild, reset | a picture of one account; history is kept |
| Confluence, opportunities, decisions (`services/confluence/` ...) | a file and a 60-second cache each | `all`, rebuild, cascades of `main.py` | layers agree after a rebuild, and come to agree after races |
| Media import (`services/media_import_engine.py`) | source registry, media catalogue | import, import of one source, edits of the registry | a failing source loses nothing; flags are given back |
| Media automation (`services/media_automation.py`) | `_running`, state file | import cycles, nightly maintenance | one cycle at a time; notifications are kept |
| OPS endpoints (`main.py:2022-2060`) | `OPS_LOCKS`, audit file | locked operations, audit of source changes | an operation does not overlap itself and gives its lock back; records are kept |
| Market ideas cache (`main.py:3352-3413`) | payload, in-progress flag | read, queue, refresh | one refresh at a time, and always another later |
| Candle caches and MT4 store (`main.py:439-505`, `3690-3850`, `5196-5400`, `5656-5780`) | candles per symbol and timeframe, cache, in-flight marks, last request times | push, merge, prune, fetch, wait, trim, clear | new bars are kept, answers are as old as they say, waiters wait for somebody |
| Trade ideas, transcripts, LLM reviews, market state, knowledge graph, options, news, providers, patches, clients | caches and derived files | | not modelled: section 7 |

Hard behaviour: threads overlap in read-change-write sequences on files; several
files are written one after the other and the process may die in between; a copy
read early is written back late; caches of 60 seconds stand between layers that
are rebuilt in a row; candles hold entry, stop and target at once; terminal states
are or are not left again by the next candle or cycle; a thread replaces the scorer
while ideas are scored. `PROJECT.json` lists each hazard at its line, with the
properties about it.

## 2. The modules

### ExecutionGateway, OrderBook, ExecutionGatewayProofs

`ExecutionGateway` models every operation of the gateway that changes state.
`OPS_LOCKS` are per operation and non-blocking (`main.py:2037`), so at most one
request per operation name runs: the operation names are the processes, and
`pc[op]` says where the request stands. A step is one file read, one adapter call
or one atomic write together with the local computation after it.

* build and rebuild (`execution_gateway.py:21-46`): `BuildRequest`,
  `BuildAcquire` (`GATEWAY_LOCK`, duplicate scan), `BuildDecide` (risk checks,
  new order in the copy of the list), `BuildSave`, `BuildReturn`; `BuildRaises`
  is the `ExecutionSide(...)` that raises in the middle of a batch.
* dispatch (47-56): request, acquire, load, `DispatchBlockedByKill`, one
  `DispatchPlace` per order of the loop, then the three writes in their order:
  orders, results, state.
* cancel (57-61) and set_kill (62-63) read and write without `GATEWAY_LOCK`.
* `WriteFails` ends a request at any write; `Crash` ends all of them, frees the
  lock and may start the process in another mode.

The risk checks are reduced to what decides the outcome: mode, kill switch,
whether the signal passes the checks on its own data (`Tradable`), and a
nondeterministic `fit` for those that depend on the portfolio. `placed`, `acked`
and `raced` are history variables; no action reads them.

`OrderBook` is what the gateway promises about each signal's order, without
files, locks or requests. `ImplementsOrderBook` is the refinement: the order and
the result of a signal are looked up in the two files.

### IdeaLifecycle, IdeaLifecycleProofs

`apply_idea_lifecycle` (`idea_lifecycle.py:609-701`) as the load of the active
file, the load of the archive with the whole computation, and three steps per
save: opening (and truncating) `<file>.tmp`, writing it, renaming it. The name of
the temporary file is fixed, so requests share it: a file opened by one request
may be truncated, renamed under another's hands (`fd` follows the handle) or be
gone at the rename (`ReplaceFails`). `Torn` stands for content that is not JSON;
`_load` turns it into the fallback. Levels and prices are small naturals,
an `idea_id` is the pair of symbol and number of the call that opened it, and a
live idea is either tradable with a setup or `Wait`. One live idea per symbol
is assumed, which is what the signal generator returns.

### SignalValidation, SignalProofs

`validate_many` over the catalog as the scheduler loop and GET requests run it:
`Look` (is there a final result?), `Load` (candles, period filter, simulation),
`ReadItems` and `SaveItems` (the two halves of `_persist`), `SaveAudit`. `Walk` is
one iteration of `_simulate`. `world.stamped` says whether `_dt` can parse the time of a
candle. In the application it is FALSE: every loader stores integer epoch
seconds (`main.py:335`, `5428`, `5549`), which `datetime.fromisoformat` rejects;
TRUE describes a provider with ISO times, as the unit tests use. Scores, RR,
excursions and the aggregate metrics are left out; `force` is passed by nobody.
`crossed` and `missed` are history: validators during whose work another one saved, and
ideas validated on a load that had lost candles of their period.

### PaperPosition, SignalProofs

One position as `PositionManager.update` (`position_manager.py:14-43`) walks it
over the loaded candles, one action per way through the loop body: `Expire`,
`StayPending`, `Enter`, `Manage`; `Finish` is the end of the candles and the
expiry in `rebuild`. Profit is counted for one unit in halves of a price step
because a partial close takes one half. `late` is the comparison of the candle's
time with the expiry: with unparseable candle times it is the clock, which may pass the
expiry between two candles; with parseable ones it is the candle. Each is
monotone.

### SignalPipeline, SignalProofs

One symbol from candles to a locked idea. `Draw` adds a candle. `Poll` is one
`build_market` (`main.py:3218`): `Plan` is `_build_institutional_signal` (swings,
sweeps, breaks of structure, gaps, levels) with the builder's own
`trade_permission`, `Scored` the scorer that is installed, and then
`apply_idea_lifecycle` closes the active idea or locks the new one. `Install` is the
thread of the recovery patch, which replaces the scorer within 30 seconds of the
start and whose rules for direction, levels and grade differ; `Restart` undoes it.
`PollWithout` is a poll for which the builder raised. Selling is modelled as buying
on the mirrored market. The score's points other than those of direction, levels and
reward/risk are one number of the poll's `world`, with the biases of the higher
timeframes, the trend each scorer falls back to, and the news lock. Rounding of
levels and the 2 points of a target a few pips away are left out.

### SignalRules, SignalProofs

From evidence on a symbol to an approved signal: direction and grade of a
confluence row (`confluence/`), blockers, status and review of an opportunity
(`opportunity_scanner/`), readiness and candidate of a decision
(`decision_engine/`), rules, groups, risk policy and approval of a strategy
(`strategy_builder/evaluator.py`), with what makes the evaluator raise (`Raises`).
Weighted sums are inputs. One rebuild is one step, but for the two writes of
`evaluate_all` (`strategy_engine.py:32`): `EvaluateAll` saves the evaluations and leaves
the approved signals `due`, `SaveApproved` writes them, or never happens because the
process died or the write failed. The collections a rebuild reads may be of any age.

### TradingBooks, TradingBooksProofs

The files of strategies, paper account and portfolio, with the operations of
`Ops` as processes: an operation reads at its start, computes, and writes its files
one after the other. `Group` says which files it writes. `stained`, `age` and
`Settled` are history: what has been written by an operation that met nobody since
the last crash. A paper rebuild takes what `paper_trading/engine.py:26-30` and `41-47`
leave of the approved signals: of each id the first in the file (`OnePerId`), if it
validates and has a side, an entry, a stop and a target (`Tradable`). A position's way
through the candles is `PaperPosition`'s; here it is its `Outcomes`. Which decisions
raise and which are approved is `SignalRules`'s.

### DerivedChain, DerivedChainProofs

Confluence, opportunities, decisions and the strategy evaluation as engines with a
file and a cache each. A call is a stack of frames; a frame advances one file or
cache access at a time, and asks the engine above it for its input, whose `all()` may
answer from cache, from file or by building. `Round` is the scheduler's chain
(`main.py:1575`), `Operate` an OPS rebuild with its cascade
(`_rebuild_*_safely`), `Read` a GET request.

* Opportunities ask confluence first and then load reviews, validation and performance
  themselves (`opportunity_scanner/builder.py:19`), so that one payload rests on two ages
  of the source. A payload is therefore a pair of versions: of the oldest and of the
  newest source in it.
* The strategy evaluation loads the decisions a second time after its writes
  (`strategy_engine.py:33`): `CountDecisions`.
* Confluence and opportunities evaluate the performance of all signals while they are
  built, and so do market state and multi-timeframe. For each outcome that is `finished`
  the evaluation calls `_performance_completion_hook` (`performance/engine.py:37-39`,
  `main.py:1546-1554`), which rebuilds market state, multi-timeframe and the chain below
  in the same thread, inside the build that asked. `Evaluate` is an evaluation without a
  finished outcome, `Hook` pushes the frames of such a cascade on the stack, and errors in
  it end at the hook (`Raise`). The cascade's own builds evaluate again; nothing but
  Python's recursion limit ends this, and `MaxNest` stands for that limit: builds at it
  may raise without counting as failures.

Market state and multi-timeframe are layers only as far as they evaluate and cascade;
what they keep is part of the source. One evaluation, and one hook, stands for the
several of a build, and a cascade for one per finished outcome.

### MarketData, MarketDataProofs

The candles of one symbol and timeframe: pushes in two steps (merge, store), the payload
a list of which only the first `PushMax` entries are taken (`main.py:3717`, before any
sorting), enriching pushes, pruning, and `fetch_candles` step by step from the bridge over the
cache, the in-flight marks, the polling of a marked fetch, the throttle and the two
providers to the fallback. Times are ages. `born` follows how old candles are in fact,
beside the age by which the code judges them.

### Operations, OperationsProofs

What worker threads share besides: a thread handles one call (locked OPS operation,
source change, ideas page, import cycle, maintenance), and a record is the number of
the call that wrote it. The audit file is cut to two different lengths by its two
writers (`OpsCap`, `SourceCap`). `IdeasQueue` and `IdeasSubmit` are the flag and
the hand-over to the executor, which may refuse.

### MediaImport, MediaImportProofs

The registry and the catalogue. An import reads both, asks its sources one by one
(each answers or fails), merges and writes; the import of one source writes a
registry in which only that one is enabled, runs the general import and writes the
copy back in its finally clause. Every write may fail: of the catalogue, and of the
registry before, at the end of, and after an import (`SaveSources`, `WriteSelected`,
`Restore`) or by an editor. A call the process dies in, or whose writing back fails, is
`Cut`. Editors read, ask the network and write. A media item is
its deduplication key; keys are ordered by publication.

`MC*` modules give constants their values; `*.cfg` are the runs. The modules with
structured state have a `TypeOK`. It is a theorem (`TypeCorrect`, and in `SignalProofs` also
`PositionTypes` and `ValidationTypes`) of all of them but `MediaImport`, whose holds when it is
added to its run's configuration and is proved in part (`CatalogLimited`). `SignalProofs` extends the four modules about signals at once,
so that they share its lemmas; that is why the names of these four are distinct
(`PipelineInit`, `RulesInit`, `PositionInit`, `ValidationInit` and so on).

## 3. The runs

All bounds are constants and occur in guards. Runs marked † disable the deadlock
check because a bound ends their behaviours (calls, candles); elsewhere it is on.

| run | shows | bounds and why they are enough |
|---|---|---|
| gateway_locked | `ResultsMatchOrders`, `SettledForEver`, refinement of `OrderBook`; without cancel | two signals (one completes, one fails at the adapter), both modes, all faults, 3 results: a dispatch over two orders, and one after a crash between its writes |
| gateway_all | `UniqueOrders`, `KillSwitchHonoured`, `PlacingIsSafe`, and `RequestsReturn` under fairness | all operations at once, all faults, one tradable signal and one whose building raises |
| ideas † | `ArchivedOnce`, `NothingLost`, `OneMeaning`, `LockedUntilHit` | two requests and process death, one symbol, four calls: open, close, reopen and a call that overlaps two others; the archive cap of 2 is reached; symmetric requests |
| signal_pipeline | `LockedSound`, `VerdictSound`, `CalmKept` | every market of up to four candles of five shapes (still, wide with its close above or below, rising with a body, rising further) and five worlds of a poll: three candles make a swing or a gap, the fourth sweeps it, breaks it or hits a locked idea; swings of span 1, averages of 2 ranges |
| validation | `UniqueResults`, `ResultsObjective`, `FinalForEver`, and `NewestDecided` under fairness | two overlapping validators with raising loads and death, two ideas (one without levels, decided first or last, of either side), every market of three candles of three shapes (the entry alone, every level, the upper level alone: a BUY's target, a SELL's stop), parseable times or not; a load returns two candles, so that one validated late has lost the first |
| paper_walk † | `LossBounded`, `MatchesReference` | 11 signals, every sequence of three candles over five prices: entry, partial close and exit in separate candles or in one |
| signal_rules | `ApprovedIsWorthTrading`, `LevelsOfItsSide`, `PlainApprovalComplete` | evidence at every threshold and one step beyond, reviews of both sides, the three templates of the repository and a permissive strategy; four rebuilds in any order: one more than the chain is long, so that old and new collections mix |
| trading_books † | `FreshIsExact`, `AccountAdds`, `PortfolioOfOneAccount`, `HistoryKept` | six operations, any four of them, overlapping, with one change and one restart; two strategies, an approved signal that can be traded and two that cannot; history of two entries |
| derived_chain | `InOrder`, `CascadeAgrees`, and `Converges` under fairness | the endless scheduler; one call of a client that reads, rebuilds or clears caches, or one source with a finished outcome, whose hook then runs a cascade inside every build (`MaxNest = 1`); one change of the source, one failing build, caches that expire at any time; 1.66 million states, 2.5 minutes. `MaxCalls` bounds endpoint calls and such sources together, because both at once are beyond TLC (20 million states and more): hooks meet the scheduler, its failures and expiring caches here, and everything else in the proofs |
| market_data † | `AgesBounded`, `NewestKept`, `MarksOwned` | two pushes and two fetches of two keys overlapping, payloads in either order, with an entry that is no candle, and one longer than `PushMax = 2` whose newest bar stands last; a store and a cache of one entry, limits that differ by one; symmetric |
| operations † | `AuditKept`, `OneCycle`, `OneRefresh`, and `FlagsCleared` under fairness | two threads, three calls: two overlap and one follows; audit of 1 and 2 records |
| media_import † | `KeptOnFailure`, `Restored` | two importers that overlap (symmetric) and one editor, two sources, three items, three calls, each write failing or not; 4.5 million states, 2 minutes |

Every property has a mutant: a definition with a plausible bug (the operators named
`X_...` before `X`) under which TLC finds the property violated. No run expects a
violation; where the code does something its documents or tests say it does not, the
properties except exactly that case and section 6 describes it.

## 4. Fairness

`ExecutionGateway!FairSpec`: every step of a request in progress is weakly fair
(threads keep running, a waiting thread gets the lock when it stays free), while
requests, faults and restarts are not. `RequestsReturn` is conditional on no new
requests because nothing limits how often clients call.
`SignalValidation!FairValidation`: the clock goes on and each validator keeps running;
the scheduler loop restarts it every 15 minutes whatever happened
(`main.py:1568-1579`). `NewestDecided` is conditional on loads that stop raising and
a process that stops dying: each ends a cycle, and nothing limits how often.
`DerivedChain!FairSpec`: calls in progress go on and the scheduler starts rounds again
(its loop catches what a round raises); endpoints owe nothing. That a call ends although
its hooks start cascades is the recursion limit's doing (`MaxNest`), not an assumption of
fairness; in the program it takes a number of builds exponential in that limit.
`Operations!FairSpec`: each thread's call goes on and so does the refresh worker;
calls are not owed.

## 5. The proofs

Eight `*Proofs` modules prove, for every value of the constants, every safety invariant
and every action property that the runs check on small instances, and the refinement of
`OrderBook`; what is left to TLC alone is listed at the end of this section. A proof rests
on what it needs of the module's type invariant, on an inductive invariant made of named
parts, with a step for each action, and on the assumptions the module names.

**ExecutionGatewayProofs**: every set of signals, requested operations, modes and
faults.

* `LockInv` says who holds `GATEWAY_LOCK` in which step: without it two builds could
  append to the same snapshot. `UniqueInv`: the order file and every copy in memory
  hold one order per signal, and what a builder is about to append is not in its copy.
  `KillInv` relates file, acknowledged value and the copy of a dispatch. `ResultInv`:
  the result list of a dispatch extends the file as long as it is going to be
  written. `PlacingInv`: queued orders, on disk and in memory, are of tradable signals,
  and a placing dispatch passed the checks. Together, `IInv`.
* `OrdersUnique`, `KillSwitchKept` and `PlacingSafe` follow from `IInv`;
  `ResultsKept`, that no recorded result is dropped or changed, is proved only.
* Where cancel is not requested (`Cancel \notin Ops`; section 6 says what a cancel
  undoes): `CopyInv`, that the copies of the lock holder extend the file and agree with it
  on settled orders, gives `Settled`; `AgreeInv`, that the results on file and in memory
  are those of settled orders, one each, gives `ResultsMatch`.
* `ImplementsBook`, under the same condition, is the refinement: initial states map to
  `Book!Init`, and each action to one step of `OrderBook` or to a stutter. An order is
  built when its build saves, settled by the write of the order file and its result recorded by the
  write of the result file; all else stutters.

**IdeaLifecycleProofs**: any requests, symbols, levels, prices and archive cap.

* `IdsHaveOneMeaning`: `Claims` collects every copy of an id with its levels, on disk, in
  temporary files and in the memory of requests. `OneSetup` says they agree; it is
  inductive because a request that has not yet computed owns a number nothing
  bears (`FreshCall`). Torn files and overlaps only take claims away.
* `ResultsCountOnce`, `IdeasDoNotVanish`, `IdeasAreLocked` speak of histories in which
  no two requests met, with the process dying at any step. `AloneInv` says what one request
  has computed and not yet saved accounts for all that is on disk (`Computed`), so that a
  death between the two saves loses nothing; `OpenedKept` follows an opened idea
  through that interval.

**SignalProofs**: the four modules about signals. It begins with what their proofs share.
The library's induction theorems take an operator, which the provers here cannot
instantiate; its `WFMin`, that a well-founded relation has minimal elements, does not.
From it come `LeastOf`, `Induction` (a set of naturals that has 0 and every successor is
`Nat`), the least and greatest members of finite sets (`MinMember`, `MaxMember`), and that
a fold over a finite set exists and is unique (`FoldExists`, `FoldUnique`, `ListFold`).
With these, what a fold computes for inputs of any length can be proved.

*SignalPipeline*: any candles, windows, conditions of a poll and moments at which the
scorer is replaced.

* `LockedIdeasSound` and `AllowedIsSound`. `PipelineInv` holds both properties, for an idea is
  locked by the poll that scored it. The lemmas follow the levels through the code: an
  average of true ranges is not negative and is the same on the mirrored market
  (`AtrForm`; a SELL is the BUY of that market); the last swing is a candle of the list
  (`SwingsInside`); outside of a gap the stop lies below the close, and unless the market
  stood still the target 1.1 times the risk or more beyond it (`BuyLevelsForm`,
  `BuyFallbackForm`); what the first scorer left, the patch keeps (`ScoredLevels`).
* `CalmMarketKeeps`: `PipelineInv` adds that an idea that survived a poll is not hit by the
  price that poll saw. Both scorers see the same price of the same market and conditions
  (`Price`), and a sound idea is not hit by its own entry (`SoundUnhit`).

*PaperPosition*: any signals with any number of targets, any candles.

* `LossIsBounded`: `Safe` positions are untouched, with the stop and the size they began
  with, or secured: a target was taken at a profit, and what is left has its stop at the
  entry. `TargetsKeep` carries any set closed under one target through the fold over all of
  them, whatever the list.
* `PositionTypes`: the type invariant, which is a part of the invariant.
* `WalkIsReference`: `ReferenceInv` says that before the entry no candle seen held it,
  while the position is open none since the entry held its stop or target, and that the
  candle that closed it is the first that did.

*SignalRules*: all symbols, evidence, reviews, scores and strategies, any order of
rebuilds.

* `ApprovedWorth`, `ApprovedOnItsSide`, `PlainIsComplete`. No strategy appears in the
  argument: `RulesInv` says that an opportunity comes from a row of evidence of its symbol, a
  decision from such an opportunity, and every saved evaluation is of a decision that is worth
  trading (`WorthDecision`). The lemmas follow one conjunct each up the five modules that
  test it: a directional recommendation needs the score and the side, an actionable status
  excludes contradictory and stale evidence, a ready decision excludes the thin one, and
  a candidate is only taken from a ready decision.
* The approved signals that are `due` satisfy the invariant as those on file do, so that
  nothing is assumed of when, or whether, the second file of an evaluation is written.

*SignalValidation*: every catalog, market, batch, load limit and fault, any number of
overlapping validators.

* `OneResultPerIdea`: the invariant adds to `UniqueResults` that every list a validator is
  about to write is unique too.
* `FinalKept`: a validator that no other's save met (`crossed`) works on an idea only
  while it has no final result, and the list it is about to write differs from the file
  in that idea only.
* `ValidationTypes`: the type invariant, with what a validator has in memory (`FormInv`).
* `OutcomesObjective`: `Replayed` follows the simulation candle by candle: waiting means
  that no candle of the period so far held the entry, entered that one did and none since
  hit a level, and TP or SL that the first to hit has been met; candles before the load lie
  outside the period, unless the idea is `missed`. `HitStays` says that what is drawn later
  leaves the first hit what it was, so that a result computed long ago and written now
  is still right. `WorkInv` keeps a validator at work on ideas of the catalog, and
  `ObjectiveInv` carries the claim through the registry and every copy of it.

**TradingBooksProofs**: any strategies, decisions, outcomes, length of the history, and
any number of operations, changes and restarts.

* `HistoryGrows`: `HistInv` says that what a rebuild read at its start is still in the
  file unless a reset emptied it, which is so because the history is the last file it
  writes and its lock keeps a second rebuild out.
* `FreshFilesExact`, `AccountsAdd`, `PortfolioIsOnePicture` come from `BooksInv`: the files
  of a group nobody is writing, and that the last writer left unstained, agree
  (`QuietInv`); the writes an operation that met nobody has left lead to files that agree
  (`PendingInv`); what an evaluation has found so far is what its strategies approve of the
  decisions done (`EvaluationInv`); a portfolio rebuild that is alone has read the
  balance that is still on file (`AccountInv`). The claim on positions is that they are
  those approvals that can be traded, one of each id (`Taken`). `Agree` states what a group's files say of
  each other. The sum over trades is a fold; the proofs need of it only that it is 0 for
  no trades and that files keep it, never its value.

**DerivedChainProofs**: any threads, calls, failures, changes of the source, finished
outcomes and depth of nesting, in every combination. `ChainInv` is `TypeOK` with
`OrderInv`, `LoneInv` and `EqualInv`; each needs the others.

* `TypeCorrect` includes that a build waits only for the engine right above it or for the
  cascade of its own hook, which lies one level deeper (`Nested`), up to the limit, and
  that a call that ends or raises leaves no lock and no rest of its cascades.
* `FilesInOrder`: `OrderInv` adds to `InOrder` what a frame holds half-way: a layer being
  rebuilt answers nothing from its cache, a payload about to be written is no newer
  than what the engine above has on file (or the NO_DATA of an engine without a file), but
  for what opportunities read themselves, and one about to be cached is what its own file
  holds. It is vacuous once calls met or a hook ran, until a complete lone cascade.
* `CascadesAgree`: `LoneInv` says how far a cascade that met nobody has come: the layers
  above the one it rebuilds hold one version, and their caches that or nothing
  (`Above`), and what its own frame is about to write (`Holds`). While an outcome is
  finished the source rests, so that this one version is the source's (`Written`) and
  whatever a cascade inside writes again is the same. At its last write the files agree,
  and `EqualInv` keeps that until the next call begins, which is
  also why `FilesInOrder` holds again.

**MarketDataProofs**: any bars, pushes, fetches, keys and limits.

* `NewestAbsorbs`: trimming at every push keeps what trimming once at the end would; with
  it `StoreKeepsNewest` follows from `WriterInv`: unless writers met, what the one push
  between merge and write holds is all that was heard. Heard is what pushes take of their
  payloads.
* `MarksHaveOwners`: `Owns` names the steps at which a fetch stands behind its mark.
* `AnswersAsOldAsTheySay`: `AgeInv` bounds how old candles are in the store, in each cache
  entry and in a fetch's hand, each by the age the code sees.

**OperationsProofs**: any threads, names, caps, calls and restarts.

* `CyclesExclude` from `CycleInv`: the flag is set while a thread is past its test.
* `RefreshesExclude` from `RefreshInv`: one thread about to submit or one job, and
  the flag set meanwhile. The test and the setting of this flag are one step under
  `MARKET_IDEAS_REFRESH_LOCK`, so no exception for a race is needed.
* `AuditComplete` from `AuditInv`: what the one writer has read is what the file holds,
  and the file is the end of all that was written, `OpsCap` records of it at least.

**MediaImportProofs**: any importers, editors, sources, media and limits.

* `SourcesRestored`: an import of one source is over only when the registry is as it found
  it, whichever write on the way failed; excepted are other writers in between and calls
  that were cut. `Sane` says of each importer that while nobody else has written the
  registry (`alone`), what it read, or is about to read, as the original is the registry
  it found (`before`), and that it is never idle: only `Restore` ends it.
* `MediaKeptOnFailure`: `MediaInv` says that no source has more items in the catalogue than
  the limit allows (`Sparse`), and `Sane` the same of what each importer has read and that
  what it is about to write is the merge of it. So the items of a source that did not
  answer are within its limit when the merge is balanced, and none is cut.
* `CatalogLimited`: the catalogue holds at most `Limit` items of each source, however imports
  overlap, fail and die; it follows from `Sparse`, which counts from every item on, at the
  oldest one (`LeastOf`).

Assumptions. Every theorem holds under the named ASSUMEs of its module, which TLC evaluates in
the run: bounds and caps are naturals; the names of operations, symbols and threads
do not collide with the markers used beside them (`NamesAssumption`, `NoneAssumption`,
`ChainAssumption`); `NoFile` and `Torn` are no contents a file may have
(`ContentAssumption`); a process meets finitely many symbols, bars and cache keys
(`SymbolsAssumption`, `FiniteAssumption`); limits are ordered as in the code
(`LimitsAssumption`, `CapsAssumption`); levels, evidence and outcomes have their ranges;
the candles of a validation have natural prices (`BarsAssumption`); those of the pipeline have
their open and close between low and high, and averages and swings look at one
candle at least (`PipelineAssumption`); the operation of an importer is not an editor's.

What the proofs found. `VerdictSound` as it was first stated is false in general: with a gap
of the right width the entry lies beyond the stop, the scorers then disagree about the
side, and no instance TLC was given drew such a gap; it now excepts gap entries, as
`LockedSound` did. `ResultsObjective` is false when a load no longer holds the beginning of
an idea's period, which a bound on the load above the number of candles had hidden: the load
is now shorter in the run, and the property excepts the ideas that met it. `KeptOnFailure`
needed the names of importers and editors to differ, and an exception for overlapping
imports, which the run now has.

Only model-checked, and why:

* liveness (`RequestsReturn`, `NewestDecided`, `Converges`, `FlagsCleared`): fairness and
  ENABLED are out of the prover's reach;
* the rest of `MediaImport`'s type invariant: that the registry never names a source twice
  needs what `SelectSeq`, which the deletion of a source uses, does to lists of any length.

## 6. Limits of what holds

Many properties hold only under a condition that is part of their statement. What
the code does outside it follows from the lines named here.

Execution gateway
* A dispatch writes back the kill switch it read at its start
  (`execution_gateway.py:56`): a set_kill in between is undone.
* A cancel that overlaps a dispatch (58) writes back the list it read: an order that
  was completed is queued again and may be placed twice.

Ideas
* Two overlapping polls drop or replace an active idea that hit nothing, lose a
  closed one, or tear a file, which the next call reads as empty.

Signals and scores
* The recovery patch (installed by `core/env.py:47`) looks for SELL or BEAR before BUY
  in the concatenation of action, biases and reason. A BUY built on a swept low has
  "sweep=sell-side" in its reason (`main.py:5102`); it becomes a SELL with the levels
  of the BUY, as does any BUY with a bearish H1 bias. The patch does not allow it, but
  grades it by its score alone (B from 55), and `_is_tradable_idea` accepts a grade:
  the idea is locked, and the next poll archives it as a TP that the market never made.
* `_with_advisor_compat_fields` (`idea_lifecycle.py:389`) takes an idea for allowed if
  the builder's own `trade_permission` says so, which compares distances whatever the
  sides: an idea both scorers block is opened and shown to the MT4 expert as
  permitted.
* A built signal has no price; `price_of` (494) takes its entry. A locked idea is
  therefore judged by the entries of signals built later, not by the market.
* In a gap the entry may lie beyond the stop, and in a market that did not move at all
  entry, stop and target are rounded to one price: both are permitted and locked. With the
  entry of a gap the first scorer may allow the side the builder did not choose.
  `LockedSound` is about the other ideas, whose two sides also agree, and `VerdictSound`
  says nothing of the side of a gap entry.
* The prop desk filter runs after the lifecycle (`main.py:3224-3225`): what it blocks
  has been locked already. Its stop-loss cool-down reads `closed_at`, the archive
  writes `closed_at_utc`.

Validation
* An idea looked at before the market reached its entry, target or stop is expired
  for good, although its period goes on (`signal_validation.py:115`).
* `load_ohlc` keeps candles whose time it cannot parse (102), so with the integer times
  of the application's own loaders candles from before the publication, or after the
  expiry, decide an idea. A load that is shorter than the period (500 candles are
  not for M1, a day has 1440) hides the first hit.
* Of two overlapping validators the later write drops the result the other one saved
  (264-265).
* A cycle takes the first 50 ideas, decided or not (150): an undecided older one is
  never looked at again.

Paper trading
* A position that `update` made EXPIRED falls through to the stop and target code at
  the next candle (`position_manager.py:21-27`) and may return a trade, which is booked.
* When the last of several targets is filled (34-35) the position is CLOSED, but unless
  a candle touches the moved stop no trade is returned: its profit reaches neither the
  balance nor the statistics.

Strategies and decisions
* The evaluator raises on a decision without a candidate (`evaluator.py:63`), or with
  warnings when its filters match (53). One such decision ends `evaluate_all` for all
  strategies and nothing is saved: the gateway keeps trading the last approved signals.
  `tests/test_strategy_builder_stage30.py` expects WATCH_ONLY.
* A win rate of 0 is read as none and 50 as no validation. `required: false` inside an
  ALL group is mandatory all the same. A disabled rule counts as passed, so that a
  NONE group with one fails.
* Evaluations are saved before the approved signals (`strategy_engine.py:32`): a death or a
  failed write in between leaves the files of two evaluations, until the next one.
* An approval with warnings may lack a stop, a target or a side; paper trading skips it,
  and of several signals of one id all but the first (`paper_trading/engine.py:41-47`).

Derived engines
* `all(force=True)` of opportunities and decisions answers from the cache all the same.
* A slow reader stores the payload it read before a rebuild in the cache after it. When
  the cache has expired, `all()` reads the file again and never rebuilds it.
* The endpoint that rebuilds confluence does not cascade, and the scheduler takes no
  OPS lock, so both chains may run at once.
* A finished outcome makes every build run whole cascades inside itself, which evaluate
  the same outcome again (`main.py:1546`): the nesting ends when the recursion limit is
  hit, whose errors loaders and hooks swallow, after a number of builds exponential in it.
  `CascadeAgrees` and `Converges` hold of what is left on disk if it ends. `InOrder`
  is not claimed of such histories until a complete cascade that met nobody, and a
  cascade during which the source changed and an outcome was finished, before or after the
  change, is not counted as one that met nobody.
* Opportunities read reviews, validation and performance later than the confluence they
  are built from, so they, decisions and signals may know a later source than confluence:
  `InOrder` and `CascadeAgrees` leave that out of what they compare with confluence.

Market data
* Pushes of rich fields, pushes without a bar, and the analytics bridge refresh
  `updated_at` without new candles; a stale bridge answer (up to 7 days) is cached as new
  (5325). Answers are then older than their label.
* Of two overlapping pushes the later store drops the bars of the first (3764). The
  store is iterated while pushes insert (496, 4099, 5290), which may raise.
* Two fetches may pass the in-flight test (5691) together. The provider's interval is
  kept only when nobody else asked during the sleep (5214), and retries do not wait.
* `README.md:282` of the platform speaks of 600 bars per item; the cap is 300. It is taken
  of a payload before it is sorted (3717): of a longer one in ascending order the newest
  bars are dropped. `NewestKept` is about the bars that pushes take.

Operations
* Two overlapping writers of the audit file, or of the automation's notifications, lose
  a record. `README.md:860` says the latest 200 are kept; a source change keeps 300.
* If the executor refuses a job (3385) the refresh flag stays set until a restart.
* Two import cycles both pass the test of `_running` if neither has set it yet
  (`media_automation.py:74-76`), and the first to end clears it. "New" items handed to
  the review are the first N of the catalogue (104-108).

Media import
* An import of one source merges with the others disabled: their media leave the
  catalogue (`README.md:778` and `:941` say they stay). A crash before its finally clause
  leaves them disabled, as does a failed write in it (`media_import_engine.py:1109`), and
  the clause writes back a copy that drops concurrent edits.
* Overlapping imports overwrite each other's catalogue: one that read it before the other
  wrote takes back what that one wrote.
* A source that answers with fewer items than before loses the older ones.

## 7. Not modelled, and the plan

* Trade idea service: the routes that refresh and close trade ideas are not mounted by
  `main.py`, and its `_apply_updates` refers to a name it does not define (`cls`, around
  line 1487). What `main.py` does call builds text or reads.
* Transcripts, LLM reviews, knowledge graph, consensus, author intelligence,
  performance, market state, multi-timeframe, options and order-flow analytics, news:
  text, external models and floating-point sums recomputed from their inputs. Their
  engines cache and store as `DerivedChain` models it.
* In modelled components: the weights of scores, explanations, statistics, the manual
  development mode and provider migration of the media import, and the wrappers that
  `sitecustomize.py` installs in development.
* HTTP and WebSocket clients of providers: a nondeterministic answer.
* Business trip agents, the legacy `backend/` package, MT4 experts and browser pages:
  other programs or other languages. The other runtime patches change text.

Next, in order of worth:

1. `SignalPipeline`: levels rounded to the symbol's precision, and the cool-down of the
   prop desk filter.
2. The review of new items as a step of the import cycle in `Operations`.
3. What market state and multi-timeframe keep, as further files of `DerivedChain`.
