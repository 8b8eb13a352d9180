----------------------------- MODULE MarketData -----------------------------
(***************************************************************************)
(* The candles of one symbol and timeframe (src/app/main.py): the store    *)
(* the MetaTrader bridge pushes into, the candle cache in front of the     *)
(* external providers, the marks of fetches in flight, and the throttle    *)
(* of the provider.  Handlers run in worker threads and on the event loop, *)
(* and share these dictionaries without a lock.                            *)
(*                                                                         *)
(* Times are kept as ages: `age` is the time since updated_at, and `born`, *)
(* which no code reads, the time since the newest of the candles came from *)
(* the terminal or from a provider; it is Unknown once updated_at was      *)
(* refreshed by something that brought no candle.  An age stops growing    *)
(* beyond the limit it is compared with.                                   *)
(***************************************************************************)
EXTENDS Integers, Sequences, FiniteSets, FiniteSetsExt

CONSTANTS
    Pushers,        \* concurrent calls of the push endpoints
    Fetchers,       \* concurrent calls of fetch_candles
    Keys,           \* cache keys symbol:tf:limit of this symbol and timeframe
    Bars,           \* bar times
    MaxBars,        \* MT4_CANDLE_STORE_MAX_BARS
    PushMax,        \* entries of a payload that are looked at (300)
    Sent,           \* payloads of /api/mt4/push-candles: lists of bars, and None for
                    \* an entry that is no candle
    BridgeFresh,    \* MT4_BRIDGE_FRESH_SECONDS
    PruneAge,       \* MT4_CANDLE_STORE_STALE_SECONDS
    BridgeMax,      \* MT4_CANDLE_STALE_MAX_SECONDS
    CacheTtl,       \* candle_ttl_for_tf
    CacheMax,       \* STALE_CANDLE_CACHE_TTL_SECONDS
    MaxCached,      \* MAX_CANDLE_CACHE_ITEMS
    MinInterval,    \* PROVIDER_MIN_INTERVAL_SECONDS["twelvedata"]
    PollMax,        \* polls of the cache by a fetch that found a mark
    MaxPushes, MaxTouches, MaxFetches,   \* bounds on the calls of a run
    None, Unknown

ASSUME BarsAreTimes == Bars \subseteq Nat \ {0}
ASSUME PayloadsAssumption == \A sent \in Sent : sent \in Seq(Bars \cup {None})
ASSUME LimitsAssumption ==
    /\ {BridgeFresh, PruneAge, BridgeMax, CacheTtl, CacheMax} \subseteq Nat
    /\ {MaxBars, PushMax, MaxCached, MinInterval, PollMax} \subseteq Nat \ {0}
    /\ BridgeFresh <= PruneAge /\ PruneAge <= BridgeMax /\ CacheTtl <= CacheMax
\* A process meets finitely many bars and cache keys.
ASSUME FiniteAssumption == IsFiniteSet(Bars) /\ IsFiniteSet(Keys)
ASSUME NoneAssumption ==
    /\ None \notin Keys
    /\ None \notin [age : Int, born : Int \cup {Unknown}, bars : SUBSET Bars]
    /\ None \notin [age : Int, born : Int \cup {Unknown}]
    /\ Unknown \notin Int

VARIABLES
    store,      \* MT4_CANDLE_STORE: the item of the symbol, or None
    cache,      \* CANDLE_CACHE: [Keys -> payload or None]
    inFlight,   \* IN_FLIGHT_FETCHES: the keys marked
    sinceLast,  \* time since PROVIDER_LAST_REQUEST_AT, up to MinInterval
    pusher,     \* the push handlers: the candles they have merged
    fetcher,    \* the calls of fetch_candles
    pushes, touches, fetches,   \* calls made so far
    heard       \* history: the newest bars taken since the store's item was
                \* created; Unknown once two writers met or it was seeded

vars == <<store, cache, inFlight, sinceLast, pusher, fetcher,
          pushes, touches, fetches, heard>>

Old == BridgeMax + CacheMax + 1
Older(a, limit) == IF a # Unknown /\ a < limit THEN a + 1 ELSE a

(* The newest MaxBars of a set of bars: sort by time, keep the tail. *)
Newest(bars) == {b \in bars : Cardinality({c \in bars : c > b}) < MaxBars}

Statuses == {"real", "stale", "fresh", "live", "stale_cache", "empty"}
(* An answer being built: where its candles come from and how old they are. *)
Hand(status, born) == [status |-> status, born |-> born]
NoHand == Hand("empty", 0)

IdlePusher == [pc |-> "idle", merged |-> {}, brought |-> FALSE]
IdleFetcher == [pc |-> "idle", key |-> None, hand |-> NoHand, seeds |-> FALSE,
                polls |-> 0, rest |-> 0]

Init ==
    /\ store = None
    /\ cache = [k \in Keys |-> None]
    /\ inFlight = {}
    /\ sinceLast = MinInterval
    /\ pusher = [p \in Pushers |-> IdlePusher]
    /\ fetcher = [f \in Fetchers |-> IdleFetcher]
    /\ pushes = 0 /\ touches = 0 /\ fetches = 0
    /\ heard = {}

-----------------------------------------------------------------------------
(* The store. *)

StoredBars == IF store = None THEN {} ELSE store.bars

(* _prune_stale_mt4_store for this symbol. *)
Expired == store # None /\ store.age > PruneAge

(* A push has merged its candles and not yet stored them. *)
Busy(p) == pusher[p].pc = "merged"

(* Mutant: a push that replaces the stored candles. *)
PushRead_Replaces(p, bars) ==
    /\ ~Busy(p) /\ pushes < MaxPushes
    /\ pushes' = pushes + 1
    /\ pusher' = [pusher EXCEPT ![p] =
                    [pc |-> "merged", brought |-> bars # {}, merged |-> Newest(bars)]]
    /\ heard' = IF heard = Unknown \/ \E q \in Pushers : Busy(q) THEN Unknown
                ELSE Newest(heard \cup bars)
    /\ UNCHANGED <<store, cache, inFlight, sinceLast, fetcher, touches, fetches>>

(* A push takes its bars: they are merged with the stored ones before the  *)
(* store is pruned and the item replaced.                                  *)
PushRead(p, bars) ==
    /\ ~Busy(p) /\ pushes < MaxPushes
    /\ pushes' = pushes + 1
    /\ pusher' = [pusher EXCEPT ![p] =
                    [pc |-> "merged", brought |-> bars # {},
                     merged |-> Newest(StoredBars \cup bars)]]
    /\ heard' = IF heard = Unknown \/ \E q \in Pushers : Busy(q) THEN Unknown
                ELSE Newest(heard \cup bars)
    /\ UNCHANGED <<store, cache, inFlight, sinceLast, fetcher, touches, fetches>>

(* /api/mt4/ingest-get with one bar, or none when it has no time.          *)
IngestGet(p, bar) == PushRead(p, {bar} \ {None})

(* The first PushMax entries are looked at, in the order of the payload.   *)
Taken(sent) == {sent[i] : i \in {j \in DOMAIN sent : j <= PushMax}} \ {None}

(* A payload without a valid candle is refused. *)
PushCandles(p, sent) == Taken(sent) # {} /\ PushRead(p, Taken(sent))

(* Prune, then _merge_mt4_store_item with the merged candles: updated_at   *)
(* is now, whether or not the push brought a bar.                          *)
PushMerge(p) ==
    /\ Busy(p)
    /\ store' = [age |-> 0, born |-> IF pusher[p].brought THEN 0 ELSE Unknown,
                 bars |-> pusher[p].merged]
    /\ pusher' = [pusher EXCEPT ![p] = IdlePusher]
    /\ UNCHANGED <<cache, inFlight, sinceLast, fetcher, pushes, touches, fetches, heard>>

(* /api/mt4/volume-clusters and /api/mt4/options-levels: rich fields only; *)
(* the candles stay and updated_at becomes now.  The item is copied and    *)
(* put back within a few statements, one step here.                        *)
RichMerge ==
    /\ touches < MaxTouches
    /\ touches' = touches + 1
    /\ store' = [age |-> 0, born |-> Unknown, bars |-> StoredBars]
    /\ UNCHANGED <<cache, inFlight, sinceLast, pusher, fetcher, pushes, fetches, heard>>

(* A push of another symbol, or /api/debug/memory, prunes this one. *)
Prune ==
    /\ Expired
    /\ store' = None
    /\ heard' = IF heard = Unknown \/ \E p \in Pushers : Busy(p) THEN Unknown ELSE {}
    /\ UNCHANGED <<cache, inFlight, sinceLast, pusher, fetcher, pushes, touches, fetches>>

-----------------------------------------------------------------------------
(* The candle cache. *)

(* Mutant: the cache forgets to look at the age. *)
CachedWithin_AnyAge(k, age) == cache[k] # None

CachedWithin(k, age) == cache[k] # None /\ cache[k].age <= age

(* set_cached_candle_payload and trim_candle_cache: over the limit the     *)
(* oldest entries go (the sort is stable; ties are any order here).        *)
Kept(c) ==
    LET held == {j \in Keys : c[j] # None} IN
    IF Cardinality(held) <= MaxCached THEN {c}
    ELSE {[j \in Keys |-> IF j \in out THEN None ELSE c[j]] :
            out \in {s \in kSubset(Cardinality(held) - MaxCached, held) :
                        \A i \in s, j \in held \ s : c[i].age >= c[j].age}}

SetCached(k, hand) ==
    cache' \in Kept([cache EXCEPT ![k] =
                        [age |-> 0, born |-> hand.born]])

(* /api/ops/cache/clear empties the cache, and with it the marks and the   *)
(* provider's last request.                                                *)
ClearCaches ==
    /\ cache' = [k \in Keys |-> None]
    /\ inFlight' = {}
    /\ sinceLast' = MinInterval
    /\ UNCHANGED <<store, pusher, fetcher, pushes, touches, fetches, heard>>

-----------------------------------------------------------------------------
(* fetch_candles. *)

At(f, pc) == fetcher[f].pc = pc
Goto(f, pc) == fetcher' = [fetcher EXCEPT ![f].pc = pc]
Answer(f, pc, hand) == fetcher' = [fetcher EXCEPT ![f].pc = pc, ![f].hand = hand]
FromCache(f, status) == Hand(status, cache[fetcher[f].key].born)

(* fetch_mt4_pushed_candles: within BridgeFresh "real", up to BridgeMax    *)
(* "stale", nothing beyond.                                                *)
BridgeHas == StoredBars # {} /\ store.age <= BridgeMax
BridgeStatus == IF store.age <= BridgeFresh THEN "real" ELSE "stale"

(* `seeds`: called by the analytics bridge, which found no stored candles. *)
FetchBegin(f, k, seeds) ==
    /\ At(f, "idle") /\ fetches < MaxFetches
    /\ seeds => StoredBars = {}
    /\ fetches' = fetches + 1
    /\ fetcher' = [fetcher EXCEPT ![f] =
          [pc |-> IF BridgeHas THEN "keep" ELSE "cache", key |-> k,
           hand |-> IF BridgeHas THEN Hand(BridgeStatus, store.born) ELSE NoHand,
           seeds |-> seeds, polls |-> 0, rest |-> 0]]
    /\ UNCHANGED <<store, cache, inFlight, sinceLast, pusher, pushes, touches,
                   heard>>

(* A fresh payload of the cache, else a look at the marks. *)
FetchLook(f) ==
    /\ At(f, "cache")
    /\ \/ /\ CachedWithin(fetcher[f].key, CacheTtl)
          /\ Answer(f, "done", FromCache(f, "fresh"))
       \/ /\ ~CachedWithin(fetcher[f].key, CacheTtl)
          /\ Goto(f, IF fetcher[f].key \in inFlight THEN "poll" ELSE "mark")
    /\ UNCHANGED <<store, cache, inFlight, sinceLast, pusher, pushes, touches,
                   fetches, heard>>

(* Someone is fetching: poll the cache PollMax times, then take a stale    *)
(* payload, then fetch as well.                                            *)
FetchPoll(f) ==
    /\ At(f, "poll")
    /\ \/ /\ fetcher[f].polls < PollMax
          /\ CachedWithin(fetcher[f].key, CacheTtl)
          /\ Answer(f, "done", FromCache(f, "fresh"))
       \/ /\ fetcher[f].polls < PollMax
          /\ ~CachedWithin(fetcher[f].key, CacheTtl)
          /\ fetcher' = [fetcher EXCEPT ![f].polls = @ + 1]
       \/ /\ fetcher[f].polls = PollMax
          /\ CachedWithin(fetcher[f].key, CacheMax)
          /\ Answer(f, "done", FromCache(f, "stale_cache"))
       \/ /\ fetcher[f].polls = PollMax
          /\ ~CachedWithin(fetcher[f].key, CacheMax)
          /\ Goto(f, "mark")
    /\ UNCHANGED <<store, cache, inFlight, sinceLast, pusher, pushes, touches,
                   fetches, heard>>

(* The mark, then throttle_provider reads the time of the last request. *)
FetchMark(f) ==
    /\ At(f, "mark")
    /\ inFlight' = inFlight \cup {fetcher[f].key}
    /\ fetcher' = [fetcher EXCEPT ![f].pc = "sleep", ![f].polls = 0,
                                  ![f].rest = MinInterval - sinceLast]
    /\ UNCHANGED <<store, cache, sinceLast, pusher, pushes, touches, fetches,
                   heard>>

(* throttle_provider slept and writes the time of its request. *)
FetchWake(f) ==
    /\ At(f, "sleep") /\ fetcher[f].rest = 0
    /\ sinceLast' = 0
    /\ Goto(f, "twelvedata")
    /\ UNCHANGED <<store, cache, inFlight, pusher, pushes, touches, fetches,
                   heard>>

(* TwelveData, then Dukascopy: candles, or an error after their retries. *)
FetchAsk(f) ==
    /\ At(f, "twelvedata") \/ At(f, "dukascopy")
    /\ \/ Answer(f, "keep", Hand("live", 0))
       \/ Goto(f, IF At(f, "twelvedata") THEN "dukascopy" ELSE "fallback")
    /\ UNCHANGED <<store, cache, inFlight, sinceLast, pusher, pushes, touches,
                   fetches, heard>>

Marking(f) == fetcher[f].hand.status = "live"

(* Mutant: an answer returned without the finally clause. *)
FetchKeep_LeavesMark(f) ==
    /\ At(f, "keep")
    /\ SetCached(fetcher[f].key, fetcher[f].hand)
    /\ Goto(f, "done")
    /\ UNCHANGED <<store, inFlight, sinceLast, pusher, pushes, touches, fetches, heard>>

(* Candles of the bridge or of a provider go to the cache. *)
FetchKeep(f) ==
    /\ At(f, "keep")
    /\ SetCached(fetcher[f].key, fetcher[f].hand)
    /\ Goto(f, IF Marking(f) THEN "unmark" ELSE "done")
    /\ UNCHANGED <<store, inFlight, sinceLast, pusher, pushes, touches, fetches,
                   heard>>

(* Every source failed: the last payload kept, or nothing. *)
FetchFallback(f) ==
    /\ At(f, "fallback")
    /\ Answer(f, "unmark", IF CachedWithin(fetcher[f].key, CacheMax)
                           THEN FromCache(f, "stale_cache") ELSE NoHand)
    /\ UNCHANGED <<store, cache, inFlight, sinceLast, pusher, pushes, touches,
                   fetches, heard>>

(* The finally clause. *)
FetchUnmark(f) ==
    /\ At(f, "unmark")
    /\ inFlight' = inFlight \ {fetcher[f].key}
    /\ Goto(f, "done")
    /\ UNCHANGED <<store, cache, sinceLast, pusher, pushes, touches, fetches,
                   heard>>

(* The analytics bridge puts what it was given into the store, with        *)
(* updated_at now and over whatever was pushed meanwhile; which bars the   *)
(* payload held is left open.                                              *)
Seeded(f) == fetcher[f].seeds /\ fetcher[f].hand.status # "empty"

FetchReturn(f) ==
    /\ At(f, "done")
    /\ \/ ~Seeded(f) /\ UNCHANGED <<store, heard>>
       \/ /\ Seeded(f)
          /\ \E b \in Bars : store' = [age |-> 0, born |-> Unknown, bars |-> {b}]
          /\ heard' = Unknown
    /\ fetcher' = [fetcher EXCEPT ![f] = IdleFetcher]
    /\ UNCHANGED <<cache, inFlight, sinceLast, pusher, pushes, touches, fetches>>

(* Time passes only while nobody has a step to take at once: a fetch lets  *)
(* time pass polling, in the throttle and asking a provider.               *)
Waiting(f) == fetcher[f].pc \in {"idle", "poll", "sleep", "twelvedata", "dukascopy"}

Tick ==
    /\ \A f \in Fetchers : Waiting(f)
    /\ \A p \in Pushers : ~Busy(p)
    /\ store' = IF store = None THEN None
                ELSE [age |-> Older(store.age, BridgeMax + 1),
                      born |-> Older(store.born, Old), bars |-> store.bars]
    /\ cache' = [k \in Keys |-> IF cache[k] = None THEN None
                    ELSE [age |-> Older(cache[k].age, CacheMax + 1),
                          born |-> Older(cache[k].born, Old)]]
    /\ sinceLast' = Older(sinceLast, MinInterval)
    /\ fetcher' = [f \in Fetchers |->
                    [fetcher[f] EXCEPT !.rest = IF @ > 0 THEN @ - 1 ELSE @]]
    /\ UNCHANGED <<inFlight, pusher, pushes, touches, fetches, heard>>

FetchStep(f) ==
    \/ FetchLook(f) \/ FetchPoll(f) \/ FetchMark(f) \/ FetchWake(f)
    \/ FetchAsk(f) \/ FetchKeep(f) \/ FetchFallback(f) \/ FetchUnmark(f)
    \/ FetchReturn(f)

Next ==
    \/ \E p \in Pushers : \/ \E bar \in Bars \cup {None} : IngestGet(p, bar)
                          \/ \E sent \in Sent : PushCandles(p, sent)
                          \/ PushMerge(p)
    \/ RichMerge \/ Prune \/ ClearCaches
    \/ \E f \in Fetchers : \/ \E k \in Keys, seeds \in BOOLEAN : FetchBegin(f, k, seeds)
                           \/ FetchStep(f)
    \/ Tick

Spec == Init /\ [][Next]_vars

-----------------------------------------------------------------------------
(* Properties. *)

Births == (0..Old) \cup {Unknown}
FewBars == {b \in SUBSET Bars : Cardinality(b) <= MaxBars}
Items == [age : 0..(BridgeMax + 1), born : Births, bars : FewBars]
Payloads == [age : 0..(CacheMax + 1), born : Births]
Pushes == [pc : {"idle", "merged"}, merged : FewBars, brought : BOOLEAN]
Steps == {"idle", "cache", "poll", "mark", "sleep", "twelvedata", "dukascopy",
          "keep", "fallback", "unmark", "done"}
Hands == [status : Statuses, born : Births]
Calls == [pc : Steps, key : Keys \cup {None}, hand : Hands, seeds : BOOLEAN,
          polls : 0..PollMax, rest : 0..MinInterval]
Held == {k \in Keys : cache[k] # None}

(* Every variable has its type: no more than MaxBars candles are stored,   *)
(* no more than MaxCached payloads cached, and a request never rests       *)
(* longer than the provider's interval.                                    *)
TypeOK ==
    /\ store \in {None} \cup Items
    /\ cache \in [Keys -> {None} \cup Payloads] /\ Cardinality(Held) <= MaxCached
    /\ inFlight \subseteq Keys
    /\ sinceLast \in 0..MinInterval
    /\ pusher \in [Pushers -> Pushes]
    /\ fetcher \in [Fetchers -> Calls]

(* How old the candles of an answer may be, by the label it carries: a     *)
(* stale bridge answer is cached as if it were new, so the cache adds its  *)
(* own time to the bridge's.                                               *)
AgeLimit(status) ==
    CASE status = "real" -> BridgeFresh
      [] status = "stale" -> BridgeMax
      [] status = "live" -> 0
      [] status = "fresh" -> BridgeMax + CacheTtl
      [] status = "stale_cache" -> BridgeMax + CacheMax
      [] status = "empty" -> 0

(* The candles of every answer are within the age its label promises, as   *)
(* long as their age was never refreshed without candles (rich fields, a   *)
(* push without a bar, the analytics bridge).                              *)
AgesBounded ==
    \A f \in Fetchers :
        At(f, "done") /\ fetcher[f].hand.born # Unknown =>
            fetcher[f].hand.born <= AgeLimit(fetcher[f].hand.status)

(* While no two writers of the store met, it holds exactly the newest of   *)
(* the bars its pushes took since its item was created, in whatever order  *)
(* they came.  A push takes the first PushMax entries of its payload: what *)
(* stands behind them, be it the newest bar, never reaches the store.      *)
NewestKept ==
    heard # Unknown /\ (\A p \in Pushers : ~Busy(p)) => StoredBars = heard

(* A mark in flight always belongs to a fetch of that key still under way: *)
(* nobody waits for a fetch that ended in an error.                        *)
MarksOwned ==
    \A k \in inFlight : \E f \in Fetchers :
        fetcher[f].key = k /\ ~(fetcher[f].pc \in {"idle", "cache", "poll", "mark", "done"})
=============================================================================
