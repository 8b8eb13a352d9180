-------------------------- MODULE MarketDataProofs --------------------------
(***************************************************************************)
(* Proofs about MarketData for any number of pushes, fetches and cache     *)
(* keys and any limits: what the store keeps of the bars it is pushed, how *)
(* old the candles of an answer are, and who owns a mark in flight.        *)
(***************************************************************************)
EXTENDS MarketData, FiniteSetTheorems, NaturalsInduction, TLAPS

-----------------------------------------------------------------------------
(* Trimming to the newest bars.                                             *)

After(bars, b) == {c \in bars : c > b}

\* Either push endpoint merges some bars; which ones, no invariant below asks.
LEMMA PushTakes ==
  ASSUME NEW p \in Pushers,
         \/ \E bar \in Bars \cup {None} : IngestGet(p, bar)
         \/ \E sent \in Sent : PushCandles(p, sent)
  PROVE  \E bars \in SUBSET Bars : PushRead(p, bars)
<1>1. CASE \E bar \in Bars \cup {None} : IngestGet(p, bar)
  BY <1>1 DEF IngestGet
<1>2. CASE \E sent \in Sent : PushCandles(p, sent)
  <2>1. PICK sent \in Sent : PushCandles(p, sent)
    BY <1>2
  <2>2. sent \in Seq(Bars \cup {None})
    BY PayloadsAssumption
  <2>3. Taken(sent) \in SUBSET Bars
    BY <2>2 DEF Taken
  <2>4. QED BY <2>1, <2>3 DEF PushCandles
<1>3. QED BY <1>1, <1>2

LEMMA AfterFinite ==
  ASSUME NEW A, IsFiniteSet(A), NEW b
  PROVE  IsFiniteSet(After(A, b)) /\ Cardinality(After(A, b)) \in Nat
BY FS_Subset, FS_CardinalityType DEF After

LEMMA NewestFinite ==
  ASSUME NEW A, IsFiniteSet(A)
  PROVE  IsFiniteSet(Newest(A)) /\ Newest(A) \subseteq A
BY FS_Subset DEF Newest

\* A non-empty set of naturals has a smallest member.
LEMMA Smallest ==
  ASSUME NEW S \in SUBSET Nat, S # {}
  PROVE  \E x \in S : \A y \in S : x <= y
<1> DEFINE Below == {0..n : n \in S}
           R == StrictSubsetOrdering(Nat)
           F == FiniteSubsetsOf(Nat)
<1>1. IsWellFoundedOn(R, F)
  BY FS_StrictSubsetOrderingWellFounded
<1>2. Below \in SUBSET F /\ Below # {}
  <2>1. ASSUME NEW n \in S PROVE 0..n \in F
    BY FS_Interval, n \in Nat DEF FiniteSubsetsOf
  <2>2. QED BY <2>1
<1>3. PICK T \in Below : \A U \in Below : ~(<<U, T>> \in R)
  <2> HIDE DEF Below, R, F
  <2> QED BY <1>1, <1>2, WFMin
<1>4. PICK x \in S : T = 0..x
  BY <1>3
<1>5. ASSUME NEW y \in S PROVE x <= y
  <2>1. SUFFICES ASSUME y < x PROVE FALSE
    BY x \in Nat, y \in Nat
  <2>2. 0..y \subseteq 0..x /\ 0..y # 0..x /\ 0..y \subseteq Nat /\ 0..x \subseteq Nat
    <3>1. x \in 0..x /\ x \notin 0..y
      BY <2>1, x \in Nat, y \in Nat
    <3>2. QED BY <2>1, <3>1, x \in Nat, y \in Nat
  <2>3. <<0..y, 0..x>> \in R
    BY <2>2 DEF StrictSubsetOrdering
  <2>4. QED BY <1>3, <1>4, <2>3
<1>6. QED BY <1>5

\* What is cut off is older than MaxBars of the bars that are kept.
LEMMA CutAreOlder ==
  ASSUME NEW A \in SUBSET Nat, IsFiniteSet(A), NEW b \in A, b \notin Newest(A)
  PROVE  /\ Cardinality(After(Newest(A), b)) \in Nat
         /\ Cardinality(After(Newest(A), b)) >= MaxBars
<1> DEFINE cut == After(A, b) \ Newest(A)
           ranks == {Cardinality(After(A, a)) : a \in cut \cup {b}}
<1>1. ranks \in SUBSET Nat /\ ranks # {}
  BY AfterFinite
<1>2. PICK n \in ranks : \A m \in ranks : n <= m
  BY <1>1, Smallest
<1>3. PICK a \in cut \cup {b} : n = Cardinality(After(A, a))
  BY <1>2
<1>4. a \in A /\ a \notin Newest(A) /\ a >= b
  BY <1>3, a \in Nat, b \in Nat DEF After
<1>5. Cardinality(After(A, a)) >= MaxBars /\ Cardinality(After(A, a)) \in Nat
  <2>1. ~(Cardinality(After(A, a)) < MaxBars)
    BY <1>4 DEF Newest, After
  <2>2. QED BY <2>1, AfterFinite, LimitsAssumption
<1>6. ASSUME NEW c \in After(A, a), c \notin Newest(A) PROVE FALSE
  <2>1. c \in A /\ c > a /\ c \in cut
    BY <1>4, <1>6 DEF After
  <2>2. After(A, c) \subseteq After(A, a) /\ c \notin After(A, c)
    <3>1. c \in Nat /\ a \in Nat /\ \A x \in A : x \in Nat
      BY <1>4, <2>1
    <3>2. ASSUME NEW x \in A, x > c PROVE x > a
      BY <2>1, <3>1, <3>2
    <3>3. ~(c > c)
      BY <3>1
    <3>4. QED BY <3>2, <3>3 DEF After
  <2>3. Cardinality(After(A, c)) <= Cardinality(After(A, a))
        /\ (Cardinality(After(A, c)) = Cardinality(After(A, a)) => After(A, c) = After(A, a))
    BY <2>2, AfterFinite, FS_Subset
  <2>4. Cardinality(After(A, c)) < Cardinality(After(A, a))
    BY <1>6, <2>2, <2>3, AfterFinite
  <2>5. Cardinality(After(A, c)) \in ranks
    BY <2>1
  <2>6. QED BY <1>1, <1>2, <1>3, <2>4, <2>5
<1>7. After(A, a) \subseteq After(Newest(A), b)
  <2>1. b \in Nat /\ a \in Nat /\ \A x \in A : x \in Nat
    BY <1>4
  <2>2. ASSUME NEW x \in A, x > a PROVE x > b
    BY <1>4, <2>1, <2>2
  <2>3. QED BY <1>6, <2>2 DEF After
<1>8. IsFiniteSet(After(Newest(A), b)) /\ Cardinality(After(Newest(A), b)) \in Nat
  BY NewestFinite, AfterFinite
<1>9. Cardinality(After(A, a)) <= Cardinality(After(Newest(A), b))
  BY <1>7, <1>8, FS_Subset
<1>10. QED BY <1>5, <1>8, <1>9, LimitsAssumption

\* Trimming at every push keeps what trimming once, at the end, would keep.
THEOREM NewestAbsorbs ==
  ASSUME NEW A \in SUBSET Nat, NEW B \in SUBSET Nat, IsFiniteSet(A), IsFiniteSet(B)
  PROVE  Newest(Newest(A) \cup B) = Newest(A \cup B)
<1>1. /\ IsFiniteSet(A \cup B) /\ IsFiniteSet(Newest(A) \cup B) /\ Newest(A) \subseteq A
  BY FS_Union, NewestFinite
<1>2. ASSUME NEW b \in Newest(A \cup B) PROVE b \in Newest(Newest(A) \cup B)
  <2>1. b \in A \cup B /\ Cardinality(After(A \cup B, b)) < MaxBars
    BY DEF Newest, After
  <2>2. /\ After(A, b) \subseteq After(A \cup B, b)
        /\ After(Newest(A) \cup B, b) \subseteq After(A \cup B, b)
    BY <1>1 DEF After
  <2>3. /\ Cardinality(After(A, b)) <= Cardinality(After(A \cup B, b))
        /\ Cardinality(After(Newest(A) \cup B, b)) <= Cardinality(After(A \cup B, b))
        /\ Cardinality(After(A, b)) \in Nat /\ Cardinality(After(A \cup B, b)) \in Nat
        /\ Cardinality(After(Newest(A) \cup B, b)) \in Nat
    BY <1>1, <2>2, AfterFinite, FS_Subset
  <2>4. /\ Cardinality(After(A, b)) < MaxBars
        /\ Cardinality(After(Newest(A) \cup B, b)) < MaxBars
    BY <2>1, <2>3, LimitsAssumption
  <2>5. QED BY <2>1, <2>4 DEF Newest, After
<1>3. ASSUME NEW b \in Newest(Newest(A) \cup B) PROVE b \in Newest(A \cup B)
  <2>1. b \in Newest(A) \cup B /\ Cardinality(After(Newest(A) \cup B, b)) < MaxBars
    BY DEF Newest, After
  <2>2. CASE After(A, b) \subseteq Newest(A)
    <3>1. After(A \cup B, b) = After(Newest(A) \cup B, b)
      BY <1>1, <2>2 DEF After
    <3>2. QED BY <1>1, <2>1, <3>1 DEF Newest, After
  <2>3. ASSUME NEW a \in After(A, b), a \notin Newest(A) PROVE FALSE
    <3>1. a \in A /\ a > b /\ b \in Nat /\ a \in Nat
      BY <1>1, <2>1 DEF After
    <3>2. /\ Cardinality(After(Newest(A), a)) \in Nat
          /\ Cardinality(After(Newest(A), a)) >= MaxBars
      BY <2>3, <3>1, CutAreOlder
    <3>3. After(Newest(A), a) \subseteq After(Newest(A) \cup B, b)
      <4>1. ASSUME NEW x \in Newest(A), x > a PROVE x > b
        BY <1>1, <3>1, <4>1, x \in Nat
      <4>2. QED BY <4>1 DEF After
    <3>4. /\ Cardinality(After(Newest(A), a)) <= Cardinality(After(Newest(A) \cup B, b))
          /\ Cardinality(After(Newest(A) \cup B, b)) \in Nat
      BY <1>1, <3>3, AfterFinite, FS_Subset
    <3>5. QED BY <2>1, <3>2, <3>4, LimitsAssumption
  <2>4. QED BY <2>2, <2>3
<1>4. QED BY <1>2, <1>3

\* What is kept is no more than MaxBars bars.
LEMMA NewestFew ==
  ASSUME NEW A \in SUBSET Bars
  PROVE  Newest(A) \in FewBars
<1>1. IsFiniteSet(A) /\ A \in SUBSET Nat
  BY BarsAreTimes, FiniteAssumption, FS_Subset
<1>2. IsFiniteSet(Newest(A)) /\ Newest(A) \subseteq A /\ Cardinality(Newest(A)) \in Nat
  BY <1>1, NewestFinite, FS_CardinalityType
<1>3. Cardinality(Newest(A)) <= MaxBars
  <2>1. CASE Newest(A) = {}
    BY <2>1, FS_EmptySet, LimitsAssumption
  <2>2. CASE Newest(A) # {}
    <3>1. PICK b \in Newest(A) : \A c \in Newest(A) : b <= c
      BY <1>1, <1>2, <2>2, Smallest
    <3>2. Newest(A) \ {b} \subseteq After(A, b)
      <4>1. ASSUME NEW c \in Newest(A), c # b PROVE c > b
        BY <1>1, <1>2, <3>1, <4>1, c \in Nat, b \in Nat
      <4>2. QED BY <1>2, <4>1 DEF After
    <3>3. Cardinality(Newest(A) \ {b}) <= Cardinality(After(A, b)) /\ Cardinality(After(A, b)) \in Nat
      BY <1>1, <3>2, AfterFinite, FS_Subset
    <3>4. Cardinality(Newest(A) \ {b}) = Cardinality(Newest(A)) - 1
      BY <1>2, <3>1, FS_RemoveElement
    <3>5. Cardinality(After(A, b)) < MaxBars
      BY <3>1 DEF Newest, After
    <3>6. QED BY <1>2, <3>3, <3>4, <3>5, LimitsAssumption
  <2>3. QED BY <2>1, <2>2
<1>4. QED BY <1>2, <1>3 DEF FewBars

-----------------------------------------------------------------------------
(* How the handlers move.                                                   *)

HasKey == \A f \in Fetchers : fetcher[f].pc # "idle" => fetcher[f].key \in Keys
TypeInv == TypeOK /\ HasKey

Others(f) == \A g \in Fetchers : g # f => fetcher'[g] = fetcher[g]

\* Goto moves one call and changes nothing else of it.
LEMMA GotoMoves ==
  ASSUME TypeOK, NEW f \in Fetchers, NEW pc \in Steps, Goto(f, pc)
  PROVE  /\ fetcher' \in [Fetchers -> Calls]
         /\ fetcher'[f].pc = pc
         /\ fetcher'[f].key = fetcher[f].key
         /\ fetcher'[f].hand = fetcher[f].hand
         /\ Others(f)
<1>1. fetcher[f] \in Calls /\ fetcher \in [Fetchers -> Calls]
  BY DEF TypeOK
<1> DEFINE call == [fetcher[f] EXCEPT !.pc = pc]
<1>2. call \in Calls /\ call.pc = pc /\ call.key = fetcher[f].key /\ call.hand = fetcher[f].hand
  BY <1>1 DEF Calls
<1>3. fetcher' = [fetcher EXCEPT ![f] = call]
  BY DEF Goto
<1> HIDE DEF call
<1>4. QED BY <1>1, <1>2, <1>3 DEF Others

\* Answer moves one call and gives it its candles.
LEMMA AnswerMoves ==
  ASSUME TypeOK, NEW f \in Fetchers, NEW pc \in Steps, NEW hand \in Hands,
         Answer(f, pc, hand)
  PROVE  /\ fetcher' \in [Fetchers -> Calls]
         /\ fetcher'[f].pc = pc
         /\ fetcher'[f].key = fetcher[f].key
         /\ fetcher'[f].hand = hand
         /\ Others(f)
<1>1. fetcher[f] \in Calls /\ fetcher \in [Fetchers -> Calls]
  BY DEF TypeOK
<1> DEFINE call == [[fetcher[f] EXCEPT !.pc = pc] EXCEPT !.hand = hand]
<1>2. call \in Calls /\ call.pc = pc /\ call.key = fetcher[f].key /\ call.hand = hand
  BY <1>1 DEF Calls
<1>3. fetcher' = [fetcher EXCEPT ![f] = call]
  BY <1>1 DEF Answer
<1> HIDE DEF call
<1>4. QED BY <1>1, <1>2, <1>3 DEF Others

\* A payload of the cache makes an answer.
LEMMA CacheAnswers ==
  ASSUME TypeInv, NEW f \in Fetchers, fetcher[f].pc # "idle",
         cache[fetcher[f].key] # None, NEW status \in Statuses
  PROVE  /\ FromCache(f, status) \in Hands
         /\ FromCache(f, status).status = status
         /\ FromCache(f, status).born = cache[fetcher[f].key].born
<1>1. fetcher[f].key \in Keys
  BY DEF TypeInv, HasKey
<1>2. cache[fetcher[f].key] \in Payloads
  BY <1>1 DEF TypeInv, TypeOK
<1>3. QED BY <1>2 DEF FromCache, Hand, Hands, Payloads

LEMMA HandTypes ==
  NoHand \in Hands /\ Hand("live", 0) \in Hands /\ IdleFetcher \in Calls
  /\ IdlePusher \in Pushes
<1>1. 0 \in Births /\ 0 \in 0..PollMax /\ 0 \in 0..MinInterval
  BY LimitsAssumption DEF Births, Old
<1>2. NoHand \in Hands /\ Hand("live", 0) \in Hands
  BY <1>1 DEF NoHand, Hand, Hands, Statuses
<1>3. {} \in FewBars
  BY FS_EmptySet, LimitsAssumption DEF FewBars
<1>4. IdleFetcher \in Calls
  BY <1>1, <1>2 DEF IdleFetcher, Calls, Steps
<1>5. IdlePusher \in Pushes
  BY <1>3 DEF IdlePusher, Pushes
<1>6. QED BY <1>2, <1>4, <1>5

LEMMA StoredType ==
  ASSUME TypeOK
  PROVE  StoredBars \in FewBars /\ (store # None => store \in Items)
<1>1. {} \in FewBars
  BY FS_EmptySet, LimitsAssumption DEF FewBars
<1>2. QED BY <1>1 DEF TypeOK, StoredBars, Items

LEMMA NoneIsNoRecord ==
  None \notin Items /\ None \notin Payloads /\ None \notin Keys
<1>1. Births \subseteq Int \cup {Unknown} /\ FewBars \subseteq SUBSET Bars
      /\ 0..(BridgeMax + 1) \subseteq Int /\ 0..(CacheMax + 1) \subseteq Int
  BY LimitsAssumption DEF Births, Old, FewBars
<1>2. Items \subseteq [age : Int, born : Int \cup {Unknown}, bars : SUBSET Bars]
  BY <1>1 DEF Items
<1>3. Payloads \subseteq [age : Int, born : Int \cup {Unknown}]
  BY <1>1 DEF Payloads
<1>4. QED BY <1>2, <1>3, NoneAssumption

\* What trimming the cache leaves: payloads it had, and no more than MaxCached.
LEMMA KeptIsTrimmed ==
  ASSUME NEW c \in [Keys -> {None} \cup Payloads], NEW d \in Kept(c)
  PROVE  /\ d \in [Keys -> {None} \cup Payloads]
         /\ \A j \in Keys : d[j] = None \/ d[j] = c[j]
         /\ Cardinality({j \in Keys : d[j] # None}) <= MaxCached
<1> DEFINE held == {j \in Keys : c[j] # None}
           n == Cardinality(held)
<1>1. IsFiniteSet(held) /\ n \in Nat
  BY FiniteAssumption, FS_Subset, FS_CardinalityType
<1>2. CASE n <= MaxCached
  <2>1. d = c
    BY <1>2 DEF Kept
  <2>2. QED BY <1>2, <2>1
<1>3. CASE ~(n <= MaxCached)
  <2>1. PICK out \in kSubset(n - MaxCached, held) :
          d = [j \in Keys |-> IF j \in out THEN None ELSE c[j]]
    BY <1>3 DEF Kept
  <2>2. out \subseteq held /\ Cardinality(out) = n - MaxCached
    BY DEF kSubset
  <2>3. {j \in Keys : d[j] # None} = held \ out
    BY <2>1, <2>2
  <2>4. held \cap out = out
    BY <2>2
  <2>5. Cardinality(held \ out) = n - (n - MaxCached)
    <3>1. Cardinality(held \ out) = Cardinality(held) - Cardinality(held \cap out)
      BY <1>1, FS_Difference
    <3>2. QED BY <2>2, <2>4, <3>1
  <2>6. n - (n - MaxCached) = MaxCached
    BY <1>1, LimitsAssumption
  <2>7. Cardinality({j \in Keys : d[j] # None}) <= MaxCached
    BY <2>3, <2>5, <2>6, LimitsAssumption
  <2>8. QED BY <2>1, <2>7
<1>4. QED BY <1>2, <1>3

LEMMA OlderType ==
  ASSUME NEW limit \in Nat, NEW a \in 0..limit
  PROVE  Older(a, limit) \in 0..limit
BY NoneAssumption DEF Older

LEMMA BirthOlderType ==
  ASSUME NEW b \in Births
  PROVE  Older(b, Old) \in Births
BY LimitsAssumption DEF Older, Births, Old

\* A call of fetch_candles: every step keeps its type and its key.
LEMMA CallsTyped ==
  ASSUME TypeInv, NEW f \in Fetchers,
         (\E k \in Keys, seeds \in BOOLEAN : FetchBegin(f, k, seeds)) \/ FetchStep(f)
  PROVE  /\ fetcher' \in [Fetchers -> Calls]
         /\ Others(f)
         /\ fetcher'[f].pc # "idle" => fetcher'[f].key \in Keys
<1>1. /\ fetcher \in [Fetchers -> Calls] /\ fetcher[f] \in Calls /\ TypeOK
      /\ fetcher[f].pc # "idle" => fetcher[f].key \in Keys
  BY DEF TypeInv, TypeOK, HasKey
<1> DEFINE Done == /\ fetcher' \in [Fetchers -> Calls]
                   /\ Others(f)
                   /\ fetcher'[f].pc # "idle" => fetcher'[f].key \in Keys
<1> SUFFICES Done OBVIOUS
<1>2. ASSUME NEW pc \in Steps, fetcher[f].pc # "idle", Goto(f, pc) PROVE Done
  BY <1>1, <1>2, GotoMoves
<1>3. ASSUME NEW pc \in Steps, NEW hand \in Hands, fetcher[f].pc # "idle", Answer(f, pc, hand)
      PROVE Done
  BY <1>1, <1>3, AnswerMoves
<1>4. ASSUME NEW call \in Calls, fetcher' = [fetcher EXCEPT ![f] = call],
             call.pc # "idle" => call.key \in Keys
      PROVE Done
  BY <1>1, <1>4 DEF Others
<1> HIDE DEF Done
<1>5. CASE \E k \in Keys, seeds \in BOOLEAN : FetchBegin(f, k, seeds)
  <2>1. PICK k \in Keys, seeds \in BOOLEAN : FetchBegin(f, k, seeds)
    BY <1>5
  <2> DEFINE pc == IF BridgeHas THEN "keep" ELSE "cache"
             hand == IF BridgeHas THEN Hand(BridgeStatus, store.born) ELSE NoHand
             call == [pc |-> pc, key |-> k, hand |-> hand, seeds |-> seeds,
                      polls |-> 0, rest |-> 0]
  <2>2. hand \in Hands
    <3>1. CASE BridgeHas
      <4>1. store # None
        BY <3>1 DEF BridgeHas, StoredBars
      <4>2. store.born \in Births
        BY <1>1, <4>1, StoredType DEF Items
      <4>3. QED BY <3>1, <4>2 DEF Hand, Hands, BridgeStatus, Statuses
    <3>2. QED BY <3>1, HandTypes
  <2>3. fetcher' = [fetcher EXCEPT ![f] = call]
    BY <2>1 DEF FetchBegin
  <2>4. pc \in Steps
    BY DEF Steps
  <2>5. 0 \in 0..PollMax /\ 0 \in 0..MinInterval
    BY LimitsAssumption
  <2> HIDE DEF pc, hand
  <2>6. call \in Calls /\ call.key \in Keys
    BY <2>2, <2>4, <2>5 DEF Calls
  <2> HIDE DEF call
  <2>7. QED BY <1>4, <2>3, <2>6
<1>6. CASE FetchLook(f)
  <2>1. fetcher[f].pc # "idle"
    BY <1>6 DEF FetchLook, At
  <2>2. CASE CachedWithin(fetcher[f].key, CacheTtl) /\ Answer(f, "done", FromCache(f, "fresh"))
    <3>1. FromCache(f, "fresh") \in Hands /\ "done" \in Steps
      BY <2>1, <2>2, CacheAnswers DEF CachedWithin, Statuses, Steps
    <3>2. QED BY <1>3, <2>1, <2>2, <3>1
  <2>3. CASE Goto(f, "poll") \/ Goto(f, "mark")
    BY <1>2, <2>1, <2>3 DEF Steps
  <2>4. QED BY <1>6, <2>2, <2>3 DEF FetchLook
<1>7. CASE FetchPoll(f)
  <2>1. fetcher[f].pc # "idle"
    BY <1>7 DEF FetchPoll, At
  <2>2. CASE CachedWithin(fetcher[f].key, CacheTtl) /\ Answer(f, "done", FromCache(f, "fresh"))
    <3>1. FromCache(f, "fresh") \in Hands /\ "done" \in Steps
      BY <2>1, <2>2, CacheAnswers DEF CachedWithin, Statuses, Steps
    <3>2. QED BY <1>3, <2>1, <2>2, <3>1
  <2>3. CASE CachedWithin(fetcher[f].key, CacheMax) /\ Answer(f, "done", FromCache(f, "stale_cache"))
    <3>1. FromCache(f, "stale_cache") \in Hands /\ "done" \in Steps
      BY <2>1, <2>3, CacheAnswers DEF CachedWithin, Statuses, Steps
    <3>2. QED BY <1>3, <2>1, <2>3, <3>1
  <2>4. CASE fetcher[f].polls < PollMax /\ fetcher' = [fetcher EXCEPT ![f].polls = @ + 1]
    <3> DEFINE call == [fetcher[f] EXCEPT !.polls = @ + 1]
    <3>1. fetcher[f].polls + 1 \in 0..PollMax
      BY <1>1, <2>4, LimitsAssumption DEF Calls
    <3>2. call \in Calls /\ call.key = fetcher[f].key
      BY <1>1, <3>1 DEF Calls
    <3>3. fetcher' = [fetcher EXCEPT ![f] = call]
      BY <2>4
    <3> HIDE DEF call
    <3>4. QED BY <1>1, <1>4, <2>1, <3>2, <3>3
  <2>5. CASE Goto(f, "mark")
    BY <1>2, <2>1, <2>5 DEF Steps
  <2>6. QED BY <1>7, <2>2, <2>3, <2>4, <2>5 DEF FetchPoll
<1>8. CASE FetchMark(f)
  <2> DEFINE call == [[[fetcher[f] EXCEPT !.pc = "sleep"] EXCEPT !.polls = 0]
                        EXCEPT !.rest = MinInterval - sinceLast]
  <2>1. MinInterval - sinceLast \in 0..MinInterval /\ 0 \in 0..PollMax
    BY <1>1, LimitsAssumption DEF TypeOK
  <2>2. call \in Calls /\ call.key = fetcher[f].key
    BY <1>1, <2>1 DEF Calls, Steps
  <2>3. fetcher' = [fetcher EXCEPT ![f] = call]
    BY <1>1, <1>8 DEF FetchMark
  <2>4. fetcher[f].pc # "idle"
    BY <1>8 DEF FetchMark, At
  <2> HIDE DEF call
  <2>5. QED BY <1>1, <1>4, <2>2, <2>3, <2>4
<1>9. CASE FetchWake(f)
  BY <1>2, <1>9 DEF FetchWake, At, Steps
<1>10. CASE FetchAsk(f)
  <2>1. fetcher[f].pc # "idle"
    BY <1>10 DEF FetchAsk, At
  <2>2. CASE Answer(f, "keep", Hand("live", 0))
    BY <1>3, <2>1, <2>2, HandTypes DEF Steps
  <2>3. CASE Goto(f, "dukascopy") \/ Goto(f, "fallback")
    BY <1>2, <2>1, <2>3 DEF Steps
  <2>4. QED BY <1>10, <2>2, <2>3 DEF FetchAsk
<1>11. CASE FetchKeep(f)
  <2>1. fetcher[f].pc # "idle"
    BY <1>11 DEF FetchKeep, At
  <2>2. Goto(f, "unmark") \/ Goto(f, "done")
    BY <1>11 DEF FetchKeep
  <2>3. QED BY <1>2, <2>1, <2>2 DEF Steps
<1>12. CASE FetchFallback(f)
  <2>1. fetcher[f].pc # "idle"
    BY <1>12 DEF FetchFallback, At
  <2>2. CASE CachedWithin(fetcher[f].key, CacheMax)
    <3>1. FromCache(f, "stale_cache") \in Hands /\ "unmark" \in Steps
      BY <2>1, <2>2, CacheAnswers DEF CachedWithin, Statuses, Steps
    <3>2. Answer(f, "unmark", FromCache(f, "stale_cache"))
      BY <1>12, <2>2 DEF FetchFallback
    <3>3. QED BY <1>3, <2>1, <3>1, <3>2
  <2>3. CASE ~CachedWithin(fetcher[f].key, CacheMax)
    <3>1. Answer(f, "unmark", NoHand)
      BY <1>12, <2>3 DEF FetchFallback
    <3>2. QED BY <1>3, <2>1, <3>1, HandTypes DEF Steps
  <2>4. QED BY <2>2, <2>3
<1>13. CASE FetchUnmark(f)
  BY <1>2, <1>13 DEF FetchUnmark, At, Steps
<1>14. CASE FetchReturn(f)
  <2>1. IdleFetcher.pc = "idle"
    BY DEF IdleFetcher
  <2>2. QED BY <1>4, <1>14, <2>1, HandTypes DEF FetchReturn
<1>15. QED
  BY <1>5, <1>6, <1>7, <1>8, <1>9, <1>10, <1>11, <1>12, <1>13, <1>14 DEF FetchStep

\* The type invariant, with the key every call under way has, is inductive.
LEMMA TypeInductive ==
  TypeInv /\ [Next]_vars => TypeInv'
<1> SUFFICES ASSUME TypeInv, [Next]_vars PROVE TypeInv'
  OBVIOUS
<1> DEFINE StoreOK == store \in {None} \cup Items
           CacheOK == cache \in [Keys -> {None} \cup Payloads] /\ Cardinality(Held) <= MaxCached
           MarksOK == inFlight \subseteq Keys /\ sinceLast \in 0..MinInterval
           PushersOK == pusher \in [Pushers -> Pushes]
           CallsOK == fetcher \in [Fetchers -> Calls] /\ HasKey
<1>0. TypeInv <=> StoreOK /\ CacheOK /\ MarksOK /\ PushersOK /\ CallsOK
  BY DEF TypeInv, TypeOK
<1>0a. TypeInv' <=> StoreOK' /\ CacheOK' /\ MarksOK' /\ PushersOK' /\ CallsOK'
  BY DEF TypeInv, TypeOK
<1>1. TypeOK /\ StoreOK /\ CacheOK /\ MarksOK /\ PushersOK /\ CallsOK
  BY <1>0 DEF TypeInv
<1>2. /\ UNCHANGED store => StoreOK'
      /\ UNCHANGED cache => CacheOK'
      /\ UNCHANGED <<inFlight, sinceLast>> => MarksOK'
      /\ UNCHANGED pusher => PushersOK'
      /\ UNCHANGED fetcher => CallsOK'
  BY <1>1 DEF Held, HasKey
<1>3. /\ 0 \in 0..(BridgeMax + 1) /\ 0 \in 0..(CacheMax + 1) /\ 0 \in Births
      /\ Unknown \in Births
  BY LimitsAssumption DEF Births, Old
<1>4. ASSUME NEW p \in Pushers, NEW bars \in SUBSET Bars, PushRead(p, bars) PROVE TypeInv'
  <2>1. Newest(StoredBars \cup bars) \in FewBars
    <3>1. StoredBars \subseteq Bars
      BY <1>1, StoredType DEF FewBars
    <3>2. QED BY <3>1, NewestFew
  <2>2. [pc |-> "merged", brought |-> bars # {}, merged |-> Newest(StoredBars \cup bars)] \in Pushes
    BY <2>1 DEF Pushes
  <2>3. PushersOK'
    BY <1>1, <1>4, <2>2 DEF PushRead
  <2>4. QED BY <1>0a, <1>2, <1>4, <2>3 DEF PushRead
<1>5. ASSUME NEW p \in Pushers, PushMerge(p) PROVE TypeInv'
  <2>1. PushersOK'
    BY <1>1, <1>5, HandTypes DEF PushMerge
  <2>2. pusher[p].merged \in FewBars
    BY <1>1 DEF Pushes
  <2>3. StoreOK'
    BY <1>3, <1>5, <2>2 DEF PushMerge, Items
  <2>4. QED BY <1>0a, <1>2, <1>5, <2>1, <2>3 DEF PushMerge
<1>6. CASE RichMerge
  <2>1. StoreOK'
    BY <1>1, <1>3, <1>6, StoredType DEF RichMerge, Items
  <2>2. QED BY <1>0a, <1>2, <1>6, <2>1 DEF RichMerge
<1>7. CASE Prune
  BY <1>0a, <1>2, <1>7 DEF Prune
<1>8. CASE ClearCaches
  <2>1. Held' = {}
    BY <1>8 DEF ClearCaches, Held
  <2>2. CacheOK'
    BY <1>8, <2>1, FS_EmptySet, LimitsAssumption DEF ClearCaches
  <2>3. MarksOK'
    BY <1>8, LimitsAssumption DEF ClearCaches
  <2>4. QED BY <1>0a, <1>2, <1>8, <2>2, <2>3 DEF ClearCaches
<1>9. ASSUME NEW f \in Fetchers,
             (\E k \in Keys, seeds \in BOOLEAN : FetchBegin(f, k, seeds)) \/ FetchStep(f)
      PROVE TypeInv'
  <2>1. CallsOK'
    BY <1>1, <1>9, CallsTyped DEF Others, HasKey
  <2>2. fetcher[f].pc # "idle" => fetcher[f].key \in Keys
    BY <1>1 DEF HasKey
  <2>3. CASE \E k \in Keys, seeds \in BOOLEAN : FetchBegin(f, k, seeds)
    BY <1>0a, <1>2, <2>1, <2>3 DEF FetchBegin
  <2>4. CASE FetchLook(f) \/ FetchPoll(f) \/ FetchAsk(f) \/ FetchFallback(f)
    BY <1>0a, <1>2, <2>1, <2>4 DEF FetchLook, FetchPoll, FetchAsk, FetchFallback
  <2>5. CASE FetchMark(f)
    <3>1. MarksOK'
      BY <1>1, <2>2, <2>5 DEF FetchMark, At
    <3>2. QED BY <1>0a, <1>2, <2>1, <2>5, <3>1 DEF FetchMark
  <2>6. CASE FetchWake(f)
    <3>1. MarksOK'
      BY <1>1, <2>6, LimitsAssumption DEF FetchWake
    <3>2. QED BY <1>0a, <1>2, <2>1, <2>6, <3>1 DEF FetchWake
  <2>7. CASE FetchKeep(f)
    <3> DEFINE k == fetcher[f].key
               paid == [age |-> 0, born |-> fetcher[f].hand.born]
    <3>1. k \in Keys /\ paid \in Payloads
      <4>1. fetcher[f].hand.born \in Births
        BY <1>1 DEF Calls, Hands
      <4>2. QED BY <1>3, <2>2, <2>7, <4>1 DEF FetchKeep, At, Payloads
    <3>2. cache' \in Kept([cache EXCEPT ![k] = paid])
      BY <2>7 DEF FetchKeep, SetCached
    <3>3. [cache EXCEPT ![k] = paid] \in [Keys -> {None} \cup Payloads]
      BY <1>1, <3>1
    <3>4. CacheOK'
      BY <3>2, <3>3, KeptIsTrimmed DEF Held
    <3>5. QED BY <1>0a, <1>2, <2>1, <2>7, <3>4 DEF FetchKeep
  <2>8. CASE FetchUnmark(f)
    <3>1. MarksOK'
      BY <1>1, <2>8 DEF FetchUnmark
    <3>2. QED BY <1>0a, <1>2, <2>1, <2>8, <3>1 DEF FetchUnmark
  <2>9. CASE FetchReturn(f)
    <3>1. ASSUME NEW b \in Bars PROVE {b} \in FewBars
      BY FS_Singleton, LimitsAssumption DEF FewBars
    <3>2. StoreOK'
      <4>1. CASE UNCHANGED store
        BY <1>2, <4>1
      <4>2. CASE \E b \in Bars : store' = [age |-> 0, born |-> Unknown, bars |-> {b}]
        BY <1>3, <3>1, <4>2 DEF Items
      <4>3. QED BY <2>9, <4>1, <4>2 DEF FetchReturn
    <3>3. QED BY <1>0a, <1>2, <2>1, <2>9, <3>2 DEF FetchReturn
  <2>10. QED
    BY <1>9, <2>3, <2>4, <2>5, <2>6, <2>7, <2>8, <2>9 DEF FetchStep
<1>10. CASE Tick
  <2>1. BridgeMax + 1 \in Nat /\ CacheMax + 1 \in Nat /\ MinInterval \in Nat
    BY LimitsAssumption
  <2>2. StoreOK'
    <3>1. CASE store = None
      BY <1>10, <3>1 DEF Tick
    <3>2. CASE store # None
      <4>1. /\ store.age \in 0..(BridgeMax + 1) /\ store.born \in Births
            /\ store.bars \in FewBars
        BY <1>1, <3>2 DEF Items
      <4>2. /\ Older(store.age, BridgeMax + 1) \in 0..(BridgeMax + 1)
            /\ Older(store.born, Old) \in Births
        BY <2>1, <4>1, OlderType, BirthOlderType
      <4>3. QED BY <1>10, <3>2, <4>1, <4>2 DEF Tick, Items
    <3>3. QED BY <3>1, <3>2
  <2>3. CacheOK'
    <3>1. ASSUME NEW k \in Keys, cache[k] # None
          PROVE cache'[k] \in Payloads
      <4>1. cache[k].age \in 0..(CacheMax + 1) /\ cache[k].born \in Births
        BY <1>1, <3>1 DEF Payloads
      <4>2. /\ Older(cache[k].age, CacheMax + 1) \in 0..(CacheMax + 1)
            /\ Older(cache[k].born, Old) \in Births
        BY <2>1, <4>1, OlderType, BirthOlderType
      <4>3. cache'[k] = [age |-> Older(cache[k].age, CacheMax + 1),
                         born |-> Older(cache[k].born, Old)]
        BY <1>10, <3>1 DEF Tick
      <4>4. QED BY <4>2, <4>3 DEF Payloads
    <3>2. cache' = [k \in Keys |-> cache'[k]] /\ \A k \in Keys : cache[k] = None => cache'[k] = None
      BY <1>10 DEF Tick
    <3>3. cache' \in [Keys -> {None} \cup Payloads]
      BY <3>1, <3>2
    <3>4. Held' = Held
      BY <3>1, <3>2, NoneIsNoRecord DEF Held
    <3>5. QED BY <1>1, <3>3, <3>4
  <2>4. MarksOK'
    BY <1>1, <1>10, <2>1, OlderType DEF Tick
  <2>5. CallsOK'
    <3>1. ASSUME NEW f \in Fetchers
          PROVE /\ fetcher'[f] \in Calls
                /\ fetcher'[f].pc = fetcher[f].pc /\ fetcher'[f].key = fetcher[f].key
      <4>1. fetcher[f] \in Calls
        BY <1>1
      <4>2. fetcher'[f] = [fetcher[f] EXCEPT !.rest = IF @ > 0 THEN @ - 1 ELSE @]
        BY <1>10 DEF Tick
      <4>3. (IF fetcher[f].rest > 0 THEN fetcher[f].rest - 1 ELSE fetcher[f].rest) \in 0..MinInterval
        BY <4>1, LimitsAssumption DEF Calls
      <4>4. QED BY <4>1, <4>2, <4>3 DEF Calls
    <3>2. fetcher' = [f \in Fetchers |-> fetcher'[f]]
      BY <1>10 DEF Tick
    <3>3. QED BY <1>1, <3>1, <3>2 DEF HasKey
  <2>6. QED BY <1>0a, <1>2, <1>10, <2>2, <2>3, <2>4, <2>5 DEF Tick
<1>11. CASE UNCHANGED vars
  BY <1>0a, <1>2, <1>11 DEF vars
<1>12. QED
  BY <1>4, <1>5, <1>6, <1>7, <1>8, <1>9, <1>10, <1>11, PushTakes DEF Next

LEMMA InitTypes ==
  Init => TypeInv
<1> SUFFICES ASSUME Init PROVE TypeInv
  OBVIOUS
<1>1. Held = {}
  BY DEF Init, Held
<1>2. Cardinality(Held) <= MaxCached
  BY <1>1, FS_EmptySet, LimitsAssumption
<1>3. MinInterval \in 0..MinInterval /\ IdleFetcher.pc = "idle"
  BY LimitsAssumption DEF IdleFetcher
<1>4. QED BY <1>2, <1>3, HandTypes DEF Init, TypeInv, TypeOK, HasKey

\* Every variable keeps its type: the store never holds more than MaxBars
\* candles and the cache never more than MaxCached payloads, however many
\* pushes and fetches interleave.
THEOREM TypeCorrect == Spec => []TypeOK
<1>1. TypeInv => TypeOK
  BY DEF TypeInv
<1>2. QED
  BY <1>1, InitTypes, TypeInductive, PTL DEF Spec

-----------------------------------------------------------------------------
(* Marks in flight.                                                         *)

Underway == {"sleep", "twelvedata", "dukascopy", "fallback", "unmark"}

\* What stands behind a mark: a call of its key on its way to the finally
\* clause, an answer of a provider included and one of the bridge not.
Owns(f, k) ==
  /\ fetcher[f].key = k
  /\ fetcher[f].pc \in Underway \/ (fetcher[f].pc = "keep" /\ Marking(f))

MarkInv == TypeInv /\ \A k \in inFlight : \E f \in Fetchers : Owns(f, k)

\* A call that owns its mark keeps it until it takes it back.
LEMMA OwnerKeeps ==
  ASSUME TypeInv, NEW f \in Fetchers, NEW k \in Keys, Owns(f, k), FetchStep(f)
  PROVE  Owns(f, k)' \/ (FetchUnmark(f) /\ fetcher[f].key = k)
<1>1. TypeOK /\ fetcher[f].key = k
  BY DEF TypeInv, Owns
<1>2. CASE FetchLook(f) \/ FetchPoll(f) \/ FetchMark(f) \/ FetchReturn(f)
  BY <1>2 DEF FetchLook, FetchPoll, FetchMark, FetchReturn, At, Owns, Underway
<1>3. CASE FetchWake(f)
  <2>1. Goto(f, "twelvedata")
    BY <1>3 DEF FetchWake
  <2>2. fetcher'[f].pc = "twelvedata" /\ fetcher'[f].key = k
    BY <1>1, <2>1, GotoMoves DEF Steps
  <2>3. QED BY <2>2 DEF Owns, Underway
<1>4. CASE FetchAsk(f)
  <2>1. CASE Answer(f, "keep", Hand("live", 0))
    <3>1. /\ fetcher'[f].pc = "keep" /\ fetcher'[f].key = k
          /\ fetcher'[f].hand = Hand("live", 0)
      BY <1>1, <2>1, AnswerMoves, HandTypes DEF Steps
    <3>2. QED BY <3>1 DEF Owns, Marking, Hand
  <2>2. ASSUME NEW pc \in {"dukascopy", "fallback"}, Goto(f, pc) PROVE Owns(f, k)'
    <3>1. fetcher'[f].pc = pc /\ fetcher'[f].key = k
      BY <1>1, <2>2, GotoMoves DEF Steps
    <3>2. QED BY <3>1 DEF Owns, Underway
  <2>3. QED BY <1>4, <2>1, <2>2 DEF FetchAsk
<1>5. CASE FetchKeep(f)
  <2>1. Marking(f)
    BY <1>5 DEF FetchKeep, At, Owns, Underway
  <2>2. Goto(f, "unmark")
    BY <1>5, <2>1 DEF FetchKeep
  <2>3. fetcher'[f].pc = "unmark" /\ fetcher'[f].key = k
    BY <1>1, <2>2, GotoMoves DEF Steps
  <2>4. QED BY <2>3 DEF Owns, Underway
<1>6. CASE FetchFallback(f)
  <2>1. fetcher[f].pc # "idle"
    BY <1>6 DEF FetchFallback, At
  <2>2. PICK hand \in Hands : Answer(f, "unmark", hand)
    <3>1. CASE CachedWithin(fetcher[f].key, CacheMax)
      <4>1. FromCache(f, "stale_cache") \in Hands
        BY <2>1, <3>1, CacheAnswers DEF CachedWithin, Statuses
      <4>2. QED BY <1>6, <3>1, <4>1 DEF FetchFallback
    <3>2. CASE ~CachedWithin(fetcher[f].key, CacheMax)
      BY <1>6, <3>2, HandTypes DEF FetchFallback
    <3>3. QED BY <3>1, <3>2
  <2>3. fetcher'[f].pc = "unmark" /\ fetcher'[f].key = k
    BY <1>1, <2>2, AnswerMoves DEF Steps
  <2>4. QED BY <2>3 DEF Owns, Underway
<1>7. CASE FetchUnmark(f)
  BY <1>1, <1>7
<1>8. QED
  BY <1>2, <1>3, <1>4, <1>5, <1>6, <1>7 DEF FetchStep

LEMMA MarkInductive ==
  MarkInv /\ [Next]_vars => MarkInv'
<1> SUFFICES ASSUME MarkInv, [Next]_vars PROVE MarkInv'
  OBVIOUS
<1>1. TypeInv /\ TypeInv' /\ \A k \in inFlight : k \in Keys /\ \E f \in Fetchers : Owns(f, k)
  BY TypeInductive DEF MarkInv, TypeInv, TypeOK
<1>2. SUFFICES ASSUME NEW k \in inFlight' PROVE \E f \in Fetchers : Owns(f, k)'
  BY <1>1 DEF MarkInv
<1>3. CASE UNCHANGED <<inFlight, fetcher>>
  BY <1>1, <1>3 DEF Owns, Marking
<1>4. CASE ClearCaches
  BY <1>4 DEF ClearCaches
<1>5. CASE Tick
  <2>1. k \in inFlight
    BY <1>5 DEF Tick
  <2>2. PICK f \in Fetchers : Owns(f, k)
    BY <1>1, <2>1
  <2>3. fetcher[f] \in Calls
    BY <1>1 DEF TypeInv, TypeOK
  <2>4. fetcher'[f] = [fetcher[f] EXCEPT !.rest = IF @ > 0 THEN @ - 1 ELSE @]
    BY <1>5 DEF Tick
  <2>5. /\ fetcher'[f].pc = fetcher[f].pc /\ fetcher'[f].key = fetcher[f].key
        /\ fetcher'[f].hand = fetcher[f].hand
    BY <2>3, <2>4 DEF Calls
  <2>6. QED BY <2>2, <2>5 DEF Owns, Marking
<1>6. ASSUME NEW g \in Fetchers,
             (\E j \in Keys, seeds \in BOOLEAN : FetchBegin(g, j, seeds)) \/ FetchStep(g)
      PROVE \E f \in Fetchers : Owns(f, k)'
  <2>1. Others(g)
    BY <1>1, <1>6, CallsTyped
  <2>2. CASE k \notin inFlight
    <3>1. FetchMark(g) /\ k = fetcher[g].key
      BY <1>2, <1>6, <2>2 DEF FetchBegin, FetchStep, FetchLook, FetchPoll, FetchMark,
        FetchWake, FetchAsk, FetchKeep, FetchFallback, FetchUnmark, FetchReturn
    <3>2. fetcher[g] \in Calls /\ fetcher \in [Fetchers -> Calls]
      BY <1>1 DEF TypeInv, TypeOK
    <3> DEFINE call == [[[fetcher[g] EXCEPT !.pc = "sleep"] EXCEPT !.polls = 0]
                          EXCEPT !.rest = MinInterval - sinceLast]
    <3>3. fetcher' = [fetcher EXCEPT ![g] = call]
      BY <3>1, <3>2 DEF FetchMark
    <3>4. fetcher'[g].pc = "sleep" /\ fetcher'[g].key = k
      BY <3>1, <3>2, <3>3 DEF Calls
    <3>5. QED BY <3>4 DEF Owns, Underway
  <2>3. CASE k \in inFlight
    <3>1. PICK f \in Fetchers : Owns(f, k)
      BY <1>1, <2>3
    <3>2. CASE f # g
      BY <2>1, <3>1, <3>2 DEF Others, Owns, Marking
    <3>3. CASE f = g
      <4>1. FetchStep(g)
        BY <1>6, <3>1, <3>3 DEF FetchBegin, At, Owns, Underway
      <4>2. ~(FetchUnmark(g) /\ fetcher[g].key = k)
        BY <1>2 DEF FetchUnmark
      <4>3. QED BY <1>1, <2>3, <3>1, <3>3, <4>1, <4>2, OwnerKeeps
    <3>4. QED BY <3>2, <3>3
  <2>4. QED BY <2>2, <2>3
<1>7. QED
  <2>1. CASE \E p \in Pushers : \/ \E bars \in SUBSET Bars : PushRead(p, bars)
                                \/ PushMerge(p)
    BY <1>3, <2>1 DEF PushRead, PushMerge
  <2>2. CASE RichMerge \/ Prune \/ UNCHANGED vars
    BY <1>3, <2>2 DEF RichMerge, Prune, vars
  <2>3. QED BY <1>4, <1>5, <1>6, <2>1, <2>2, PushTakes DEF Next

\* A mark in flight always belongs to a fetch of its key still under way, also
\* when the caches are cleared in the middle or two calls fetch the same key.
THEOREM MarksHaveOwners == Spec => []MarksOwned
<1>1. Init => MarkInv
  <2> SUFFICES ASSUME Init PROVE MarkInv
    OBVIOUS
  <2>1. Init => TypeInv
    BY InitTypes
  <2>2. QED BY <2>1 DEF Init, MarkInv
<1>2. MarkInv => MarksOwned
  BY DEF MarkInv, MarksOwned, Owns, Underway
<1>3. QED
  BY <1>1, <1>2, MarkInductive, PTL DEF Spec

-----------------------------------------------------------------------------
(* The candles of the store.                                                *)

Quiet == \A p \in Pushers : ~Busy(p)

\* While no two writers met, at most one push is between its merge and its
\* write; what it merged is what was heard, as is the store between pushes.
WriterInv ==
  heard # Unknown =>
    /\ \A p, q \in Pushers : Busy(p) /\ Busy(q) => p = q
    /\ \A p \in Pushers : Busy(p) => pusher[p].merged = heard
    /\ Quiet => StoredBars = heard

LEMMA WriterInductive ==
  TypeInv /\ WriterInv /\ [Next]_vars => WriterInv'
<1> SUFFICES ASSUME TypeInv, WriterInv, [Next]_vars, heard' # Unknown PROVE WriterInv'
  BY DEF WriterInv
<1>1. pusher \in [Pushers -> Pushes]
  BY DEF TypeInv, TypeOK
<1>2. CASE UNCHANGED <<heard, pusher, StoredBars>>
  BY <1>2 DEF WriterInv, Busy, Quiet
<1>3. ASSUME NEW p \in Pushers, NEW bars \in SUBSET Bars, PushRead(p, bars) PROVE WriterInv'
  <2>1. heard # Unknown /\ Quiet /\ heard' = Newest(heard \cup bars)
    BY <1>3 DEF PushRead, Quiet
  <2>2. StoredBars = heard
    BY <2>1 DEF WriterInv
  <2> DEFINE push == [pc |-> "merged", brought |-> bars # {},
                      merged |-> Newest(StoredBars \cup bars)]
  <2>3. pusher' = [pusher EXCEPT ![p] = push]
    BY <1>3 DEF PushRead
  <2>4. \A q \in Pushers : Busy(q)' <=> q = p
    BY <1>1, <2>1, <2>3 DEF Busy, Quiet
  <2>5. pusher'[p].merged = heard'
    BY <1>1, <2>1, <2>2, <2>3
  <2> HIDE DEF push
  <2>6. QED BY <2>4, <2>5 DEF WriterInv, Quiet
<1>4. ASSUME NEW p \in Pushers, PushMerge(p) PROVE WriterInv'
  <2>1. Busy(p) /\ heard' = heard /\ heard # Unknown
    BY <1>4 DEF PushMerge
  <2>2. pusher[p].merged = heard
    BY <2>1 DEF WriterInv
  <2>3. store' = [age |-> 0, born |-> IF pusher[p].brought THEN 0 ELSE Unknown,
                  bars |-> pusher[p].merged]
    BY <1>4 DEF PushMerge
  <2>4. store' \in Items /\ store'.bars = heard
    <3>1. pusher[p].merged \in FewBars /\ 0 \in 0..(BridgeMax + 1) /\ 0 \in Births /\ Unknown \in Births
      BY <1>1, LimitsAssumption DEF Pushes, Births, Old
    <3>2. QED BY <2>2, <2>3, <3>1 DEF Items
  <2>5. StoredBars' = heard
    BY <2>4, NoneIsNoRecord DEF StoredBars
  <2>6. \A q \in Pushers : q # p => ~Busy(q)
    BY <2>1 DEF WriterInv
  <2>7. Quiet'
    BY <1>1, <1>4, <2>6 DEF PushMerge, Quiet, Busy, IdlePusher
  <2>8. QED BY <2>1, <2>5, <2>7 DEF WriterInv, Quiet
<1>5. CASE RichMerge
  <2>1. StoredBars' = StoredBars
    <3>1. [age |-> 0, born |-> Unknown, bars |-> StoredBars] \in Items
      BY StoredType, LimitsAssumption DEF TypeInv, Items, Births, Old
    <3>2. store' # None /\ store'.bars = StoredBars
      BY <1>5, <3>1, NoneIsNoRecord DEF RichMerge
    <3>3. QED BY <3>2 DEF StoredBars
  <2>2. QED BY <1>2, <1>5, <2>1 DEF RichMerge
<1>6. CASE Prune
  <2>1. Quiet /\ heard' = {} /\ StoredBars' = {}
    BY <1>6 DEF Prune, Quiet, StoredBars
  <2>2. Quiet'
    BY <1>6, <2>1 DEF Prune, Quiet, Busy
  <2>3. QED BY <2>1, <2>2 DEF WriterInv, Quiet
<1>7. CASE ClearCaches
  BY <1>2, <1>7 DEF ClearCaches, StoredBars
<1>8. ASSUME NEW f \in Fetchers,
             (\E k \in Keys, seeds \in BOOLEAN : FetchBegin(f, k, seeds)) \/ FetchStep(f)
      PROVE WriterInv'
  <2>1. UNCHANGED <<heard, pusher, store>>
    BY <1>8 DEF FetchBegin, FetchStep, FetchLook, FetchPoll, FetchMark,
      FetchWake, FetchAsk, FetchKeep, FetchFallback, FetchUnmark, FetchReturn
  <2>2. QED BY <1>2, <2>1 DEF StoredBars
<1>9. CASE Tick
  <2>1. StoredBars' = StoredBars
    <3>1. CASE store = None
      BY <1>9, <3>1 DEF Tick, StoredBars
    <3>2. CASE store # None
      <4>1. store' = [age |-> Older(store.age, BridgeMax + 1),
                      born |-> Older(store.born, Old), bars |-> store.bars]
        BY <1>9, <3>2 DEF Tick
      <4>2. store' # None
        <5>1. store \in Items
          BY <3>2, StoredType DEF TypeInv
        <5>2. /\ Older(store.age, BridgeMax + 1) \in 0..(BridgeMax + 1)
              /\ Older(store.born, Old) \in Births /\ store.bars \in FewBars
          BY <5>1, OlderType, BirthOlderType, LimitsAssumption DEF Items
        <5>3. store' \in Items
          BY <4>1, <5>2 DEF Items
        <5>4. QED BY <5>3, NoneIsNoRecord
      <4>3. QED BY <3>2, <4>1, <4>2 DEF StoredBars
    <3>3. QED BY <3>1, <3>2
  <2>2. QED BY <1>2, <1>9, <2>1 DEF Tick
<1>10. CASE UNCHANGED vars
  BY <1>2, <1>10 DEF vars, StoredBars
<1>11. QED
  BY <1>3, <1>4, <1>5, <1>6, <1>7, <1>8, <1>9, <1>10, PushTakes DEF Next

\* While no two writers of the store met, it holds exactly the newest MaxBars of
\* the bars its pushes took since its item was created, in whatever order they came;
\* a push takes the first PushMax entries of its payload.
THEOREM StoreKeepsNewest == Spec => []NewestKept
<1>1. Init => WriterInv
  <2>1. Init => \A p \in Pushers : ~Busy(p)
    BY DEF Init, Busy, IdlePusher
  <2>2. QED BY <2>1 DEF Init, WriterInv, StoredBars
<1>2. WriterInv => NewestKept
  BY DEF WriterInv, NewestKept, Quiet
<1>3. QED
  BY <1>1, <1>2, InitTypes, TypeInductive, WriterInductive, PTL DEF Spec

-----------------------------------------------------------------------------
(* The age of an answer.                                                    *)

\* Known is a birth some candle had.
Known(born) == born # Unknown

StoreAged ==
  store # None /\ Known(store.born) /\ store.age <= BridgeMax => store.born <= store.age

CacheAged ==
  \A k \in Keys : cache[k] # None /\ Known(cache[k].born) /\ cache[k].age <= CacheMax =>
    cache[k].born <= BridgeMax + cache[k].age

Within(hand) == Known(hand.born) => hand.born <= AgeLimit(hand.status)

\* No time passes while a call holds an answer it has not kept or returned.
HandAged(f) ==
  /\ fetcher[f].pc \in {"keep", "unmark", "done"} => Within(fetcher[f].hand)
  /\ fetcher[f].pc = "keep" => fetcher[f].hand.status \in {"real", "stale", "live"}

HandsAged == \A f \in Fetchers : HandAged(f)
AgeInv == StoreAged /\ CacheAged /\ HandsAged

\* A payload within its limit is as old as the bridge and the cache may make it.
LEMMA CachedAge ==
  ASSUME TypeInv, CacheAged, NEW k \in Keys, NEW limit \in Nat, limit <= CacheMax,
         CachedWithin(k, limit)
  PROVE  Known(cache[k].born) => cache[k].born <= BridgeMax + limit
<1>1. cache[k] # None /\ cache[k].age <= limit /\ cache[k] \in Payloads
  BY DEF CachedWithin, TypeInv, TypeOK
<1>2. cache[k].age \in Nat /\ (Known(cache[k].born) => cache[k].born \in Nat)
  BY <1>1, LimitsAssumption DEF Payloads, Births, Known, Old
<1>3. Known(cache[k].born) => cache[k].born <= BridgeMax + cache[k].age
  BY <1>1, <1>2, LimitsAssumption DEF CacheAged
<1>4. QED BY <1>1, <1>2, <1>3, LimitsAssumption

\* The answer a call ends a look, a poll or the fallback with.
LEMMA CacheAnswersAge ==
  ASSUME TypeInv, CacheAged, NEW f \in Fetchers, fetcher[f].pc # "idle",
         NEW status \in {"fresh", "stale_cache"},
         CachedWithin(fetcher[f].key, IF status = "fresh" THEN CacheTtl ELSE CacheMax)
  PROVE  Within(FromCache(f, status))
<1> DEFINE k == fetcher[f].key
<1>1. k \in Keys /\ cache[k] # None
  BY DEF TypeInv, HasKey, CachedWithin
<1>2. /\ FromCache(f, status).status = status
      /\ FromCache(f, status).born = cache[k].born
  BY <1>1, CacheAnswers DEF Statuses
<1>3. CASE status = "fresh"
  <2>1. Known(cache[k].born) => cache[k].born <= BridgeMax + CacheTtl
    BY <1>1, <1>3, CachedAge, LimitsAssumption
  <2>2. AgeLimit("fresh") = BridgeMax + CacheTtl
    BY DEF AgeLimit
  <2>3. QED BY <1>2, <1>3, <2>1, <2>2 DEF Within
<1>4. CASE status = "stale_cache"
  <2>1. Known(cache[k].born) => cache[k].born <= BridgeMax + CacheMax
    BY <1>1, <1>4, CachedAge, LimitsAssumption
  <2>2. AgeLimit("stale_cache") = BridgeMax + CacheMax
    BY DEF AgeLimit
  <2>3. QED BY <1>2, <1>4, <2>1, <2>2 DEF Within
<1>5. QED BY <1>3, <1>4

LEMMA HandLimits ==
  /\ Within(NoHand) /\ Within(Hand("live", 0)) /\ Hand("live", 0).status = "live"
  /\ AgeLimit("real") <= BridgeMax /\ AgeLimit("stale") <= BridgeMax /\ AgeLimit("live") <= BridgeMax
BY LimitsAssumption DEF Within, NoHand, Hand, AgeLimit, Known

\* The bridge labels its candles by their age.
LEMMA BridgeAge ==
  ASSUME TypeInv, StoreAged, BridgeHas
  PROVE  /\ Within(Hand(BridgeStatus, store.born))
         /\ BridgeStatus \in {"real", "stale"}
         /\ Hand(BridgeStatus, store.born).status = BridgeStatus
<1>1. store # None /\ store.age <= BridgeMax
  BY DEF BridgeHas, StoredBars
<1>2. store \in Items
  BY <1>1, StoredType DEF TypeInv
<1>3. store.age \in Nat /\ (Known(store.born) => store.born \in Nat)
  BY <1>2, LimitsAssumption DEF Items, Births, Known, Old
<1>4. Known(store.born) => store.born <= store.age
  BY <1>1 DEF StoreAged
<1>5. AgeLimit("real") = BridgeFresh /\ AgeLimit("stale") = BridgeMax
  BY DEF AgeLimit
<1>6. Known(store.born) => store.born <= AgeLimit(BridgeStatus)
  BY <1>1, <1>3, <1>4, <1>5, LimitsAssumption DEF BridgeStatus
<1>7. QED BY <1>6 DEF Within, Hand, BridgeStatus

\* No step of a call makes its answer older than the label says.
LEMMA HandsInductive ==
  ASSUME TypeInv, AgeInv, NEW f \in Fetchers,
         (\E k \in Keys, seeds \in BOOLEAN : FetchBegin(f, k, seeds)) \/ FetchStep(f)
  PROVE  HandsAged'
<1>1. Others(f) /\ TypeOK /\ HandsAged /\ StoreAged /\ CacheAged /\ fetcher[f] \in Calls
      /\ fetcher \in [Fetchers -> Calls]
  BY CallsTyped DEF TypeInv, TypeOK, AgeInv
<1>2. SUFFICES HandAged(f)'
  BY <1>1 DEF Others, HandsAged, HandAged, Within
<1>3. ASSUME NEW pc \in Steps \ {"keep", "unmark", "done"}, Goto(f, pc) PROVE HandAged(f)'
  BY <1>1, <1>3, GotoMoves DEF HandAged
<1>4. ASSUME NEW pc \in Steps \ {"keep"}, NEW hand \in Hands, Within(hand), Answer(f, pc, hand)
      PROVE HandAged(f)'
  BY <1>1, <1>4, AnswerMoves DEF HandAged, Within
<1>5. CASE \E k \in Keys, seeds \in BOOLEAN : FetchBegin(f, k, seeds)
  <2>1. PICK k \in Keys, seeds \in BOOLEAN : FetchBegin(f, k, seeds)
    BY <1>5
  <2> DEFINE pc == IF BridgeHas THEN "keep" ELSE "cache"
             hand == IF BridgeHas THEN Hand(BridgeStatus, store.born) ELSE NoHand
             call == [pc |-> pc, key |-> k, hand |-> hand, seeds |-> seeds,
                      polls |-> 0, rest |-> 0]
  <2>2. fetcher' = [fetcher EXCEPT ![f] = call]
    BY <2>1 DEF FetchBegin
  <2>3. fetcher'[f].pc = pc /\ fetcher'[f].hand = hand
    BY <1>1, <2>2
  <2>4. pc = "keep" => Within(hand) /\ hand.status \in {"real", "stale", "live"}
    BY <1>1, BridgeAge
  <2> HIDE DEF pc, hand, call
  <2>5. pc \in {"keep", "cache"}
    BY DEF pc
  <2>6. QED BY <2>3, <2>4, <2>5 DEF HandAged, Within
<1>6. CASE FetchLook(f)
  <2>1. fetcher[f].pc # "idle"
    BY <1>6 DEF FetchLook, At
  <2>2. CASE CachedWithin(fetcher[f].key, CacheTtl) /\ Answer(f, "done", FromCache(f, "fresh"))
    <3>1. FromCache(f, "fresh") \in Hands /\ "done" \in Steps
      BY <2>1, <2>2, CacheAnswers DEF CachedWithin, Statuses, Steps
    <3>2. Within(FromCache(f, "fresh"))
      BY <1>1, <2>1, <2>2, CacheAnswersAge
    <3>3. QED BY <1>4, <2>2, <3>1, <3>2
  <2>3. CASE Goto(f, "poll") \/ Goto(f, "mark")
    BY <1>3, <2>3 DEF Steps
  <2>4. QED BY <1>6, <2>2, <2>3 DEF FetchLook
<1>7. CASE FetchPoll(f)
  <2>1. fetcher[f].pc = "poll"
    BY <1>7 DEF FetchPoll, At
  <2>2. CASE CachedWithin(fetcher[f].key, CacheTtl) /\ Answer(f, "done", FromCache(f, "fresh"))
    <3>1. FromCache(f, "fresh") \in Hands /\ "done" \in Steps
      BY <2>1, <2>2, CacheAnswers DEF CachedWithin, Statuses, Steps
    <3>2. Within(FromCache(f, "fresh"))
      BY <1>1, <2>1, <2>2, CacheAnswersAge
    <3>3. QED BY <1>4, <2>2, <3>1, <3>2
  <2>3. CASE CachedWithin(fetcher[f].key, CacheMax) /\ Answer(f, "done", FromCache(f, "stale_cache"))
    <3>1. FromCache(f, "stale_cache") \in Hands /\ "done" \in Steps
      BY <2>1, <2>3, CacheAnswers DEF CachedWithin, Statuses, Steps
    <3>2. Within(FromCache(f, "stale_cache"))
      BY <1>1, <2>1, <2>3, CacheAnswersAge
    <3>3. QED BY <1>4, <2>3, <3>1, <3>2
  <2>4. CASE fetcher' = [fetcher EXCEPT ![f].polls = @ + 1]
    <3>1. fetcher'[f].pc = "poll"
      BY <1>1, <2>1, <2>4 DEF Calls
    <3>2. QED BY <3>1 DEF HandAged
  <2>5. CASE Goto(f, "mark")
    BY <1>3, <2>5 DEF Steps
  <2>6. QED BY <1>7, <2>2, <2>3, <2>4, <2>5 DEF FetchPoll
<1>8. CASE FetchMark(f)
  <2> DEFINE call == [[[fetcher[f] EXCEPT !.pc = "sleep"] EXCEPT !.polls = 0]
                        EXCEPT !.rest = MinInterval - sinceLast]
  <2>1. fetcher' = [fetcher EXCEPT ![f] = call]
    BY <1>1, <1>8 DEF FetchMark
  <2>2. fetcher'[f].pc = "sleep"
    BY <1>1, <2>1 DEF Calls
  <2>3. QED BY <2>2 DEF HandAged
<1>9. CASE FetchWake(f)
  BY <1>3, <1>9 DEF FetchWake, Steps
<1>10. CASE FetchAsk(f)
  <2>1. CASE Answer(f, "keep", Hand("live", 0))
    <3>1. fetcher'[f].pc = "keep" /\ fetcher'[f].hand = Hand("live", 0)
      BY <1>1, <2>1, AnswerMoves, HandTypes DEF Steps
    <3>2. QED BY <3>1, HandLimits DEF HandAged, Within
  <2>2. CASE Goto(f, "dukascopy") \/ Goto(f, "fallback")
    BY <1>3, <2>2 DEF Steps
  <2>3. QED BY <1>10, <2>1, <2>2 DEF FetchAsk
<1>11. CASE FetchKeep(f)
  <2>1. Within(fetcher[f].hand)
    BY <1>1, <1>11 DEF FetchKeep, At, HandsAged, HandAged
  <2>2. PICK pc \in {"unmark", "done"} : Goto(f, pc)
    BY <1>11 DEF FetchKeep
  <2>3. fetcher'[f].pc = pc /\ fetcher'[f].hand = fetcher[f].hand
    BY <1>1, <2>2, GotoMoves DEF Steps
  <2>4. QED BY <2>1, <2>2, <2>3 DEF HandAged, Within
<1>12. CASE FetchFallback(f)
  <2>1. fetcher[f].pc # "idle"
    BY <1>12 DEF FetchFallback, At
  <2>2. CASE CachedWithin(fetcher[f].key, CacheMax)
    <3>1. FromCache(f, "stale_cache") \in Hands /\ "unmark" \in Steps
      BY <2>1, <2>2, CacheAnswers DEF CachedWithin, Statuses, Steps
    <3>2. Within(FromCache(f, "stale_cache"))
      BY <1>1, <2>1, <2>2, CacheAnswersAge
    <3>3. Answer(f, "unmark", FromCache(f, "stale_cache"))
      BY <1>12, <2>2 DEF FetchFallback
    <3>4. QED BY <1>4, <3>1, <3>2, <3>3
  <2>3. CASE ~CachedWithin(fetcher[f].key, CacheMax)
    <3>1. Answer(f, "unmark", NoHand)
      BY <1>12, <2>3 DEF FetchFallback
    <3>2. QED BY <1>4, <3>1, HandTypes, HandLimits DEF Steps
  <2>4. QED BY <2>2, <2>3
<1>13. CASE FetchUnmark(f)
  <2>1. Within(fetcher[f].hand)
    BY <1>1, <1>13 DEF FetchUnmark, At, HandsAged, HandAged
  <2>2. fetcher'[f].pc = "done" /\ fetcher'[f].hand = fetcher[f].hand
    BY <1>1, <1>13, GotoMoves DEF FetchUnmark, Steps
  <2>3. QED BY <2>1, <2>2 DEF HandAged, Within
<1>14. CASE FetchReturn(f)
  <2>1. fetcher'[f].pc = "idle"
    BY <1>1, <1>14 DEF FetchReturn, IdleFetcher
  <2>2. QED BY <2>1 DEF HandAged
<1>15. QED
  BY <1>5, <1>6, <1>7, <1>8, <1>9, <1>10, <1>11, <1>12, <1>13, <1>14 DEF FetchStep

\* An age and a birth grow together, up to their limits.
LEMMA GrowTogether ==
  ASSUME NEW limit \in Nat, NEW extra \in Nat, limit + extra <= Old,
         NEW a \in 0..(limit + 1), NEW b \in Births,
         Known(b) /\ a <= limit => b <= extra + a,
         Known(Older(b, Old)), Older(a, limit + 1) <= limit
  PROVE  Older(b, Old) <= extra + Older(a, limit + 1)
<1>1. Old \in Nat /\ a \in Nat /\ limit + 1 \in Nat
  BY LimitsAssumption DEF Old
<1>2. a # Unknown
  BY <1>1, NoneAssumption
<1>3. a < limit /\ Older(a, limit + 1) = a + 1
  BY <1>1, <1>2 DEF Older
<1>4. Known(b) /\ b \in Nat
  <2>1. Known(b)
    BY DEF Known, Older
  <2>2. QED BY <1>1, <2>1 DEF Births, Known
<1>5. b <= extra + a
  BY <1>1, <1>3, <1>4
<1>6. Older(b, Old) <= b + 1
  BY <1>1, <1>4 DEF Older, Known
<1>7. Older(b, Old) \in Nat
  BY <1>1, <1>4 DEF Older
<1>8. QED BY <1>1, <1>3, <1>4, <1>5, <1>6, <1>7

LEMMA AgeInductive ==
  TypeInv /\ AgeInv /\ [Next]_vars => AgeInv'
<1> SUFFICES ASSUME TypeInv, AgeInv, [Next]_vars PROVE AgeInv'
  OBVIOUS
<1>1. TypeOK /\ StoreAged /\ CacheAged /\ HandsAged
  BY DEF TypeInv, AgeInv
<1>2. /\ UNCHANGED store => StoreAged'
      /\ UNCHANGED cache => CacheAged'
      /\ UNCHANGED fetcher => HandsAged'
  BY <1>1 DEF StoreAged, CacheAged, HandsAged, HandAged
<1>3. ASSUME NEW born \in {0, Unknown}, NEW bars \in FewBars,
             store' = [age |-> 0, born |-> born, bars |-> bars]
      PROVE StoreAged'
  <2>1. store'.age = 0 /\ store'.born = born
    BY <1>3
  <2>2. Known(born) => born <= 0
    BY DEF Known
  <2>3. QED BY <2>1, <2>2 DEF StoreAged
<1>4. ASSUME NEW p \in Pushers, NEW bars \in SUBSET Bars, PushRead(p, bars) PROVE AgeInv'
  BY <1>2, <1>4 DEF PushRead, AgeInv
<1>5. ASSUME NEW p \in Pushers, PushMerge(p) PROVE AgeInv'
  <2>1. pusher[p].merged \in FewBars
    BY <1>1 DEF TypeOK, Pushes
  <2>2. PICK born \in {0, Unknown} :
          store' = [age |-> 0, born |-> born, bars |-> pusher[p].merged]
    BY <1>5 DEF PushMerge
  <2>3. StoreAged'
    BY <1>3, <2>1, <2>2
  <2>4. QED BY <1>2, <1>5, <2>3 DEF PushMerge, AgeInv
<1>6. CASE RichMerge
  <2>1. StoreAged'
    BY <1>1, <1>3, <1>6, StoredType DEF RichMerge
  <2>2. QED BY <1>2, <1>6, <2>1 DEF RichMerge, AgeInv
<1>7. CASE Prune
  <2>1. StoreAged'
    BY <1>7 DEF Prune, StoreAged
  <2>2. QED BY <1>2, <1>7, <2>1 DEF Prune, AgeInv
<1>8. CASE ClearCaches
  <2>1. CacheAged'
    BY <1>8 DEF ClearCaches, CacheAged
  <2>2. QED BY <1>2, <1>8, <2>1 DEF ClearCaches, AgeInv
<1>9. ASSUME NEW f \in Fetchers,
             (\E k \in Keys, seeds \in BOOLEAN : FetchBegin(f, k, seeds)) \/ FetchStep(f)
      PROVE AgeInv'
  <2>1. HandsAged'
    BY <1>9, HandsInductive
  <2>2. StoreAged'
    <3>1. CASE UNCHANGED store
      BY <1>2, <3>1
    <3>2. CASE \E b \in Bars : store' = [age |-> 0, born |-> Unknown, bars |-> {b}]
      <4>0. MaxBars \in Nat \ {0}
        BY LimitsAssumption
      <4>1. ASSUME NEW b \in Bars PROVE {b} \in FewBars
        BY FS_Singleton, <4>0 DEF FewBars
      <4>2. QED BY <1>3, <3>2, <4>1
    <3>3. QED
      BY <1>9, <3>1, <3>2 DEF FetchBegin, FetchStep, FetchLook, FetchPoll, FetchMark,
        FetchWake, FetchAsk, FetchKeep, FetchFallback, FetchUnmark, FetchReturn
  <2>3. CacheAged'
    <3>1. CASE UNCHANGED cache
      BY <1>2, <3>1
    <3>2. CASE FetchKeep(f)
      <4> DEFINE k == fetcher[f].key
                 hand == fetcher[f].hand
                 paid == [age |-> 0, born |-> hand.born]
                 c == [cache EXCEPT ![k] = paid]
      <4>1. k \in Keys /\ fetcher[f] \in Calls
        BY <1>1, <3>2 DEF FetchKeep, At, TypeInv, TypeOK, HasKey
      <4>2. hand.born \in Births /\ hand.status \in {"real", "stale", "live"} /\ Within(hand)
        BY <1>1, <3>2, <4>1 DEF FetchKeep, At, HandsAged, HandAged, Calls, Hands
      <4>3. Known(hand.born) => hand.born <= BridgeMax
        <5>1. ASSUME Known(hand.born) PROVE hand.born <= BridgeMax
          <6>1. hand.born \in Nat /\ hand.born <= AgeLimit(hand.status)
            BY <4>2, <5>1, LimitsAssumption DEF Births, Old, Known, Within
          <6>2. AgeLimit(hand.status) \in Nat /\ AgeLimit(hand.status) <= BridgeMax
            BY <4>2, LimitsAssumption DEF AgeLimit
          <6>3. QED BY <6>1, <6>2, LimitsAssumption
        <5>2. QED BY <5>1
      <4>4. paid \in Payloads /\ c \in [Keys -> {None} \cup Payloads]
        <5>1. paid \in Payloads
          BY <4>2, LimitsAssumption DEF Payloads
        <5>2. QED BY <1>1, <5>1 DEF TypeOK
      <4>5. \A j \in Keys : cache'[j] = None \/ cache'[j] = c[j]
        BY <3>2, <4>4, KeptIsTrimmed DEF FetchKeep, SetCached
      <4>6. ASSUME NEW j \in Keys, cache'[j] # None, Known(cache'[j].born),
                   cache'[j].age <= CacheMax
            PROVE cache'[j].born <= BridgeMax + cache'[j].age
        <5>1. CASE j = k
          <6>1. cache'[j] = paid
            BY <1>1, <4>5, <4>6, <5>1 DEF TypeOK
          <6>2. QED BY <4>3, <4>6, <6>1, LimitsAssumption
        <5>2. CASE j # k
          <6>1. cache'[j] = cache[j]
            BY <1>1, <4>5, <4>6, <5>2 DEF TypeOK
          <6>2. QED BY <1>1, <4>6, <6>1 DEF CacheAged
        <5>3. QED BY <5>1, <5>2
      <4>7. QED BY <4>6 DEF CacheAged
    <3>3. QED
      BY <1>9, <3>1, <3>2 DEF FetchBegin, FetchStep, FetchLook, FetchPoll, FetchMark,
        FetchWake, FetchAsk, FetchFallback, FetchUnmark, FetchReturn
  <2>4. QED BY <2>1, <2>2, <2>3 DEF AgeInv
<1>10. CASE Tick
  <2>1. BridgeMax \in Nat /\ CacheMax \in Nat /\ BridgeMax + 0 <= Old /\ CacheMax + BridgeMax <= Old
    BY LimitsAssumption DEF Old
  <2>2. StoreAged'
    <3>1. SUFFICES ASSUME store' # None, Known(store'.born), store'.age <= BridgeMax
                   PROVE store'.born <= store'.age
      BY DEF StoreAged
    <3>2. store # None
      BY <1>10, <3>1 DEF Tick
    <3>3. store.age \in 0..(BridgeMax + 1) /\ store.born \in Births
      BY <1>1, <3>2, StoredType DEF Items
    <3>4. /\ store'.age = Older(store.age, BridgeMax + 1)
          /\ store'.born = Older(store.born, Old)
      BY <1>10, <3>2 DEF Tick
    <3>5. Known(store.born) /\ store.age <= BridgeMax => store.born <= 0 + store.age
      BY <1>1, <3>2, <3>3, LimitsAssumption DEF StoreAged
    <3>6. Older(store.born, Old) <= 0 + Older(store.age, BridgeMax + 1)
      BY <2>1, <3>1, <3>3, <3>4, <3>5, GrowTogether
    <3>7. Older(store.age, BridgeMax + 1) \in Nat
      BY <2>1, <3>3, OlderType
    <3>8. QED BY <3>4, <3>6, <3>7
  <2>3. CacheAged'
    <3>1. SUFFICES ASSUME NEW k \in Keys, cache'[k] # None, Known(cache'[k].born),
                          cache'[k].age <= CacheMax
                   PROVE cache'[k].born <= BridgeMax + cache'[k].age
      BY DEF CacheAged
    <3>2. cache[k] # None
      BY <1>10, <3>1 DEF Tick
    <3>3. cache[k].age \in 0..(CacheMax + 1) /\ cache[k].born \in Births
      BY <1>1, <3>2 DEF TypeOK, Payloads
    <3>4. /\ cache'[k].age = Older(cache[k].age, CacheMax + 1)
          /\ cache'[k].born = Older(cache[k].born, Old)
      BY <1>10, <3>2 DEF Tick
    <3>5. Known(cache[k].born) /\ cache[k].age <= CacheMax =>
            cache[k].born <= BridgeMax + cache[k].age
      BY <1>1, <3>2 DEF CacheAged
    <3>6. QED
      BY <2>1, <3>1, <3>3, <3>4, <3>5, GrowTogether
  <2>4. HandsAged'
    <3>1. ASSUME NEW f \in Fetchers PROVE HandAged(f)'
      <4>1. fetcher[f] \in Calls /\ Waiting(f)
        BY <1>1, <1>10 DEF Tick, TypeOK
      <4>2. fetcher'[f] = [fetcher[f] EXCEPT !.rest = IF @ > 0 THEN @ - 1 ELSE @]
        BY <1>10 DEF Tick
      <4>3. fetcher'[f].pc = fetcher[f].pc
        BY <4>1, <4>2 DEF Calls
      <4>4. QED BY <4>1, <4>3 DEF Waiting, HandAged
    <3>2. QED BY <3>1 DEF HandsAged
  <2>5. QED BY <2>2, <2>3, <2>4 DEF AgeInv
<1>11. CASE UNCHANGED vars
  BY <1>2, <1>11 DEF vars, AgeInv
<1>12. QED
  BY <1>4, <1>5, <1>6, <1>7, <1>8, <1>9, <1>10, <1>11, PushTakes DEF Next

\* The candles of every answer are no older than the label of the answer
\* allows, whatever mix of the bridge's and the cache's time made their age,
\* as long as no write without candles refreshed it.
THEOREM AnswersAsOldAsTheySay == Spec => []AgesBounded
<1>1. Init => AgeInv
  BY DEF Init, AgeInv, StoreAged, CacheAged, HandsAged, HandAged, IdleFetcher
<1>2. AgeInv => AgesBounded
  BY DEF AgeInv, HandsAged, HandAged, Within, Known, AgesBounded, At
<1>3. QED
  BY <1>1, <1>2, InitTypes, TypeInductive, AgeInductive, PTL DEF Spec
=============================================================================
