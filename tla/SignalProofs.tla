---------------------------- MODULE SignalProofs ----------------------------
(***************************************************************************)
(* Proofs about what a signal is made of and what becomes of it, for every *)
(* value of the constants: the pipeline that makes signals from candles    *)
(* (SignalPipeline), the evaluations that ask for them (SignalRules), the  *)
(* validation of their outcomes (SignalValidation) and the virtual positions*)
(* that trade them (PaperPosition).                                        *)
(*                                                                         *)
(* Folds over sets and lists are reasoned about through the least element of*)
(* a set of numbers, with which the module begins.                         *)
(***************************************************************************)
EXTENDS SignalRules, SignalPipeline, PaperPosition, SignalValidation,
        FiniteSetTheorems, WellFoundedInduction, TLAPS

-----------------------------------------------------------------------------
(* Least elements, and what follows for finite sets and for sums over them: *)
(* proofs by induction go through the least counterexample.                 *)

LEMMA LeastOf ==
  ASSUME NEW T, T \subseteq Nat, T # {}
  PROVE  \E m \in T : \A k \in T : m <= k
<1> DEFINE R == OpToRel(<, Nat)
<1>1. IsWellFoundedOn(R, Nat)
  BY NatLessThanWellFounded
<1>2. \A x, y \in Nat : x < y => <<x, y>> \in R
  BY DEF OpToRel
<1> HIDE DEF R
<1>3. PICK m \in T : \A k \in T : ~ (<<k, m>> \in R)
  BY <1>1, WFMin
<1>4. \A k \in T : ~(k < m)
  BY <1>2, <1>3
<1>5. \A k \in T : m <= k
  BY <1>4
<1> QED
  BY <1>5

\* The numbers that satisfy what zero satisfies and every successor inherits are all.
LEMMA Induction ==
  ASSUME NEW T, T \subseteq Nat, 0 \in T, \A n \in T : n + 1 \in T
  PROVE  T = Nat
<1> SUFFICES ASSUME Nat \ T # {} PROVE FALSE
  OBVIOUS
<1>1. PICK m \in Nat \ T : \A k \in Nat \ T : m <= k
  BY LeastOf
<1>2. m # 0 /\ m - 1 \in Nat /\ m - 1 < m
  BY <1>1
<1>3. m - 1 \in T
  BY <1>1, <1>2
<1>4. (m - 1) + 1 \in T
  BY <1>3
<1> QED
  BY <1>1, <1>2, <1>4

LEMMA LeastMember ==
  ASSUME NEW S, S \subseteq Int, IsFiniteSet(S), S # {}
  PROVE  \E x \in S : \A y \in S : x <= y
<1> DEFINE T == {n \in Nat : \A X \in SUBSET S :
                   Cardinality(X) = n + 1 => \E x \in X : \A y \in X : x <= y}
<1>1. 0 \in T
  <2> SUFFICES ASSUME NEW X \in SUBSET S, Cardinality(X) = 1 PROVE \E x \in X : \A y \in X : x <= y
    OBVIOUS
  <2>1. \E x : X = {x}
    BY FS_Singleton, FS_Subset
  <2> QED
    BY <2>1
<1>2. ASSUME NEW n \in T PROVE n + 1 \in T
  <2> SUFFICES ASSUME NEW X \in SUBSET S, Cardinality(X) = (n + 1) + 1
               PROVE \E x \in X : \A y \in X : x <= y
    OBVIOUS
  <2>1. IsFiniteSet(X) /\ X # {}
    <3>1. IsFiniteSet(X)
      BY FS_Subset
    <3>2. n \in Nat /\ (n + 1) + 1 # 0
      OBVIOUS
    <3>3. X # {}
      BY <3>2, FS_EmptySet
    <3> QED
      BY <3>1, <3>3
  <2>2. PICK x \in X : TRUE
    BY <2>1
  <2>3. Cardinality(X \ {x}) = n + 1
    <3>1. Cardinality(X \ {x}) = Cardinality(X) - 1
      BY <2>1, <2>2, FS_RemoveElement
    <3>2. ((n + 1) + 1) - 1 = n + 1
      OBVIOUS
    <3> QED
      BY <3>1, <3>2
  <2>4. PICK m \in X \ {x} : \A y \in X \ {x} : m <= y
    BY <2>3
  <2>5. x \in Int /\ m \in Int /\ \A y \in X : y \in Int
    BY <2>2, <2>4
  <2>6. CASE x <= m
    BY <2>4, <2>5, <2>6
  <2>7. CASE ~(x <= m)
    BY <2>4, <2>5, <2>7
  <2> QED
    BY <2>6, <2>7
<1>3. T = Nat
  <2> HIDE DEF T
  <2>1. T \subseteq Nat
    BY DEF T
  <2> QED
    BY <1>1, <1>2, <2>1, Induction
<1>4. Cardinality(S) \in Nat /\ Cardinality(S) # 0
  BY FS_CardinalityType, FS_EmptySet
<1>5. Cardinality(S) - 1 \in T /\ (Cardinality(S) - 1) + 1 = Cardinality(S)
  BY <1>3, <1>4
<1> QED
  BY <1>5

LEMMA Removed ==
  ASSUME NEW S, IsFiniteSet(S), NEW x \in S
  PROVE  Cardinality(S \ {x}) = Cardinality(S) - 1
BY FS_RemoveElement

LEMMA GreatestMember ==
  ASSUME NEW S, S \subseteq Int, IsFiniteSet(S), S # {}
  PROVE  \E x \in S : \A y \in S : x >= y
<1> DEFINE N == {0 - x : x \in S}
           f == [x \in S |-> 0 - x]
<1>1. f \in Surjection(S, N)
  BY DEF Surjection
<1>2. IsFiniteSet(N)
  BY <1>1, FS_Surjection
<1>3. N \subseteq Int /\ N # {}
  <2>1. PICK x \in S : TRUE
    OBVIOUS
  <2>2. 0 - x \in N
    OBVIOUS
  <2>3. \A y \in S : 0 - y \in Int
    OBVIOUS
  <2> QED
    BY <2>2, <2>3
<1>4. PICK m \in N : \A y \in N : m <= y
  <2> HIDE DEF N
  <2> QED
    BY <1>2, <1>3, LeastMember
<1>5. PICK x \in S : m = 0 - x
  BY <1>4
<1>6. \A y \in S : 0 - x <= 0 - y
  BY <1>4, <1>5
<1>7. \A y \in S : x \in Int /\ y \in Int
  OBVIOUS
<1> QED
  BY <1>6, <1>7

LEMMA MinMember ==
  ASSUME NEW S, S \subseteq Int, IsFiniteSet(S), S # {}
  PROVE  Min(S) \in S /\ \A y \in S : Min(S) <= y
BY LeastMember DEF Min

LEMMA MaxMember ==
  ASSUME NEW S, S \subseteq Int, IsFiniteSet(S), S # {}
  PROVE  Max(S) \in S /\ \A y \in S : Max(S) >= y
BY GreatestMember DEF Max

\* The functions that a fold over a finite set is defined by: one element, chosen by c,
\* is combined with the fold over the others.
FoldOf(g, S, base, c, h) ==
  \A t \in SUBSET S : g[t] = IF t = {} THEN base ELSE h[<<c[t], g[t \ {c[t]}]>>]

LEMMA FoldExists ==
  ASSUME NEW S, IsFiniteSet(S), NEW V, NEW base \in V, NEW c, NEW h \in [S \X V -> V],
         \A t \in SUBSET S : t # {} => c[t] \in t
  PROVE  \E g \in [SUBSET S -> V] : FoldOf(g, S, base, c, h)
<1> DEFINE Small(n) == {t \in SUBSET S : Cardinality(t) <= n}
           Unfolded(g, t) == IF t = {} THEN base ELSE h[<<c[t], g[t \ {c[t]}]>>]
           T == {n \in Nat : \E g \in [Small(n) -> V] : \A t \in Small(n) : g[t] = Unfolded(g, t)}
<1>1. \A t \in SUBSET S : IsFiniteSet(t) /\ Cardinality(t) \in Nat /\ (Cardinality(t) = 0 <=> t = {})
  BY FS_Subset, FS_CardinalityType, FS_EmptySet
<1>2. 0 \in T
  <2> DEFINE g == [t \in Small(0) |-> base]
  <2>1. \A t \in Small(0) : t = {}
    BY <1>1
  <2>2. g \in [Small(0) -> V] /\ \A t \in Small(0) : g[t] = Unfolded(g, t)
    BY <2>1
  <2> HIDE DEF g
  <2> QED
    BY <2>2
<1>3. ASSUME NEW n \in T PROVE n + 1 \in T
  <2>1. n \in Nat /\ n + 1 \in Nat
    OBVIOUS
  <2>2. PICK g \in [Small(n) -> V] : \A t \in Small(n) : g[t] = Unfolded(g, t)
    OBVIOUS
  <2> DEFINE k == [t \in Small(n + 1) |-> Unfolded(g, t)]
  <2>3. ASSUME NEW t \in Small(n + 1), t # {}
        PROVE  t \ {c[t]} \in Small(n) /\ t \ {c[t]} \in Small(n + 1) /\ c[t] \in S
    <3>1. c[t] \in t /\ IsFiniteSet(t) /\ Cardinality(t) \in Nat
      BY <1>1, <2>3
    <3>2. Cardinality(t \ {c[t]}) = Cardinality(t) - 1
      BY <3>1, Removed
    <3>3. Cardinality(t) <= n + 1
      OBVIOUS
    <3>4. Cardinality(t \ {c[t]}) <= n /\ Cardinality(t \ {c[t]}) <= n + 1
      BY <2>1, <3>1, <3>2, <3>3
    <3> QED
      BY <3>1, <3>4
  <2>4. ASSUME NEW t \in Small(n + 1) PROVE k[t] = Unfolded(g, t) /\ Unfolded(g, t) \in V
    <3>1. CASE t = {}
      BY <3>1
    <3>2. CASE t # {}
      <4>1. g[t \ {c[t]}] \in V /\ c[t] \in S
        BY <2>3, <3>2
      <4> QED
        BY <3>2, <4>1
    <3> QED
      BY <3>1, <3>2
  <2>5. ASSUME NEW t \in Small(n) PROVE t \in Small(n + 1) /\ k[t] = g[t]
    <3>1. t \in Small(n + 1)
      BY <1>1, <2>1
    <3> QED
      BY <2>2, <2>4, <3>1
  <2>6. k \in [Small(n + 1) -> V]
    BY <2>4
  <2>7. ASSUME NEW t \in Small(n + 1) PROVE k[t] = Unfolded(k, t)
    <3>1. CASE t = {}
      BY <2>4, <3>1
    <3>2. CASE t # {}
      <4>1. k[t \ {c[t]}] = g[t \ {c[t]}]
        BY <2>3, <2>5, <3>2
      <4> HIDE DEF k
      <4> QED
        BY <2>4, <3>2, <4>1
    <3> QED
      BY <3>1, <3>2
  <2> HIDE DEF k
  <2> QED
    BY <2>1, <2>6, <2>7
<1>4. T = Nat
  <2> HIDE DEF T
  <2>1. T \subseteq Nat
    BY DEF T
  <2> QED
    BY <1>2, <1>3, <2>1, Induction
<1>5. Cardinality(S) \in T
  BY <1>1, <1>4
<1>6. Small(Cardinality(S)) = SUBSET S
  BY FS_Subset
<1>7. \E g \in [Small(Cardinality(S)) -> V] : \A t \in Small(Cardinality(S)) : g[t] = Unfolded(g, t)
  BY <1>5
<1> HIDE DEF Small, T
<1> QED
  BY <1>6, <1>7 DEF FoldOf

LEMMA FoldUnique ==
  ASSUME NEW S, IsFiniteSet(S), NEW base, NEW c, NEW h,
         \A t \in SUBSET S : t # {} => c[t] \in t,
         NEW f, NEW g, FoldOf(f, S, base, c, h), FoldOf(g, S, base, c, h)
  PROVE  \A t \in SUBSET S : f[t] = g[t]
<1> DEFINE T == {n \in Nat : \A t \in SUBSET S : Cardinality(t) = n => f[t] = g[t]}
<1>1. \A t \in SUBSET S : IsFiniteSet(t) /\ Cardinality(t) \in Nat /\ (Cardinality(t) = 0 <=> t = {})
  BY FS_Subset, FS_CardinalityType, FS_EmptySet
<1>2. 0 \in T
  BY <1>1 DEF FoldOf
<1>3. ASSUME NEW n \in T PROVE n + 1 \in T
  <2> SUFFICES ASSUME NEW t \in SUBSET S, Cardinality(t) = n + 1 PROVE f[t] = g[t]
    OBVIOUS
  <2>1. t # {}
    BY <1>1
  <2>2. c[t] \in t /\ Cardinality(t \ {c[t]}) = Cardinality(t) - 1
    BY <1>1, <2>1, Removed
  <2>3. Cardinality(t \ {c[t]}) = n /\ t \ {c[t]} \in SUBSET S
    BY <2>2
  <2>4. f[t \ {c[t]}] = g[t \ {c[t]}]
    BY <2>3
  <2> QED
    BY <2>1, <2>4 DEF FoldOf
<1>4. T = Nat
  <2> HIDE DEF T
  <2>1. T \subseteq Nat
    BY DEF T
  <2> QED
    BY <1>2, <1>3, <2>1, Induction
<1> QED
  BY <1>1, <1>4

-----------------------------------------------------------------------------
(* The candles of a symbol, and their mirror image.                         *)
CandleForm == [open : Int, high : Int, low : Int, close : Int]
IsMarket(s) ==
  /\ s \in Seq(CandleForm) /\ s # <<>>
  /\ \A k \in 1..Len(s) : /\ s[k].low <= s[k].open /\ s[k].open <= s[k].high
                          /\ s[k].low <= s[k].close /\ s[k].close <= s[k].high

LEMMA MarketForm ==
  ASSUME NEW s, IsMarket(s)
  PROVE  /\ Len(s) \in Nat /\ Len(s) >= 1 /\ DOMAIN s = 1..Len(s)
         /\ \A k \in 1..Len(s) : /\ s[k].open \in Int /\ s[k].high \in Int
                                 /\ s[k].low \in Int /\ s[k].close \in Int
                                 /\ s[k].low <= s[k].close /\ s[k].low <= s[k].high
<1>1. s \in Seq(CandleForm) /\ s # <<>>
  BY DEF IsMarket
<1>2. Len(s) \in Nat /\ Len(s) >= 1 /\ DOMAIN s = 1..Len(s)
  BY <1>1
<1>3. ASSUME NEW k \in 1..Len(s)
      PROVE  /\ s[k].open \in Int /\ s[k].high \in Int /\ s[k].low \in Int /\ s[k].close \in Int
             /\ s[k].low <= s[k].close /\ s[k].low <= s[k].high
  <2>1. s[k] \in CandleForm
    BY <1>1
  <2>2. s[k].open \in Int /\ s[k].high \in Int /\ s[k].low \in Int /\ s[k].close \in Int
    BY <2>1 DEF CandleForm
  <2>3. s[k].low <= s[k].close /\ s[k].close <= s[k].high
    BY DEF IsMarket
  <2> QED
    BY <2>2, <2>3
<1> QED
  BY <1>2, <1>3

LEMMA MirrorMarket ==
  ASSUME NEW s, IsMarket(s)
  PROVE  /\ IsMarket(Mirror(s)) /\ Len(Mirror(s)) = Len(s)
         /\ \A k \in 1..Len(s) : Mirror(s)[k] = [open |-> -s[k].open, high |-> -s[k].low,
                                                 low |-> -s[k].high, close |-> -s[k].close]
<1>1. Mirror(s) = [k \in 1..Len(s) |-> [open |-> -s[k].open, high |-> -s[k].low,
                                        low |-> -s[k].high, close |-> -s[k].close]]
  BY MarketForm DEF Mirror
<1>2. \A k \in 1..Len(s) : [open |-> -s[k].open, high |-> -s[k].low,
                            low |-> -s[k].high, close |-> -s[k].close] \in CandleForm
  BY MarketForm DEF CandleForm
<1>3. Mirror(s) \in Seq(CandleForm) /\ Len(Mirror(s)) = Len(s)
  BY <1>1, <1>2, MarketForm
<1>4. Mirror(s) # <<>>
  BY <1>3, MarketForm
<1>5. ASSUME NEW k \in 1..Len(s)
      PROVE  /\ Mirror(s)[k].low <= Mirror(s)[k].open /\ Mirror(s)[k].open <= Mirror(s)[k].high
             /\ Mirror(s)[k].low <= Mirror(s)[k].close /\ Mirror(s)[k].close <= Mirror(s)[k].high
  <2>1. /\ Mirror(s)[k].low = -s[k].high /\ Mirror(s)[k].high = -s[k].low
        /\ Mirror(s)[k].open = -s[k].open /\ Mirror(s)[k].close = -s[k].close
    BY <1>1
  <2>2. /\ s[k].low <= s[k].open /\ s[k].open <= s[k].high
        /\ s[k].low <= s[k].close /\ s[k].close <= s[k].high
    BY DEF IsMarket
  <2> QED
    BY <2>1, <2>2, MarketForm
<1>6. IsMarket(Mirror(s))
  BY <1>3, <1>4, <1>5 DEF IsMarket
<1> QED
  BY <1>1, <1>3, <1>6

LEMMA MirrorCandle ==
  ASSUME NEW s, IsMarket(s), NEW k \in 1..Len(s)
  PROVE  /\ Mirror(s)[k].high = -s[k].low /\ Mirror(s)[k].low = -s[k].high
         /\ Mirror(s)[k].close = -s[k].close
<1>1. Mirror(s)[k] = [open |-> -s[k].open, high |-> -s[k].low, low |-> -s[k].high, close |-> -s[k].close]
  BY MirrorMarket
<1> QED
  BY <1>1

LEMMA LastCandle ==
  ASSUME NEW s, IsMarket(s)
  PROVE  /\ Last(s).low \in Int /\ Last(s).close \in Int /\ Last(s).low <= Last(s).close
         /\ Last(Mirror(s)).close = -Last(s).close
<1>1. Len(s) \in 1..Len(s)
  BY MarketForm
<1>2. Last(s) = s[Len(s)] /\ Last(Mirror(s)) = Mirror(s)[Len(s)]
  BY MirrorMarket DEF Last
<1>3. Mirror(s)[Len(s)].close = -s[Len(s)].close
  BY <1>1, MirrorCandle
<1> QED
  BY <1>1, <1>2, <1>3, MarketForm

LEMMA SwingsInside ==
  ASSUME NEW s, IsMarket(s)
  PROVE  SwingLows(s) \subseteq 1..Len(s) /\ SwingLows(s) # {} /\ IsFiniteSet(SwingLows(s))
<1>1. (1 + Span)..(Len(s) - Span) \subseteq 1..Len(s)
  BY MarketForm, PipelineAssumption
<1> DEFINE swings == {k \in (1 + Span)..(Len(s) - Span) :
                        \A j \in (k - Span)..(k + Span) : s[k].low <= s[j].low}
           recent == {k \in swings : Cardinality({j \in swings : j > k}) < Recent}
<1>2. SwingLows(s) = IF recent = {} THEN {Len(s)} ELSE recent
  BY DEF SwingLows
<1>3. recent \subseteq 1..Len(s)
  BY <1>1
<1>4. Len(s) \in 1..Len(s)
  BY MarketForm
<1>5. SwingLows(s) \subseteq 1..Len(s) /\ SwingLows(s) # {}
  <2> HIDE DEF recent
  <2> QED
    BY <1>2, <1>3, <1>4
<1>6. IsFiniteSet(1..Len(s))
  BY MarketForm, FS_Interval
<1> QED
  BY <1>5, <1>6, FS_Subset

LEMMA LowOfInt ==
  ASSUME NEW s, IsMarket(s)
  PROVE  LowOf(s) \in Int
<1>1. Max(SwingLows(s)) \in 1..Len(s)
  BY SwingsInside, MaxMember, MarketForm
<1> QED
  BY <1>1, MarketForm DEF LowOf

-----------------------------------------------------------------------------
(* The average range.                                                       *)
LEMMA AbsForm ==
  ASSUME NEW x \in Int, NEW y \in Int
  PROVE  Abs(x - y) \in Nat /\ Abs(-x - (-y)) = Abs(x - y)
BY DEF Abs

LEMMA MaxOfThree ==
  ASSUME NEW a \in Nat, NEW b \in Nat, NEW c \in Nat
  PROVE  Max({a, b, c}) \in Nat
<1>1. {a, b, c} = ({a} \cup {b}) \cup {c}
  OBVIOUS
<1>2. IsFiniteSet({a, b, c})
  <2>1. IsFiniteSet({a}) /\ IsFiniteSet({b}) /\ IsFiniteSet({c})
    BY FS_Singleton
  <2>2. IsFiniteSet({a} \cup {b})
    BY <2>1, FS_Union
  <2> QED
    BY <1>1, <2>1, <2>2, FS_Union
<1>3. {a, b, c} \subseteq Int /\ {a, b, c} # {}
  OBVIOUS
<1>4. Max({a, b, c}) \in {a, b, c}
  BY <1>2, <1>3, MaxMember
<1> QED
  BY <1>4

LEMMA TrueRangeForm ==
  ASSUME NEW s, IsMarket(s), NEW k \in 2..Len(s)
  PROVE  TrueRange(s, k) \in Nat /\ TrueRange(Mirror(s), k) = TrueRange(s, k)
<1>1. k \in 1..Len(s) /\ k - 1 \in 1..Len(s)
  BY MarketForm
<1>2. PICK high \in Int, low \in Int, before \in Int :
        high = s[k].high /\ low = s[k].low /\ before = s[k - 1].close /\ low <= high
  BY <1>1, MarketForm
<1>3. high - low \in Nat /\ Abs(high - before) \in Nat /\ Abs(low - before) \in Nat
  <2>1. high - low \in Nat
    BY <1>2
  <2> QED
    BY <2>1, AbsForm
<1>4. TrueRange(s, k) = Max({high - low, Abs(high - before), Abs(low - before)})
  BY <1>2 DEF TrueRange
<1>5. /\ Mirror(s)[k].high = -low /\ Mirror(s)[k].low = -high
      /\ Mirror(s)[k - 1].close = -before
  <2>1. /\ Mirror(s)[k].high = -s[k].low /\ Mirror(s)[k].low = -s[k].high
        /\ Mirror(s)[k - 1].close = -s[k - 1].close
    BY <1>1, MirrorCandle
  <2> QED
    BY <1>2, <2>1
<1>6. TrueRange(Mirror(s), k) = Max({-low - (-high), Abs(-low - (-before)), Abs(-high - (-before))})
  BY <1>5 DEF TrueRange
<1>7. /\ -low - (-high) = high - low
      /\ Abs(-low - (-before)) = Abs(low - before) /\ Abs(-high - (-before)) = Abs(high - before)
  BY AbsForm
<1>8. {high - low, Abs(low - before), Abs(high - before)}
        = {high - low, Abs(high - before), Abs(low - before)}
  OBVIOUS
<1>9. TrueRange(Mirror(s), k) = TrueRange(s, k)
  BY <1>4, <1>6, <1>7, <1>8
<1> QED
  BY <1>3, <1>4, <1>9, MaxOfThree

\* The sum of the true ranges, from the recursion that defines it.
SumOf(s, S) == MapThenSumSet(LAMBDA k : TrueRange(s, k), S)
Choice(S) == [t \in SUBSET S |-> CHOOSE x \in t : TRUE]
Add(s, S, V) == [p \in S \X V |-> TrueRange(s, p[1]) + p[2]]

LEMMA SumIsFold ==
  ASSUME NEW s, NEW S, IsFiniteSet(S), \A k \in S : TrueRange(s, k) \in Nat,
         NEW g \in [SUBSET S -> Nat], FoldOf(g, S, 0, Choice(S), Add(s, S, Nat))
  PROVE  SumOf(s, S) = g[S]
<1> DEFINE P(f) == f = [t \in SUBSET S |-> IF t = {} THEN 0
                          ELSE TrueRange(s, CHOOSE x \in t : TRUE) + f[t \ {CHOOSE x \in t : TRUE}]]
<1>1. SumOf(s, S) = (CHOOSE f : P(f))[S]
  BY DEF SumOf, MapThenSumSet, MapThenFoldSet
<1>2. \A t \in SUBSET S : t # {} => Choice(S)[t] \in t /\ Choice(S)[t] = CHOOSE x \in t : TRUE
  BY DEF Choice
<1>3. ASSUME NEW t \in SUBSET S, t # {}
      PROVE  g[t] = TrueRange(s, CHOOSE x \in t : TRUE) + g[t \ {CHOOSE x \in t : TRUE}]
  <2>1. g[t] = Add(s, S, Nat)[<<Choice(S)[t], g[t \ {Choice(S)[t]}]>>]
    BY <1>3 DEF FoldOf
  <2>2. Choice(S)[t] \in S /\ g[t \ {Choice(S)[t]}] \in Nat
    BY <1>2, <1>3
  <2> QED
    BY <1>2, <1>3, <2>1, <2>2 DEF Add
<1>4. g[{}] = 0
  BY DEF FoldOf
<1>5. P(g)
  BY <1>3, <1>4
<1>6. PICK f : P(f) /\ f = CHOOSE e : P(e)
  BY <1>5
<1>7. f[{}] = 0 /\ \A t \in SUBSET S : t # {} =>
        f[t] = TrueRange(s, CHOOSE x \in t : TRUE) + f[t \ {CHOOSE x \in t : TRUE}]
  BY <1>6
<1> DEFINE V == Nat \cup {f[t] : t \in SUBSET S}
<1>8. FoldOf(f, S, 0, Choice(S), Add(s, S, V))
  <2>1. ASSUME NEW t \in SUBSET S, t # {}
        PROVE  f[t] = Add(s, S, V)[<<Choice(S)[t], f[t \ {Choice(S)[t]}]>>]
    <3>1. Choice(S)[t] \in S /\ f[t \ {Choice(S)[t]}] \in V
      BY <1>2, <2>1
    <3> QED
      BY <1>2, <1>7, <2>1, <3>1 DEF Add
  <2> QED
    BY <1>7, <2>1 DEF FoldOf
<1>9. FoldOf(g, S, 0, Choice(S), Add(s, S, V))
  <2>1. ASSUME NEW t \in SUBSET S, t # {}
        PROVE  g[t] = Add(s, S, V)[<<Choice(S)[t], g[t \ {Choice(S)[t]}]>>]
    <3>1. Choice(S)[t] \in S /\ g[t \ {Choice(S)[t]}] \in V
      BY <1>2, <2>1
    <3> QED
      BY <1>2, <1>3, <2>1, <3>1 DEF Add
  <2> QED
    BY <1>4, <2>1 DEF FoldOf
<1>10. f[S] = g[S]
  <2> HIDE DEF P, V
  <2> QED
    BY <1>2, <1>8, <1>9, FoldUnique
<1> HIDE DEF P
<1> QED
  BY <1>1, <1>6, <1>10

LEMMA AtrForm ==
  ASSUME NEW s, IsMarket(s)
  PROVE  Atr(s) \in Nat /\ Atr(Mirror(s)) = Atr(s)
<1> DEFINE n == Min({Period, Len(s) - 1})
           S == (Len(s) - n + 1)..Len(s)
<1>1. CASE Len(s) < 3
  BY <1>1, MirrorMarket DEF Atr
<1>2. CASE ~(Len(s) < 3)
  <2>1. Len(s) \in Nat /\ Len(s) >= 3 /\ Period \in Nat /\ Period >= 1
    BY <1>2, MarketForm, PipelineAssumption
  <2>2. n \in Nat /\ n >= 1 /\ n <= Len(s) - 1
    <3>1. Len(s) - 1 \in Int /\ Len(s) - 1 >= 1
      BY <2>1
    <3>2. {Period, Len(s) - 1} = {Period} \cup {Len(s) - 1}
      OBVIOUS
    <3>3. IsFiniteSet({Period}) /\ IsFiniteSet({Len(s) - 1})
      BY FS_Singleton
    <3>4. IsFiniteSet({Period, Len(s) - 1})
      BY <3>2, <3>3, FS_Union
    <3>5. {Period, Len(s) - 1} \subseteq Int /\ {Period, Len(s) - 1} # {}
      BY <2>1, <3>1
    <3>6. n \in {Period, Len(s) - 1} /\ n <= Len(s) - 1
      BY <3>4, <3>5, MinMember
    <3> HIDE DEF n
    <3> QED
      BY <2>1, <3>1, <3>6
  <2> HIDE DEF n
  <2>3. S \subseteq 2..Len(s) /\ IsFiniteSet(S)
    <3>1. Len(s) - n + 1 \in Int /\ Len(s) \in Int /\ Len(s) - n + 1 >= 2
      BY <2>1, <2>2
    <3>2. IsFiniteSet(S)
      BY <3>1, FS_Interval
    <3> QED
      BY <3>1, <3>2
  <2>4. \A k \in S : TrueRange(s, k) \in Nat /\ TrueRange(Mirror(s), k) = TrueRange(s, k)
    BY <2>3, TrueRangeForm
  <2>5. Choice(S) = [t \in SUBSET S |-> CHOOSE x \in t : TRUE] /\ \A t \in SUBSET S : t # {} => Choice(S)[t] \in t
    BY DEF Choice
  <2>6. Add(s, S, Nat) \in [S \X Nat -> Nat]
    BY <2>4 DEF Add
  <2>7. Add(Mirror(s), S, Nat) = Add(s, S, Nat)
    BY <2>4 DEF Add
  <2>8. PICK g \in [SUBSET S -> Nat] : FoldOf(g, S, 0, Choice(S), Add(s, S, Nat))
    <3> HIDE DEF S
    <3>1. 0 \in Nat
      OBVIOUS
    <3> QED
      BY <2>3, <2>5, <2>6, <3>1, FoldExists
  <2>9. SumOf(s, S) = g[S] /\ SumOf(Mirror(s), S) = g[S] /\ g[S] \in Nat
    <3> HIDE DEF S
    <3>1. \A k \in S : TrueRange(s, k) \in Nat /\ TrueRange(Mirror(s), k) \in Nat
      BY <2>4
    <3>2. FoldOf(g, S, 0, Choice(S), Add(Mirror(s), S, Nat))
      BY <2>7, <2>8
    <3> QED
      BY <2>3, <2>8, <3>1, <3>2, SumIsFold
  <2>10. Atr(s) = SumOf(s, S) \div n /\ Atr(Mirror(s)) = SumOf(Mirror(s), S) \div n
    BY <1>2, MirrorMarket DEF Atr, SumOf, n
  <2>11. g[S] \div n \in Nat
    <3>1. \A x, y \in Nat : y >= 1 => x \div y \in Nat
      OBVIOUS
    <3> QED
      BY <2>2, <2>9, <3>1
  <2> QED
    BY <2>9, <2>10, <2>11
<1> QED
  BY <1>1, <1>2

-----------------------------------------------------------------------------
(* Levels: those of the builder and those of the scorers.                   *)
LevelForm == [entry : Int, stop : Int, target : Int]
GoodBuy(l) ==
  /\ l.stop < l.entry /\ l.entry < l.target
  /\ 10 * (l.target - l.entry) >= 11 * (l.entry - l.stop)

LEMMA MaxOver ==
  ASSUME NEW x \in Int, NEW H, H \subseteq Int, IsFiniteSet(H)
  PROVE  Max({x} \cup H) \in Int /\ Max({x} \cup H) >= x
<1>1. IsFiniteSet({x} \cup H)
  BY FS_Singleton, FS_Union
<1>2. {x} \cup H \subseteq Int /\ {x} \cup H # {} /\ x \in {x} \cup H
  OBVIOUS
<1>3. Max({x} \cup H) \in {x} \cup H /\ Max({x} \cup H) >= x
  BY <1>1, <1>2, MaxMember
<1> QED
  BY <1>2, <1>3

LEMMA ExtremeOfTwo ==
  ASSUME NEW x \in Int, NEW y \in Int
  PROVE  /\ Min({x, y}) \in Int /\ Min({x, y}) <= x /\ Min({x, y}) <= y
         /\ Max({x, y}) \in Int /\ Max({x, y}) >= x /\ Max({x, y}) >= y
         /\ Min({x, y}) \in {x, y}
<1>1. {x, y} = {x} \cup {y} /\ {x, y} \subseteq Int /\ {x, y} # {}
  OBVIOUS
<1>2. IsFiniteSet({x, y})
  <2>1. IsFiniteSet({x}) /\ IsFiniteSet({y})
    BY FS_Singleton
  <2> QED
    BY <1>1, <2>1, FS_Union
<1>3. Min({x, y}) \in {x, y} /\ Min({x, y}) <= x /\ Min({x, y}) <= y
  BY <1>1, <1>2, MinMember
<1>4. Max({x, y}) \in {x, y} /\ Max({x, y}) >= x /\ Max({x, y}) >= y
  BY <1>1, <1>2, MaxMember
<1> QED
  BY <1>1, <1>3, <1>4

LEMMA HighsForm ==
  ASSUME NEW s, IsMarket(s)
  PROVE  LET H == {s[k].high : k \in SwingHighs(s)} IN H \subseteq Int /\ IsFiniteSet(H)
<1> DEFINE H == {s[k].high : k \in SwingHighs(s)}
           f == [k \in SwingHighs(s) |-> s[k].high]
<1>1. SwingHighs(s) \subseteq 1..Len(s) /\ IsFiniteSet(SwingHighs(s))
  BY MirrorMarket, SwingsInside DEF SwingHighs
<1>2. H \subseteq Int
  BY <1>1, MarketForm
<1>3. f \in Surjection(SwingHighs(s), H)
  BY DEF Surjection
<1> QED
  BY <1>1, <1>2, <1>3, FS_Surjection

LEMMA EntryForm ==
  ASSUME NEW s, IsMarket(s)
  PROVE  Entry(s) \in Int /\ (Gaps(s) = {} => Entry(s) = Last(s).close)
<1>1. CASE Gaps(s) = {}
  BY <1>1, LastCandle DEF Entry
<1>2. CASE Gaps(s) # {}
  <2> DEFINE least == Max({3, Len(s) - GapBars + 1})
  <2>1. least \in Int /\ least >= 3
    <3>1. Len(s) - GapBars + 1 \in Int
      BY MarketForm, PipelineAssumption
    <3>2. 3 \in Int
      OBVIOUS
    <3> HIDE DEF least
    <3>3. least \in Int /\ least >= 3
      BY <3>1, <3>2, ExtremeOfTwo DEF least
    <3> QED
      BY <3>3
  <2>2. Gaps(s) \subseteq least..Len(s)
    BY DEF Gaps
  <2> HIDE DEF least
  <2>3. IsFiniteSet(Gaps(s)) /\ Gaps(s) \subseteq Int
    <3>1. least \in Int /\ Len(s) \in Int
      BY <2>1, MarketForm
    <3>2. IsFiniteSet(least..Len(s)) /\ least..Len(s) \subseteq Int
      BY <3>1, FS_Interval
    <3> QED
      BY <2>2, <3>2, FS_Subset
  <2>4. Max(Gaps(s)) \in least..Len(s)
    BY <1>2, <2>2, <2>3, MaxMember
  <2>5. Max(Gaps(s)) \in 1..Len(s) /\ Max(Gaps(s)) - 2 \in 1..Len(s)
    BY <2>1, <2>4, MarketForm
  <2>6. s[Max(Gaps(s)) - 2].high \in Int /\ s[Max(Gaps(s))].low \in Int
    BY <2>5, MarketForm
  <2> QED
    BY <1>2, <2>6 DEF Entry
<1> QED
  BY <1>1, <1>2

LEMMA BuyLevelsForm ==
  ASSUME NEW s, IsMarket(s)
  PROVE  /\ BuyLevels(s) \in LevelForm
         /\ Gaps(s) = {} => /\ BuyLevels(s).stop <= BuyLevels(s).entry
                            /\ ~Still(s) => GoodBuy(BuyLevels(s))
<1> DEFINE H == {s[k].high : k \in SwingHighs(s)}
           entry == Entry(s)
           least == Min({LowOf(s), Last(s).low})
           atr == Atr(s)
           floor == least - (7 * atr) \div 20
           aim == entry + (27 * (entry - floor)) \div 20
           target == Max({aim} \cup H)
<1>1. BuyLevels(s) = [entry |-> entry, stop |-> floor, target |-> target]
  BY DEF BuyLevels, LevelsTo
<1>2. entry \in Int /\ (Gaps(s) = {} => entry = Last(s).close)
  BY EntryForm
<1>3. least \in Int /\ least <= Last(s).low
  BY LowOfInt, LastCandle, ExtremeOfTwo
<1>4. atr \in Nat
  BY AtrForm
<1> HIDE DEF entry, least, atr
<1>5. floor \in Int /\ aim \in Int
  BY <1>2, <1>3, <1>4
<1>6. target \in Int /\ target >= aim
  <2> HIDE DEF aim, H
  <2>1. H \subseteq Int /\ IsFiniteSet(H)
    BY HighsForm DEF H
  <2> QED
    BY <1>5, <2>1, MaxOver
<1>7. least <= Last(s).close
  BY <1>3, LastCandle
<1> HIDE DEF target
<1>8. ASSUME Gaps(s) = {}
      PROVE  floor <= entry /\ (9 <= atr => /\ floor < entry /\ entry < target
                                            /\ 10 * (target - entry) >= 11 * (entry - floor))
  <2>1. least <= entry
    BY <1>2, <1>7, <1>8
  <2>2. floor <= entry
    BY <1>2, <1>3, <1>4, <2>1
  <2>3. ASSUME 9 <= atr
        PROVE  /\ floor < entry /\ entry < target
               /\ 10 * (target - entry) >= 11 * (entry - floor)
    <3>1. entry - floor >= 3
      BY <1>2, <1>3, <1>4, <2>1, <2>3
    <3>2. PICK risk \in Int : risk = entry - floor /\ risk >= 3
      BY <1>2, <1>5, <3>1
    <3>3. 10 * ((27 * risk) \div 20) >= 11 * risk /\ (27 * risk) \div 20 >= 1
      BY <3>2
    <3>4. aim = entry + (27 * risk) \div 20
      BY <3>2
    <3> HIDE DEF aim, floor
    <3> QED
      BY <1>2, <1>5, <1>6, <3>2, <3>3, <3>4
  <2> QED
    BY <2>2, <2>3
<1>9. ~Still(s) => 9 <= atr
  BY <1>4 DEF Still, atr
<1> HIDE DEF floor, aim
<1> QED
  BY <1>1, <1>2, <1>5, <1>6, <1>8, <1>9 DEF LevelForm, GoodBuy

LEMMA BuyFallbackForm ==
  ASSUME NEW s, IsMarket(s), NEW patch \in BOOLEAN
  PROVE  /\ BuyFallback(s, patch) \in LevelForm
         /\ BuyFallback(s, patch).entry = Last(s).close
         /\ ~patch /\ ~Still(s) => GoodBuy(BuyFallback(s, patch))
<1> DEFINE n == Min({Lookback, Len(s)})
           lows == {s[k].low : k \in (Len(s) - n + 1)..Len(s)}
           low == Min(lows)
           entry == Last(s).close
           atr == Atr(s)
           range == IF atr = 0 THEN RiskFloor ELSE atr
           floor == CASE patch -> Min({low, entry - range}) - Max({(7 * range) \div 20, RiskFloor \div 4})
                     [] ~patch /\ atr = 0 -> entry - RiskFloor
                     [] OTHER -> Min({low, entry - Max({(27 * range) \div 20, RiskFloor})})
           risk == entry - floor
           target == entry + (IF patch THEN (29 * risk) \div 20 ELSE (73 * risk) \div 50)
<1>1. BuyFallback(s, patch) = [entry |-> entry, stop |-> floor, target |-> target]
  BY DEF BuyFallback
<1>2. n \in Int /\ 1 <= n /\ n <= Len(s)
  <2>1. Lookback \in Int /\ Lookback >= 1 /\ Len(s) \in Int /\ Len(s) >= 1
    BY MarketForm, PipelineAssumption
  <2> HIDE DEF n
  <2>2. n \in {Lookback, Len(s)} /\ n <= Len(s)
    BY <2>1, ExtremeOfTwo DEF n
  <2> QED
    BY <2>1, <2>2
<1> HIDE DEF n
<1>3. low \in Int
  <2> DEFINE I == (Len(s) - n + 1)..Len(s)
             f == [k \in I |-> s[k].low]
  <2>1. I \subseteq 1..Len(s) /\ Len(s) \in I
    BY <1>2, MarketForm
  <2>2. IsFiniteSet(I)
    <3>1. Len(s) - n + 1 \in Int /\ Len(s) \in Int
      BY <1>2, MarketForm
    <3> QED
      BY <3>1, FS_Interval
  <2>3. lows \subseteq Int
    BY <2>1, MarketForm
  <2>4. lows # {}
    BY <2>1
  <2>5. f \in Surjection(I, lows)
    BY DEF Surjection
  <2>6. IsFiniteSet(lows)
    BY <2>2, <2>5, FS_Surjection
  <2> HIDE DEF lows
  <2> QED
    BY <2>3, <2>4, <2>6, MinMember
<1>4. entry \in Int /\ atr \in Nat /\ RiskFloor \in Nat
  BY LastCandle, AtrForm, PipelineAssumption
<1>5. range \in Nat
  BY <1>4
<1> HIDE DEF low, entry, atr
<1>6. floor \in Int /\ (~patch /\ 9 <= atr => entry - floor >= 12)
  <2>1. CASE patch
    <3> HIDE DEF range
    <3>1. Min({low, entry - range}) \in Int
      BY <1>3, <1>4, <1>5, ExtremeOfTwo
    <3>2. Max({(7 * range) \div 20, RiskFloor \div 4}) \in Int
      BY <1>4, <1>5, ExtremeOfTwo
    <3> QED
      BY <2>1, <3>1, <3>2
  <2>2. CASE ~patch /\ atr = 0
    BY <1>4, <2>2
  <2>3. CASE ~patch /\ atr # 0
    <3> DEFINE most == Max({(27 * range) \div 20, RiskFloor})
    <3>1. most \in Int /\ most >= (27 * range) \div 20
      <4> HIDE DEF range
      <4>1. (27 * range) \div 20 \in Int /\ RiskFloor \in Int
        BY <1>4, <1>5
      <4> HIDE DEF most
      <4> QED
        BY <4>1, ExtremeOfTwo DEF most
    <3> HIDE DEF most
    <3>2. Min({low, entry - most}) \in Int /\ Min({low, entry - most}) <= entry - most
      <4>1. entry - most \in Int
        BY <1>4, <3>1
      <4> QED
        BY <1>3, <4>1, ExtremeOfTwo
    <3>3. range = atr
      BY <2>3
    <3>4. 9 <= atr => (27 * range) \div 20 >= 12
      BY <1>4, <3>3
    <3>5. floor = Min({low, entry - most})
      BY <2>3 DEF most
    <3> HIDE DEF floor, range
    <3> QED
      BY <1>4, <1>5, <3>1, <3>2, <3>4, <3>5
  <2> QED
    BY <2>1, <2>2, <2>3
<1>7. target \in Int /\ (~patch /\ 9 <= atr => /\ floor < entry /\ entry < target
                                               /\ 10 * (target - entry) >= 11 * (entry - floor))
  <2> HIDE DEF floor
  <2>1. risk \in Int
    BY <1>4, <1>6
  <2>2. \A r \in Int : (29 * r) \div 20 \in Int /\ (73 * r) \div 50 \in Int
    OBVIOUS
  <2>3. \A r \in Int : r >= 12 => (73 * r) \div 50 >= 1 /\ 10 * ((73 * r) \div 50) >= 11 * r
    OBVIOUS
  <2>4. target \in Int
    BY <1>4, <2>1, <2>2
  <2>5. ASSUME ~patch, 9 <= atr
        PROVE  floor < entry /\ entry < target /\ 10 * (target - entry) >= 11 * (entry - floor)
    <3>1. risk >= 12 /\ target = entry + (73 * risk) \div 50
      BY <1>6, <2>5
    <3>2. floor < entry
      BY <1>4, <1>6, <3>1
    <3> HIDE DEF target
    <3>3. (73 * risk) \div 50 >= 1 /\ 10 * ((73 * risk) \div 50) >= 11 * risk
      BY <2>1, <2>3, <3>1
    <3> QED
      BY <1>4, <1>6, <2>1, <2>2, <2>4, <3>1, <3>2, <3>3
  <2> QED
    BY <2>4, <2>5
<1>8. ~Still(s) => 9 <= atr
  BY <1>4 DEF Still, atr
<1> HIDE DEF floor, target
<1> QED
  BY <1>1, <1>4, <1>6, <1>7, <1>8 DEF LevelForm, GoodBuy, entry

LEMMA GoodIsSound ==
  ASSUME NEW l \in LevelForm, GoodBuy(l)
  PROVE  /\ Valid("BUY", l) /\ Pays(l, 11)
         /\ Valid("SELL", Reflect(l)) /\ Pays(Reflect(l), 11)
<1>1. PICK entry \in Int, floor \in Int, target \in Int :
        l = [entry |-> entry, stop |-> floor, target |-> target]
  BY DEF LevelForm
<1>2. /\ floor < entry /\ entry < target /\ 10 * (target - entry) >= 11 * (entry - floor)
  BY <1>1 DEF GoodBuy
<1>3. Reflect(l) = [entry |-> -entry, stop |-> -floor, target |-> -target]
  BY <1>1 DEF Reflect
<1>4. l \in LevelForm /\ Reflect(l) \in LevelForm
  BY <1>3 DEF LevelForm
<1>5. l # None /\ Reflect(l) # None
  BY <1>4, PipelineAssumption DEF LevelForm
<1>6. /\ Reward(l) = target - entry /\ Risk(l) = entry - floor
      /\ Reward(Reflect(l)) = target - entry /\ Risk(Reflect(l)) = entry - floor
  BY <1>1, <1>2, <1>3 DEF Reward, Risk, Abs
<1>7. /\ -target < -entry /\ -entry < -floor
  BY <1>2
<1> QED
  BY <1>1, <1>2, <1>3, <1>5, <1>6, <1>7 DEF Valid, Pays

LEMMA ReflectForm ==
  ASSUME NEW l \in LevelForm
  PROVE  Reflect(l) \in LevelForm /\ Reflect(l).entry = -l.entry
BY DEF Reflect, LevelForm

LEMMA LevelsAreNotNone ==
  ASSUME NEW l \in LevelForm
  PROVE  l # None
BY PipelineAssumption DEF LevelForm

-----------------------------------------------------------------------------
(* The idea that a poll scores.                                             *)
SideName == {"BUY", "SELL", "WAIT"}

LEMMA ConditionForm ==
  ASSUME NEW w \in Conditions
  PROVE  /\ w.h4 \in {"bullish", "bearish", "neutral"}
         /\ w.trend \in SideName /\ w.patchTrend \in SideName
BY PipelineAssumption DEF SideName

LEMMA PlanForm ==
  ASSUME NEW s, IsMarket(s), NEW w \in Conditions
  PROVE  LET p == Plan(s, w) IN
         /\ p.side \in SideName
         /\ p.side = "WAIT" => p.levels = None
         /\ p.side = "BUY" => p.levels = BuyLevels(s) /\ (~p.gap => Gaps(s) = {})
         /\ p.side = "SELL" => p.levels = Reflect(BuyLevels(Mirror(s))) /\ (~p.gap => Gaps(Mirror(s)) = {})
<1>1. CASE Len(s) < MinBars
  BY <1>1 DEF Plan, SideName
<1>2. CASE ~(Len(s) < MinBars)
  <2>1. Plan(s, w) = PlanFor(BuiltSide(s, w), s, w)
    BY <1>2 DEF Plan
  <2>2. BuiltSide(s, w) \in SideName
    <3>1. \A up, down : SideOf(up, down, w.h4) \in SideName
      BY ConditionForm DEF SideOf, SideName
    <3> QED
      BY <3>1 DEF BuiltSide
  <2>3. ASSUME NEW side \in SideName
        PROVE  LET p == PlanFor(side, s, w) IN
               /\ p.side = side
               /\ side = "WAIT" => p.levels = None
               /\ side = "BUY" => p.levels = BuyLevels(s) /\ (~p.gap => Gaps(s) = {})
               /\ side = "SELL" => p.levels = Reflect(BuyLevels(Mirror(s))) /\ (~p.gap => Gaps(Mirror(s)) = {})
    BY DEF PlanFor, SideName
  <2> QED
    BY <2>1, <2>2, <2>3
<1> QED
  BY <1>1, <1>2

\* The levels the first scorer leaves, and the price an idea is closed by.
FirstLevels(s, w) == LevelsFor(FirstSide(Plan(s, w), w), Plan(s, w).levels, s, FALSE)
Price(s, w) == IF FirstLevels(s, w) = None THEN Last(s).close ELSE FirstLevels(s, w).entry

LEMMA BothFallbacks ==
  ASSUME NEW s, IsMarket(s), NEW patch \in BOOLEAN
  PROVE  /\ LevelsFor("BUY", None, s, patch) \in LevelForm
         /\ LevelsFor("BUY", None, s, patch).entry = Last(s).close
         /\ LevelsFor("SELL", None, s, patch) \in LevelForm
         /\ LevelsFor("SELL", None, s, patch).entry = Last(s).close
<1>1. LevelsFor("BUY", None, s, patch) = BuyFallback(s, patch)
  BY DEF LevelsFor
<1>2. LevelsFor("SELL", None, s, patch) = Reflect(BuyFallback(Mirror(s), patch))
  BY DEF LevelsFor
<1>3. BuyFallback(s, patch) \in LevelForm /\ BuyFallback(s, patch).entry = Last(s).close
  BY BuyFallbackForm
<1>4. IsMarket(Mirror(s)) /\ Last(Mirror(s)).close = -Last(s).close /\ Last(s).close \in Int
  BY MirrorMarket, LastCandle
<1>5. /\ BuyFallback(Mirror(s), patch) \in LevelForm
      /\ BuyFallback(Mirror(s), patch).entry = -Last(s).close
  BY <1>4, BuyFallbackForm
<1>6. -(-Last(s).close) = Last(s).close
  BY <1>4
<1> QED
  BY <1>1, <1>2, <1>3, <1>5, <1>6, ReflectForm

LEMMA FirstForm ==
  ASSUME NEW s, IsMarket(s), NEW w \in Conditions
  PROVE  LET p == Plan(s, w)
             side == FirstSide(p, w)
             first == FirstLevels(s, w)
         IN /\ side \in SideName
            /\ side = "WAIT" => first = None
            /\ side # "WAIT" => first \in LevelForm
            /\ p.side # "WAIT" => side = p.side /\ first = p.levels
            /\ side # "WAIT" /\ ~p.gap /\ ~Still(s) => Valid(side, first) /\ Pays(first, 11)
<1> DEFINE p == Plan(s, w)
           side == FirstSide(p, w)
           first == FirstLevels(s, w)
<1>1. side \in SideName /\ (p.side # "WAIT" => side = p.side)
  BY PlanForm, ConditionForm DEF FirstSide
<1>2. IsMarket(Mirror(s)) /\ (Still(Mirror(s)) <=> Still(s))
  BY MirrorMarket, AtrForm DEF Still
<1>3. CASE p.side = "BUY"
  <2>1. p.levels = BuyLevels(s) /\ p.levels \in LevelForm
    BY <1>3, PlanForm, BuyLevelsForm
  <2>2. first = p.levels
    BY <2>1, LevelsAreNotNone DEF FirstLevels, LevelsFor
  <2>3. ~p.gap /\ ~Still(s) => GoodBuy(p.levels)
    BY <1>3, <2>1, PlanForm, BuyLevelsForm
  <2>4. side = "BUY"
    BY <1>1, <1>3
  <2> HIDE DEF p, side, first
  <2> QED
    BY <1>1, <1>3, <2>1, <2>2, <2>3, <2>4, GoodIsSound DEF p, side, first
<1>4. CASE p.side = "SELL"
  <2>1. p.levels = Reflect(BuyLevels(Mirror(s))) /\ BuyLevels(Mirror(s)) \in LevelForm
    BY <1>2, <1>4, PlanForm, BuyLevelsForm
  <2>2. p.levels \in LevelForm
    BY <2>1, ReflectForm
  <2>3. first = p.levels
    BY <2>2, LevelsAreNotNone DEF FirstLevels, LevelsFor
  <2>4. ~p.gap /\ ~Still(s) => GoodBuy(BuyLevels(Mirror(s)))
    BY <1>2, <1>4, PlanForm, BuyLevelsForm
  <2>5. side = "SELL"
    BY <1>1, <1>4
  <2> HIDE DEF p, side, first
  <2> QED
    BY <1>1, <1>4, <2>1, <2>2, <2>3, <2>4, <2>5, GoodIsSound DEF p, side, first
<1>5. CASE p.side = "WAIT"
  <2>1. p.levels = None
    BY <1>5, PlanForm
  <2>2. first = LevelsFor(side, None, s, FALSE)
    BY <2>1 DEF FirstLevels
  <2>3. CASE side = "WAIT"
    <3>1. first = None
      BY <2>2, <2>3 DEF LevelsFor
    <3> HIDE DEF p, side, first
    <3> QED
      BY <1>1, <1>5, <2>3, <3>1 DEF p, side, first
  <2>4. CASE side = "BUY"
    <3>1. first = BuyFallback(s, FALSE)
      BY <2>2, <2>4 DEF LevelsFor
    <3>2. first \in LevelForm /\ (~Still(s) => GoodBuy(first))
      BY <3>1, BuyFallbackForm
    <3> HIDE DEF p, side, first
    <3> QED
      BY <1>1, <1>5, <2>4, <3>2, GoodIsSound DEF p, side, first
  <2>5. CASE side = "SELL"
    <3>1. first = Reflect(BuyFallback(Mirror(s), FALSE))
      BY <2>2, <2>5 DEF LevelsFor
    <3>2. /\ BuyFallback(Mirror(s), FALSE) \in LevelForm
          /\ ~Still(s) => GoodBuy(BuyFallback(Mirror(s), FALSE))
      BY <1>2, BuyFallbackForm
    <3>3. first \in LevelForm
      BY <3>1, <3>2, ReflectForm
    <3> HIDE DEF p, side, first
    <3> QED
      BY <1>1, <1>5, <2>5, <3>1, <3>2, <3>3, GoodIsSound DEF p, side, first
  <2> QED
    BY <1>1, <2>3, <2>4, <2>5 DEF SideName
<1> QED
  BY <1>3, <1>4, <1>5, PlanForm DEF SideName

\* What a scored idea carries: the patch keeps levels that the first scorer left.
LEMMA ScoredForm ==
  ASSUME NEW s, IsMarket(s), NEW w \in Conditions, patched \in BOOLEAN
  PROVE  LET p == Plan(s, w)
             i == Scored(s, w)
         IN /\ i.built = p.side /\ i.gap = p.gap
            /\ i.side = IF patched THEN PatchSide(p, w) ELSE FirstSide(p, w)
            /\ i.levels = IF patched THEN LevelsFor(PatchSide(p, w), FirstLevels(s, w), s, TRUE)
                                     ELSE FirstLevels(s, w)
            /\ i.allowed = Allowed(i.side, i.levels, w)
            /\ ~i.mixed => ~Still(s) /\ i.side = FirstSide(p, w)
BY DEF Scored, Judged, Verdict, FirstLevels

LEMMA PatchSideForm ==
  ASSUME NEW s, IsMarket(s), NEW w \in Conditions
  PROVE  LET p == Plan(s, w) IN
         /\ PatchSide(p, w) \in SideName
         /\ FirstSide(p, w) = "SELL" => PatchSide(p, w) = "SELL"
         /\ FirstSide(p, w) = "BUY" => PatchSide(p, w) \in {"BUY", "SELL"}
BY ConditionForm DEF PatchSide, SideName

LEMMA ScoredLevels ==
  ASSUME NEW s, IsMarket(s), NEW w \in Conditions, patched \in BOOLEAN
  PROVE  LET i == Scored(s, w) IN
         /\ i.levels = None \/ i.levels \in LevelForm
         /\ FirstLevels(s, w) # None => i.levels = FirstLevels(s, w)
         /\ PriceOf(i, s) = Price(s, w)
<1> DEFINE p == Plan(s, w)
           i == Scored(s, w)
           first == FirstLevels(s, w)
<1>1. first = None \/ first \in LevelForm
  BY FirstForm
<1>2. CASE first # None
  <2>1. i.levels = first
    <3>1. \A side : LevelsFor(side, first, s, TRUE) = first
      BY <1>2 DEF LevelsFor
    <3> HIDE DEF first
    <3> QED
      BY <3>1, ScoredForm DEF first
  <2> HIDE DEF i, first
  <2> QED
    BY <1>1, <1>2, <2>1 DEF PriceOf, Price, i, first
<1>3. CASE first = None
  <2>1. CASE ~patched
    <3>1. i.levels = None
      BY <1>3, <2>1, ScoredForm
    <3> HIDE DEF i, first
    <3> QED
      BY <1>3, <3>1 DEF PriceOf, Price, i, first
  <2>2. CASE patched
    <3> DEFINE side == PatchSide(p, w)
    <3>1. i.levels = LevelsFor(side, None, s, TRUE)
      BY <1>3, <2>2, ScoredForm
    <3>2. side \in SideName
      BY PatchSideForm
    <3>3. CASE side = "WAIT"
      <4>1. i.levels = None
        BY <3>1, <3>3 DEF LevelsFor
      <4> HIDE DEF i, first
      <4> QED
        BY <1>3, <4>1 DEF PriceOf, Price, i, first
    <3>4. CASE side \in {"BUY", "SELL"}
      <4>1. i.levels \in LevelForm /\ i.levels.entry = Last(s).close
        <5> HIDE DEF i, side
        <5> QED
          BY <3>1, <3>4, BothFallbacks
      <4>2. i.levels # None
        BY <4>1, LevelsAreNotNone
      <4> HIDE DEF i, first
      <4> QED
        BY <1>3, <4>1, <4>2 DEF PriceOf, Price, i, first
    <3> QED
      BY <3>2, <3>3, <3>4 DEF SideName
  <2> QED
    BY <2>1, <2>2
<1> QED
  BY <1>2, <1>3

\* What is allowed is sound; outside a gap it is also of the side it was built for.
LEMMA AllowedForm ==
  ASSUME NEW s, IsMarket(s), NEW w \in Conditions, patched \in BOOLEAN, Scored(s, w).allowed
  PROVE  /\ Sound(Scored(s, w))
         /\ ~Scored(s, w).gap => Scored(s, w).built \in {Scored(s, w).side, "WAIT"}
<1> DEFINE p == Plan(s, w)
           i == Scored(s, w)
           first == FirstLevels(s, w)
<1>1. Valid(i.side, i.levels) /\ Pays(i.levels, 11)
  BY ScoredForm DEF Allowed
<1>2. ASSUME ~i.gap, p.side # "WAIT" PROVE p.side = i.side
  <2>1. p.side \in {"BUY", "SELL"} /\ FirstSide(p, w) = p.side /\ first = p.levels /\ first \in LevelForm
    BY <1>2, PlanForm, FirstForm DEF SideName
  <2>2. ~p.gap /\ i.levels = first
    BY <1>2, <2>1, LevelsAreNotNone, ScoredForm, ScoredLevels
  <2>3. i.side \in {FirstSide(p, w), PatchSide(p, w)}
    BY ScoredForm
  <2>4. CASE p.side = "SELL"
    BY <2>1, <2>3, <2>4, PatchSideForm
  <2>5. CASE p.side = "BUY" /\ i.side = "SELL"
    <3>1. first = BuyLevels(s) /\ first.stop <= first.entry
      BY <2>1, <2>2, <2>5, PlanForm, BuyLevelsForm
    <3>2. first.entry < first.stop
      BY <1>1, <2>2, <2>5 DEF Valid
    <3>3. first.entry \in Int /\ first.stop \in Int
      BY <2>1 DEF LevelForm
    <3> HIDE DEF first
    <3> QED
      BY <3>1, <3>2, <3>3
  <2>6. CASE p.side = "BUY" /\ i.side # "SELL"
    BY <2>1, <2>3, <2>6, PatchSideForm
  <2> QED
    BY <2>1, <2>4, <2>5, <2>6
<1>3. i.built = p.side
  BY ScoredForm
<1> HIDE DEF p, i
<1> QED
  BY <1>1, <1>2, <1>3 DEF Sound, i

\* A directed idea whose sides agree is sound, if the market moved and there was no gap.
LEMMA AgreedForm ==
  ASSUME NEW s, IsMarket(s), NEW w \in Conditions, patched \in BOOLEAN,
         Scored(s, w).side # "WAIT", ~Scored(s, w).gap, ~Scored(s, w).mixed
  PROVE  Sound(Scored(s, w))
<1> DEFINE p == Plan(s, w)
           i == Scored(s, w)
           first == FirstLevels(s, w)
<1>1. ~Still(s) /\ i.side = FirstSide(p, w) /\ ~p.gap
  BY ScoredForm
<1>2. first \in LevelForm /\ Valid(i.side, first) /\ Pays(first, 11)
  BY <1>1, FirstForm
<1>3. i.levels = first
  BY <1>2, LevelsAreNotNone, ScoredLevels
<1> HIDE DEF p, i, first
<1> QED
  BY <1>2, <1>3 DEF Sound, i

-----------------------------------------------------------------------------
(* The invariant: the candles are a market, what was scored and what was    *)
(* locked is as sound as the properties say, and an idea that survived a    *)
(* poll is not hit by the price that poll saw, whichever scorer answered.   *)
PipelineInv ==
  /\ bars \in Seq(Shapes) /\ patched \in BOOLEAN
  /\ active # None => active.levels = None \/ active.levels \in LevelForm
  /\ LockedSound /\ VerdictSound
  /\ poll # None => bars # <<>> /\ poll.world \in Conditions
  /\ poll # None /\ active # None /\ Sound(active) => ~Hit(active, Price(bars, poll.world))

LEMMA BarsAreMarket ==
  ASSUME bars \in Seq(Shapes), bars # <<>>
  PROVE  IsMarket(bars)
<1>1. \A k \in 1..Len(bars) : bars[k] \in Shapes
  OBVIOUS
<1>2. \A b \in Shapes : b \in CandleForm
  BY PipelineAssumption DEF CandleForm
<1>3. bars \in Seq(CandleForm)
  BY <1>2
<1> QED
  BY <1>1, <1>3, PipelineAssumption DEF IsMarket

LEMMA SoundUnhit ==
  ASSUME NEW i, i.levels \in LevelForm, Sound(i)
  PROVE  ~Hit(i, i.levels.entry)
<1>1. i.levels.entry \in Int /\ i.levels.stop \in Int /\ i.levels.target \in Int
  BY DEF LevelForm
<1> QED
  BY <1>1 DEF Sound, Valid, Hit

LEMMA PollKeeps ==
  ASSUME PipelineInv, NEW w \in Conditions, Poll(w)
  PROVE  PipelineInv'
<1> DEFINE i == Scored(bars, w)
           kept == IF active = None \/ Hit(active, PriceOf(i, bars)) THEN None ELSE active
<1>1. IsMarket(bars) /\ patched \in BOOLEAN /\ bars # <<>>
  BY BarsAreMarket DEF PipelineInv, Poll
<1>2. /\ active' = IF kept = None /\ Tradable(i, w) THEN i ELSE kept
      /\ poll' = [world |-> w, idea |-> i] /\ bars' = bars /\ patched' = patched
  BY DEF Poll
<1>3. PriceOf(i, bars) = Price(bars, w) /\ (i.levels = None \/ i.levels \in LevelForm)
  BY <1>1, ScoredLevels
<1>4. i.allowed => Sound(i) /\ (~i.gap => i.built \in {i.side, "WAIT"})
  BY <1>1, AllowedForm
<1>5. i.side # "WAIT" /\ ~i.gap /\ ~i.mixed => Sound(i)
  BY <1>1, AgreedForm
<1>6. Tradable(i, w) => i.side # "WAIT" /\ i.levels # None
  BY DEF Tradable
<1>7. CASE kept = None /\ Tradable(i, w)
  <2>1. active' = i /\ i.levels \in LevelForm
    BY <1>2, <1>3, <1>6, <1>7
  <2>2. Sound(i) => ~Hit(i, Price(bars, w))
    <3>1. Sound(i) => ~Hit(i, i.levels.entry)
      BY <2>1, SoundUnhit
    <3>2. PriceOf(i, bars) = i.levels.entry
      BY <1>6, <1>7 DEF PriceOf
    <3> HIDE DEF i
    <3> QED
      BY <1>3, <3>1, <3>2
  <2> HIDE DEF i, kept
  <2>3. /\ LockedSound' /\ VerdictSound'
    BY <1>2, <1>4, <1>5, <1>6, <1>7, <2>1 DEF LockedSound, VerdictSound, Sound, Valid, Pays, Reward, Risk
  <2>4. poll' # None /\ active' # None /\ Sound(active') => ~Hit(active', Price(bars', poll'.world))
    BY <1>2, <2>1, <2>2
  <2> QED
    BY <1>1, <1>2, <2>1, <2>3, <2>4 DEF PipelineInv
<1>8. CASE ~(kept = None /\ Tradable(i, w))
  <2>1. active' = kept /\ (kept = None \/ (kept = active /\ ~Hit(active, PriceOf(i, bars))))
    BY <1>2, <1>8
  <2> HIDE DEF i, kept
  <2>2. VerdictSound'
    BY <1>2, <1>4 DEF VerdictSound, Sound
  <2>3. LockedSound'
    BY <2>1 DEF LockedSound, PipelineInv
  <2> QED
    BY <1>1, <1>2, <1>3, <2>1, <2>2, <2>3 DEF PipelineInv
<1> QED
  BY <1>7, <1>8

LEMMA PipelineStep == PipelineInv /\ [PipelineNext]_pipelineVars => PipelineInv'
<1> SUFFICES ASSUME PipelineInv, [PipelineNext]_pipelineVars PROVE PipelineInv'
  OBVIOUS
<1>1. ASSUME NEW w \in Conditions, Poll(w) PROVE PipelineInv'
  BY <1>1, PollKeeps
<1>2. ASSUME PollWithout PROVE PipelineInv'
  BY <1>2 DEF PollWithout, PipelineInv, LockedSound, VerdictSound
<1>3. ASSUME Draw PROVE PipelineInv'
  <2>1. bars' \in Seq(Shapes) /\ poll' = None /\ active' = active /\ patched' = patched
    BY <1>3 DEF Draw, PipelineInv
  <2> QED
    BY <2>1 DEF PipelineInv, LockedSound, VerdictSound
<1>4. ASSUME Install \/ Restart PROVE PipelineInv'
  <2>1. bars' = bars /\ poll' = poll /\ active' = active /\ patched' \in BOOLEAN
    BY <1>4 DEF Install, Restart
  <2> QED
    BY <2>1 DEF PipelineInv, LockedSound, VerdictSound, Price
<1>5. ASSUME UNCHANGED pipelineVars PROVE PipelineInv'
  BY <1>5 DEF pipelineVars, PipelineInv, LockedSound, VerdictSound
<1> QED
  BY <1>1, <1>2, <1>3, <1>4, <1>5 DEF PipelineNext

LEMMA PipelineStart == PipelineInit => PipelineInv
<1> SUFFICES ASSUME PipelineInit PROVE PipelineInv
  OBVIOUS
<1>1. bars = <<>> /\ patched = FALSE /\ active = None /\ poll = None
  BY DEF PipelineInit
<1>2. <<>> \in Seq(Shapes) /\ FALSE \in BOOLEAN
  OBVIOUS
<1>3. LockedSound /\ VerdictSound
  BY <1>1 DEF LockedSound, VerdictSound
<1> QED
  BY <1>1, <1>2, <1>3, Zenon DEF PipelineInv

\* Whatever the market draws, however many candles a signal is built from, whenever the
\* patch replaces the scorer: a locked idea whose sides agree is sound outside of gaps
\* and of a market that stands still (build_signal_from_candles, apply_idea_lifecycle).
THEOREM LockedIdeasSound == PipelineSpec => []LockedSound
<1>1. PipelineInv => LockedSound
  BY DEF PipelineInv
<1> QED
  BY <1>1, PipelineStart, PipelineStep, PTL DEF PipelineSpec

\* Whichever scorer answers, what it allows has its levels in order and pays, and is of
\* the builder's side unless the builder entered in a gap (_advisor_signal_from_idea).
THEOREM AllowedIsSound == PipelineSpec => []VerdictSound
<1>1. PipelineInv => VerdictSound
  BY DEF PipelineInv
<1> QED
  BY <1>1, PipelineStart, PipelineStep, PTL DEF PipelineSpec

\* A poll of an unmoved market under unchanged conditions closes no sound idea, even if
\* the scorer was replaced in between, and neither does a poll whose builder failed
\* (apply_idea_lifecycle).
THEOREM CalmMarketKeeps == PipelineSpec => CalmKept
<1> DEFINE Kept == poll # None /\ poll' # None /\ poll.world = poll'.world /\ bars' = bars
                     /\ active # None /\ Sound(active) => active' = active
<1>1. PipelineInv /\ [PipelineNext]_pipelineVars => [Kept]_pipelineVars
  <2> SUFFICES ASSUME PipelineInv, [PipelineNext]_pipelineVars,
                      poll # None, poll' # None, poll.world = poll'.world, bars' = bars,
                      active # None, Sound(active)
               PROVE  active' = active
    BY DEF Kept
  <2>1. ASSUME NEW w \in Conditions, Poll(w) PROVE active' = active
    <3>1. IsMarket(bars) /\ patched \in BOOLEAN
      BY <2>1, BarsAreMarket DEF PipelineInv, Poll
    <3>2. PriceOf(Scored(bars, w), bars) = Price(bars, w)
      BY <3>1, ScoredLevels
    <3>3. poll.world = w
      BY <2>1 DEF Poll
    <3>4. ~Hit(active, PriceOf(Scored(bars, w), bars))
      BY <3>2, <3>3 DEF PipelineInv
    <3> QED
      BY <2>1, <3>4 DEF Poll
  <2>2. ASSUME PollWithout PROVE active' = active
    <3>1. active.levels \in LevelForm
      BY DEF PipelineInv, Sound, Valid
    <3> QED
      BY <2>2, <3>1, SoundUnhit DEF PollWithout
  <2>3. ASSUME Draw PROVE active' = active
    BY <2>3 DEF Draw
  <2>4. ASSUME Install \/ Restart \/ UNCHANGED pipelineVars PROVE active' = active
    BY <2>4 DEF Install, Restart, pipelineVars
  <2> QED
    BY <2>1, <2>2, <2>3, <2>4 DEF PipelineNext
<1> QED
  BY <1>1, PipelineStart, PipelineStep, PTL DEF PipelineSpec, CalmKept

-----------------------------------------------------------------------------
(* A virtual position: what its targets make of it.                         *)

States == {"PENDING", "OPEN", "BREAKEVEN", "CLOSED", "STOPPED", "EXPIRED"}
Positions == [remaining : 0..2, filled : SUBSET Prices, realized : Int, stop : Prices, state : States]

\* One target of the list, and the list itself.
Taken(c, q, level) == IF level \in q.filled \/ ~Toward(c, level) THEN q ELSE Fill(q, level)
Line == IF Len(Targets) > 1 THEN Targets ELSE <<>>

LEMMA TargetsForm ==
  ASSUME signal \in Signals
  PROVE  /\ signal \in Signal
         /\ Targets \in Seq(Prices) /\ Len(Targets) \in Nat
         /\ Len(Targets) > 0
         /\ \E k \in DOMAIN Targets : Targets[k] = signal.target
         /\ Line \in Seq(Prices)
<1>1. signal \in Signal
  BY SignalsAssumption
<1>2. signal.targets \in Seq(Prices) /\ signal.target \in Prices
  BY <1>1 DEF Signal
<1>3. CASE \E k \in DOMAIN signal.targets : signal.targets[k] = signal.target
  <2>1. Targets = signal.targets
    BY <1>3 DEF Targets
  <2>2. PICK k \in DOMAIN signal.targets : signal.targets[k] = signal.target
    BY <1>3
  <2>3. DOMAIN signal.targets = 1..Len(signal.targets) /\ Len(signal.targets) \in Nat
    BY <1>2
  <2>4. Len(signal.targets) > 0
    BY <2>2, <2>3
  <2> QED
    BY <1>1, <1>2, <2>1, <2>2, <2>4 DEF Line
<1>4. CASE ~\E k \in DOMAIN signal.targets : signal.targets[k] = signal.target
  <2>1. Targets = <<signal.target>> \o signal.targets
    BY <1>4 DEF Targets
  <2>2. /\ Targets \in Seq(Prices) /\ Len(Targets) = 1 + Len(signal.targets)
        /\ Len(signal.targets) \in Nat /\ Targets[1] = signal.target
    BY <1>2, <2>1
  <2>3. Len(Targets) \in Nat /\ Len(Targets) > 0 /\ 1 \in DOMAIN Targets
    BY <2>2
  <2> QED
    BY <1>1, <2>2, <2>3 DEF Line
<1> QED
  BY <1>3, <1>4

\* Whatever a position is before a target of the list and after it, it is after the list.
LEMMA TargetsKeep ==
  ASSUME signal \in Signals, NEW c, NEW V, NEW p \in V,
         \A q \in V : \A k \in DOMAIN Line : Taken(c, q, Line[k]) \in V
  PROVE  FillTargets(c, p) \in V
<1> DEFINE S == DOMAIN Line
           P(f) == f = [t \in SUBSET S |-> IF t = {} THEN p
                          ELSE Taken(c, f[t \ {Max(t)}], Line[Max(t)])]
           choice == [t \in SUBSET S |-> Max(t)]
           take(W) == [x \in S \X W |-> Taken(c, x[2], Line[x[1]])]
<1>1. FillTargets(c, p) = (CHOOSE f : P(f))[S]
  BY DEF FillTargets, FoldLeft, MapThenFoldSet, Taken, Line
<1>2. Line \in Seq(Prices) /\ IsFiniteSet(S) /\ S \subseteq Int
  <2>1. Line \in Seq(Prices)
    BY TargetsForm
  <2>2. S = 1..Len(Line) /\ Len(Line) \in Nat
    BY <2>1
  <2>3. IsFiniteSet(1..Len(Line))
    BY <2>2, FS_Interval
  <2>4. S \subseteq Int
    BY <2>2
  <2> QED
    BY <2>1, <2>2, <2>3, <2>4
<1>3. \A t \in SUBSET S : t # {} => choice[t] \in t /\ choice[t] = Max(t)
  <2> SUFFICES ASSUME NEW t \in SUBSET S, t # {} PROVE Max(t) \in t
    OBVIOUS
  <2>1. IsFiniteSet(t) /\ t \subseteq Int
    BY <1>2, FS_Subset
  <2> QED
    BY <2>1, MaxMember
<1> HIDE DEF S
<1>4. PICK g \in [SUBSET S -> V] : FoldOf(g, S, p, choice, take(V))
  <2>1. take(V) \in [S \X V -> V]
    BY DEF S
  <2>2. \A t \in SUBSET S : t # {} => choice[t] \in t
    BY <1>3
  <2> HIDE DEF choice, take
  <2> QED
    BY <1>2, <2>1, <2>2, FoldExists
<1>5. g[{}] = p /\ \A t \in SUBSET S : t # {} => g[t] = Taken(c, g[t \ {Max(t)}], Line[Max(t)])
  <2>1. ASSUME NEW t \in SUBSET S, t # {} PROVE g[t] = Taken(c, g[t \ {Max(t)}], Line[Max(t)])
    <3>1. g[t] = take(V)[<<choice[t], g[t \ {choice[t]}]>>]
      BY <1>4, <2>1 DEF FoldOf
    <3>2. choice[t] \in S /\ choice[t] = Max(t) /\ g[t \ {choice[t]}] \in V
      BY <1>3, <2>1
    <3> HIDE DEF choice
    <3> QED
      BY <3>1, <3>2
  <2> QED
    BY <1>4, <2>1 DEF FoldOf
<1>6. P(g)
  BY <1>4, <1>5
<1>7. PICK f : P(f) /\ f = CHOOSE e : P(e)
  BY <1>6
<1>8. f[{}] = p /\ \A t \in SUBSET S : t # {} => f[t] = Taken(c, f[t \ {Max(t)}], Line[Max(t)])
  BY <1>7
<1> DEFINE W == V \cup {f[t] : t \in SUBSET S}
<1>9. FoldOf(f, S, p, choice, take(W))
  <2>1. ASSUME NEW t \in SUBSET S, t # {} PROVE f[t] = take(W)[<<choice[t], f[t \ {choice[t]}]>>]
    <3>1. choice[t] \in S /\ choice[t] = Max(t) /\ f[t \ {choice[t]}] \in W
      BY <1>3, <2>1
    <3> HIDE DEF choice, W
    <3> QED
      BY <1>8, <2>1, <3>1
  <2> QED
    BY <1>8, <2>1 DEF FoldOf
<1>10. FoldOf(g, S, p, choice, take(W))
  <2>1. ASSUME NEW t \in SUBSET S, t # {} PROVE g[t] = take(W)[<<choice[t], g[t \ {choice[t]}]>>]
    <3>1. choice[t] \in S /\ choice[t] = Max(t) /\ g[t \ {choice[t]}] \in W
      BY <1>3, <2>1
    <3> HIDE DEF choice, W
    <3> QED
      BY <1>5, <2>1, <3>1
  <2> QED
    BY <1>5, <2>1 DEF FoldOf
<1>11. f[S] = g[S]
  <2>1. \A t \in SUBSET S : t # {} => choice[t] \in t
    BY <1>3
  <2> HIDE DEF P, W, choice, take
  <2> QED
    BY <1>2, <1>9, <1>10, <2>1, FoldUnique
<1>12. g[S] \in V
  BY <1>4
<1> HIDE DEF P
<1> QED
  BY <1>1, <1>7, <1>11, <1>12

\* A position before its first target, and one that took a target at a profit: what is
\* left of it can no longer lose.
Untouched(q) == q.filled = {} /\ q.stop = signal.stop /\ q.remaining = 2 /\ q.realized = 0
Secured(q) == q.filled # {} /\ q.realized > 0 /\ q.stop = signal.entry /\ q.remaining \in {0, 1}
Safe == {q \in Positions : WellPlaced => Untouched(q) \/ Secured(q)}

LEMMA SignalForm ==
  ASSUME signal \in Signals
  PROVE  /\ signal.side \in {"BUY", "SELL"}
         /\ signal.entry \in Int /\ signal.stop \in Int /\ signal.target \in Int
         /\ signal.entry \in Prices /\ signal.stop \in Prices /\ signal.target \in Prices
<1>1. signal \in Signal
  BY SignalsAssumption
<1> QED
  BY <1>1 DEF Signal, Prices

LEMMA GainForm ==
  ASSUME signal \in Signals, NEW price \in Int
  PROVE  Gain(price) \in Int /\ Gain(signal.entry) = 0
BY SignalForm DEF Gain

LEMMA FillForm ==
  ASSUME signal \in Signals, NEW q \in Positions, NEW level \in Prices
  PROVE  /\ Fill(q, level) \in Positions
         /\ WellPlaced /\ Gain(level) > 0 /\ (Untouched(q) \/ Secured(q)) => Secured(Fill(q, level))
<1> DEFINE part == IF q.remaining = 2 THEN 1 ELSE q.remaining
           left == q.remaining - part
<1>1. /\ q.remaining \in 0..2 /\ q.filled \in SUBSET Prices /\ q.realized \in Int
      /\ q.stop \in Prices /\ q.state \in States
  BY DEF Positions
<1>2. part \in {0, 1} /\ left \in {0, 1}
  BY <1>1
<1>3. Fill(q, level) =
        [remaining |-> left, filled |-> q.filled \cup {level},
         realized |-> q.realized + Gain(level) * part,
         stop |-> IF left > 0 THEN signal.entry ELSE q.stop,
         state |-> IF left > 0 THEN "BREAKEVEN" ELSE "CLOSED"]
  BY DEF Fill
<1>4. Gain(level) \in Int
  BY GainForm DEF Prices
<1>5. Gain(level) * part \in Int /\ (part = 1 => Gain(level) * part = Gain(level))
      /\ (part = 0 => Gain(level) * part = 0)
  <2> HIDE DEF part
  <2> QED
    BY <1>2, <1>4
<1>6. Fill(q, level) \in Positions
  <2> HIDE DEF part, left
  <2>1. q.realized + Gain(level) * part \in Int
    BY <1>1, <1>5
  <2> QED
    BY <1>1, <1>2, <1>3, <2>1, SignalForm DEF Positions, States
<1>7. ASSUME WellPlaced, Gain(level) > 0, Untouched(q) \/ Secured(q)
      PROVE  Secured(Fill(q, level))
  <2>1. CASE Untouched(q)
    <3>1. part = 1 /\ left = 1
      BY <2>1 DEF Untouched
    <3>2. q.realized + Gain(level) * part > 0
      <4> HIDE DEF part
      <4> QED
        BY <1>4, <1>5, <1>7, <2>1, <3>1 DEF Untouched
    <3> HIDE DEF part, left
    <3> QED
      BY <1>3, <3>1, <3>2 DEF Secured
  <2>2. CASE Secured(q)
    <3>1. left = 0 /\ part = q.remaining
      BY <2>2 DEF Secured
    <3>2. q.realized + Gain(level) * part > 0
      <4> HIDE DEF part
      <4> QED
        BY <1>1, <1>2, <1>4, <1>5, <1>7, <2>2 DEF Secured
    <3> HIDE DEF part, left
    <3> QED
      BY <1>3, <2>2, <3>1, <3>2 DEF Secured
  <2> QED
    BY <1>7, <2>1, <2>2
<1> QED
  BY <1>6, <1>7

LEMMA TargetsSecure ==
  ASSUME signal \in Signals, NEW c, NEW p \in Safe
  PROVE  FillTargets(c, p) \in Safe
<1>1. ASSUME NEW q \in Safe, NEW k \in DOMAIN Line PROVE Taken(c, q, Line[k]) \in Safe
  <2>1. Line[k] \in Prices
    BY TargetsForm
  <2>2. WellPlaced => Gain(Line[k]) > 0
    BY DEF Line, WellPlaced
  <2>3. q \in Positions /\ (WellPlaced => Untouched(q) \/ Secured(q))
    BY DEF Safe
  <2>4. /\ Fill(q, Line[k]) \in Positions
        /\ WellPlaced => Secured(Fill(q, Line[k]))
    BY <2>1, <2>2, <2>3, FillForm
  <2>5. Taken(c, q, Line[k]) \in {q, Fill(q, Line[k])}
    BY DEF Taken
  <2> QED
    BY <2>3, <2>4, <2>5 DEF Safe
<1> QED
  BY <1>1, TargetsKeep

\* A single target is not taken in part.
LEMMA SingleTarget ==
  ASSUME signal \in Signals, Len(Targets) = 1, NEW c, NEW p
  PROVE  FillTargets(c, p) = p
<1>1. Line = <<>>
  BY DEF Line
<1>2. DOMAIN Line = {}
  BY <1>1
<1>3. FillTargets(c, p) \in {p}
  BY <1>2, TargetsKeep
<1> QED
  BY <1>3

\* Gains at the levels of a position whose levels are well placed.
LEMMA PlacedGains ==
  ASSUME signal \in Signals, WellPlaced
  PROVE  Gain(signal.target) > 0 /\ Gain(signal.stop) < 0 /\ signal.stop # signal.entry
<1>1. PICK k \in DOMAIN Targets : Targets[k] = signal.target
  BY TargetsForm
<1>2. Gain(signal.target) > 0
  BY <1>1 DEF WellPlaced
<1>3. Gain(signal.stop) < 0 /\ Gain(signal.entry) = 0
  BY GainForm, SignalForm DEF WellPlaced
<1> QED
  BY <1>2, <1>3

\* The position as the walk over a candle starts with it.
Opened == [remaining |-> remaining, filled |-> filled, realized |-> realized,
           stop |-> stop, state |-> IF state = "PENDING" THEN "OPEN" ELSE state]

\* The invariant: while candles are walked, nothing was taken, or a target was and the
\* stop is at the entry.
PositionInv ==
  /\ PositionTypeOK
  /\ running => Opened \in Safe
  /\ LossBounded

LEMMA SafeForm ==
  ASSUME PositionTypeOK, running
  PROVE  Opened \in Safe <=> (WellPlaced => Untouched(Opened) \/ Secured(Opened))
<1>1. Opened \in Positions
  BY DEF PositionTypeOK, Opened, Positions, States
<1> QED
  BY <1>1 DEF Safe

LEMMA CandleTypes ==
  ASSUME NEW c \in Candles
  PROVE  c.high \in Int /\ c.low \in Int /\ c.close \in Int
BY CandlesAssumption DEF Prices

LEMMA Longer ==
  ASSUME PositionTypeOK, NEW c \in Candles, Advance(c)
  PROVE  seen' \in Seq(Candles) /\ late' \in BOOLEAN
<1>1. seen \in Seq(Candles) /\ late \in BOOLEAN
  BY Zenon DEF PositionTypeOK
<1>2. seen' = Append(seen, c) /\ (late' = late \/ late' = TRUE)
  BY DEF Advance
<1>3. seen' \in Seq(Candles)
  BY <1>1, <1>2
<1>4. late' \in BOOLEAN
  BY <1>1, <1>2, Zenon
<1> QED
  BY <1>3, <1>4

LEMMA TradeKeeps ==
  ASSUME PositionInv, running, NEW c \in Candles, Trade(c), Advance(c)
  PROVE  PositionInv'
<1> DEFINE p == FillTargets(c, Opened)
           exit == IF StopHit(c, p) THEN p.stop ELSE signal.target
           pnl == p.realized + Gain(exit) * p.remaining
           last == IF StopHit(c, p) /\ exit # signal.entry THEN "STOPPED" ELSE "CLOSED"
<1>1. signal \in Signals /\ signal' = signal
  BY DEF PositionInv, PositionTypeOK, Advance
<1>2. Opened \in Safe /\ p \in Safe
  BY <1>1, TargetsSecure DEF PositionInv
<1>3. /\ p \in Positions /\ p.remaining \in 0..2 /\ p.filled \subseteq Prices /\ p.realized \in Int
      /\ p.stop \in Prices /\ p.state \in States
  <2> HIDE DEF p
  <2> QED
    BY <1>2 DEF Safe, Positions
<1>4. seen' \in Seq(Candles) /\ late' \in BOOLEAN
  BY Longer DEF PositionInv
<1>5. exit \in Prices /\ Gain(exit) \in Int
  <2>1. exit \in Prices
    <3> HIDE DEF p
    <3> QED
      BY <1>1, <1>3, SignalForm
  <2> HIDE DEF exit
  <2> QED
    BY <1>1, <2>1, GainForm DEF Prices
<1>6. pnl \in Int
  <2>1. Gain(exit) * p.remaining \in Int
    <3> HIDE DEF exit, p
    <3> QED
      BY <1>3, <1>5
  <2> HIDE DEF exit, p
  <2> QED
    BY <1>3, <2>1
<1>7. CASE StopHit(c, p) \/ TargetHit(c)
  <2>1. /\ state' = last /\ remaining' = 0 /\ realized' = pnl /\ floating' = 0
        /\ trade' = [pnl |-> pnl, outcome |-> IF last = "STOPPED" THEN "SL" ELSE "TP"]
        /\ running' = FALSE /\ stop' = p.stop /\ filled' = p.filled
    BY <1>7 DEF Trade, Opened
  <2>2. last \in {"STOPPED", "CLOSED"}
    OBVIOUS
  <2>3. PositionTypeOK'
    <3>1. trade' \in [pnl : Int, outcome : {"none", "SL", "TP"}]
      <4> HIDE DEF p, pnl, last
      <4> QED
        BY <1>6, <2>1
    <3>2. state' \in States /\ 0 \in 0..2 /\ 0 \in Int /\ FALSE \in BOOLEAN
      <4> HIDE DEF last
      <4> QED
        BY <2>1, <2>2 DEF States
    <3> HIDE DEF p, pnl, last
    <3> QED
      BY <1>1, <1>3, <1>4, <1>6, <2>1, <3>1, <3>2, Zenon DEF PositionTypeOK, States
  <2>4. ASSUME WellPlaced PROVE realized' \in {- AtRisk} \cup Nat /\ (filled' # {} => realized' > 0)
    <3>1. Gain(signal.target) > 0 /\ Gain(signal.entry) = 0 /\ Gain(signal.stop) \in Int
          /\ Gain(signal.target) \in Int
      BY <1>1, <2>4, PlacedGains, GainForm, SignalForm
    <3>2. Untouched(p) \/ Secured(p)
      <4> HIDE DEF p
      <4> QED
        BY <1>2, <2>4 DEF Safe
    <3>3. CASE Untouched(p)
      <4>1. p.filled = {} /\ p.stop = signal.stop /\ p.remaining = 2 /\ p.realized = 0
        BY <3>3 DEF Untouched
      <4>2. exit \in {signal.stop, signal.target}
        <5> HIDE DEF p
        <5> QED
          BY <4>1
      <4>3. pnl = Gain(exit) * 2
        <5> HIDE DEF p, exit
        <5> QED
          BY <1>5, <4>1
      <4>4. exit = signal.stop => pnl = - AtRisk
        <5> HIDE DEF exit, pnl, p
        <5> QED
          BY <3>1, <4>3 DEF AtRisk
      <4>5. exit = signal.target => pnl \in Nat
        <5> HIDE DEF exit, pnl, p
        <5> QED
          BY <3>1, <4>3
      <4> HIDE DEF exit, pnl, p
      <4> QED
        BY <2>1, <4>1, <4>2, <4>4, <4>5
    <3>4. CASE Secured(p)
      <4>1. p.realized > 0 /\ p.stop = signal.entry /\ p.remaining \in {0, 1}
        BY <3>4 DEF Secured
      <4>2. exit \in {signal.entry, signal.target}
        <5> HIDE DEF p
        <5> QED
          BY <4>1
      <4>3. Gain(exit) >= 0
        <5> HIDE DEF p, exit
        <5> QED
          BY <3>1, <4>2
      <4>4. Gain(exit) * p.remaining >= 0
        <5> HIDE DEF p, exit
        <5> QED
          BY <1>5, <4>1, <4>3
      <4>5. pnl > 0
        <5>1. Gain(exit) * p.remaining \in Int
          <6> HIDE DEF p, exit
          <6> QED
            BY <1>3, <1>5
        <5> HIDE DEF p, exit
        <5> QED
          BY <1>3, <4>1, <4>4, <5>1
      <4> HIDE DEF exit, pnl, p
      <4> QED
        BY <1>6, <2>1, <4>5
    <3> QED
      BY <3>2, <3>3, <3>4
  <2>5. LossBounded'
    <3> HIDE DEF p, pnl
    <3> QED
      BY <1>1, <2>4 DEF LossBounded, WellPlaced, AtRisk, Targets, Gain
  <2> QED
    BY <2>1, <2>3, <2>5 DEF PositionInv
<1>8. CASE ~(StopHit(c, p) \/ TargetHit(c))
  <2>1. /\ state' = p.state /\ remaining' = p.remaining /\ realized' = p.realized
        /\ floating' = Gain(c.close) * remaining
        /\ stop' = p.stop /\ filled' = p.filled /\ trade' = trade /\ running' = running
    BY <1>8 DEF Trade, Opened
  <2>2. floating' \in Int
    <3>1. Gain(c.close) \in Int /\ remaining \in Int
      BY <1>1, CandleTypes, GainForm DEF PositionInv, PositionTypeOK
    <3> HIDE DEF p
    <3> QED
      BY <2>1, <3>1
  <2>3. PositionTypeOK'
    <3> HIDE DEF p
    <3> QED
      BY <1>1, <1>3, <1>4, <2>1, <2>2 DEF PositionTypeOK, PositionInv, States
  <2>4. ASSUME WellPlaced
        PROVE  /\ Untouched(Opened') \/ Secured(Opened')
               /\ realized' \in {- AtRisk} \cup Nat /\ (filled' # {} => realized' > 0)
    <3>1. Untouched(p) \/ Secured(p)
      <4> HIDE DEF p
      <4> QED
        BY <1>2, <2>4 DEF Safe
    <3>2. /\ Opened'.filled = p.filled /\ Opened'.stop = p.stop
          /\ Opened'.remaining = p.remaining /\ Opened'.realized = p.realized
      <4> HIDE DEF p
      <4> QED
        BY <2>1 DEF Opened
    <3> HIDE DEF p
    <3> QED
      BY <1>3, <2>1, <3>1, <3>2 DEF Untouched, Secured
  <2>5. LossBounded'
    <3> HIDE DEF p
    <3> QED
      BY <1>1, <2>4 DEF LossBounded, WellPlaced, AtRisk, Targets, Gain
  <2>6. WellPlaced' <=> WellPlaced
    BY <1>1 DEF WellPlaced, Targets, Gain
  <2>7. Opened' \in Positions
    <3> HIDE DEF p
    <3> QED
      BY <2>3 DEF PositionTypeOK, Opened, Positions, States
  <2>8. Opened' \in Safe'
    <3> HIDE DEF p
    <3> QED
      BY <1>1, <2>4, <2>6, <2>7 DEF Safe, Untouched, Secured
  <2> QED
    BY <2>3, <2>5, <2>8 DEF PositionInv
<1> QED
  BY <1>7, <1>8

LEMMA PositionStart == PositionInit => PositionInv
<1> SUFFICES ASSUME PositionInit PROVE PositionInv
  OBVIOUS
<1>1. /\ signal \in Signals /\ state = "PENDING" /\ stop = signal.stop /\ remaining = 2
      /\ filled = {} /\ realized = 0 /\ floating = 0 /\ trade = NoTrade
      /\ running = TRUE /\ late \in BOOLEAN /\ seen = <<>>
  BY DEF PositionInit
<1>2. <<>> \in Seq(Candles)
  OBVIOUS
<1>3. PositionTypeOK
  BY <1>1, <1>2, SignalForm DEF PositionTypeOK, NoTrade
<1>4. Untouched(Opened)
  BY <1>1 DEF Untouched, Opened
<1>5. LossBounded
  BY <1>1 DEF LossBounded
<1> QED
  BY <1>1, <1>3, <1>4, <1>5, SafeForm DEF PositionInv

LEMMA PositionStep == PositionInv /\ [PositionNext]_positionVars => PositionInv'
<1> SUFFICES ASSUME PositionInv, [PositionNext]_positionVars PROVE PositionInv'
  OBVIOUS
<1>1. ASSUME NEW c \in Candles, Enter(c) \/ Manage(c) PROVE PositionInv'
  BY <1>1, TradeKeeps DEF Enter, Manage, Advance
<1>2. ASSUME UNCHANGED <<signal, stop, remaining, filled, realized>>, PositionTypeOK',
             running' => running /\ (state' = state \/ state' = "EXPIRED")
      PROVE  PositionInv'
  <2>1. LossBounded'
    BY <1>2 DEF PositionInv, LossBounded, WellPlaced, AtRisk, Targets, Gain
  <2>2. ASSUME running' PROVE Opened' \in Safe'
    <3>1. Opened' \in Positions
      BY <1>2, <2>2 DEF PositionTypeOK, Opened, Positions, States
    <3>2. Opened \in Safe
      BY <1>2, <2>2 DEF PositionInv
    <3>3. /\ Opened'.filled = Opened.filled /\ Opened'.stop = Opened.stop
          /\ Opened'.remaining = Opened.remaining /\ Opened'.realized = Opened.realized
      BY <1>2 DEF Opened
    <3>4. WellPlaced' <=> WellPlaced
      BY <1>2 DEF WellPlaced, Targets, Gain
    <3> QED
      BY <1>2, <3>1, <3>2, <3>3, <3>4 DEF Safe, Untouched, Secured
  <2> QED
    BY <1>2, <2>1, <2>2 DEF PositionInv
<1>3. ASSUME NEW c \in Candles, Expire(c) \/ StayPending(c) PROVE PositionInv'
  <2>1. /\ UNCHANGED <<signal, stop, remaining, filled, realized, floating, trade, running>>
        /\ running /\ state' \in {state, "EXPIRED"}
        /\ seen' = Append(seen, c) /\ late' \in {late, TRUE}
    BY <1>3 DEF Expire, StayPending, Advance, position
  <2>2. PositionTypeOK'
    <3>1. seen' \in Seq(Candles) /\ late' \in BOOLEAN
      BY <1>3, Longer DEF PositionInv, Expire, StayPending
    <3>2. state' \in States
      BY <2>1 DEF PositionTypeOK, PositionInv, States
    <3> QED
      BY <2>1, <3>1, <3>2, Zenon DEF PositionTypeOK, PositionInv, States
  <2> QED
    BY <1>2, <2>1, <2>2
<1>4. ASSUME Finish PROVE PositionInv'
  <2>1. /\ UNCHANGED <<signal, stop, remaining, filled, realized, floating, trade, late, seen>>
        /\ running' = FALSE /\ state' \in {state, "EXPIRED"}
    BY <1>4 DEF Finish
  <2>2. PositionTypeOK'
    BY <2>1 DEF PositionTypeOK, PositionInv
  <2> QED
    BY <1>2, <2>1, <2>2
<1>5. ASSUME UNCHANGED positionVars PROVE PositionInv'
  <2>1. /\ UNCHANGED <<signal, stop, remaining, filled, realized, floating, trade, late, seen>>
        /\ running' = running /\ state' = state
    BY <1>5 DEF positionVars, position
  <2>2. PositionTypeOK'
    BY <2>1 DEF PositionTypeOK, PositionInv
  <2> QED
    BY <1>2, <2>1, <2>2
<1> QED
  BY <1>1, <1>3, <1>4, <1>5 DEF PositionNext

\* Whatever signals are approved and whatever the market draws: a position whose levels
\* are where a trader puts them loses what it risks or nothing, and nothing once a target
\* was taken (PositionManager.update).
THEOREM LossIsBounded == PositionSpec => []LossBounded
<1>1. PositionInv => LossBounded
  BY DEF PositionInv
<1> QED
  BY <1>1, PositionStart, PositionStep, PTL DEF PositionSpec

\* A position keeps its type, with targets among its prices and a remainder of at most
\* what was opened, through any partial closes, expiries and exits.
THEOREM PositionTypes == PositionSpec => []PositionTypeOK
<1>1. PositionInv => PositionTypeOK
  BY DEF PositionInv
<1> QED
  BY <1>1, PositionStart, PositionStep, PTL DEF PositionSpec

\* The candles that hold the entry, and those that end a position entered by then.
EnteredIn(s) == {k \in DOMAIN s : Against(s[k], signal.entry)}
Ends(c) == Against(c, signal.stop) \/ Toward(c, signal.target)
EndedIn(s) == {k \in DOMAIN s : (\E e \in EnteredIn(s) : e <= k) /\ Ends(s[k])}

LEMMA OneMore ==
  ASSUME NEW s \in Seq(Candles), NEW c \in Candles
  PROVE  /\ Len(s) \in Nat /\ Len(s) + 1 \in DOMAIN Append(s, c)
         /\ Append(s, c)[Len(s) + 1] = c
         /\ EnteredIn(Append(s, c)) = EnteredIn(s) \cup (IF Against(c, signal.entry) THEN {Len(s) + 1} ELSE {})
         /\ EndedIn(Append(s, c)) =
              EndedIn(s) \cup (IF Ends(c) /\ EnteredIn(Append(s, c)) # {} THEN {Len(s) + 1} ELSE {})
<1> DEFINE n == Len(s)
           t == Append(s, c)
<1>1. /\ n \in Nat /\ DOMAIN s = 1..n /\ DOMAIN t = 1..(n + 1)
      /\ t[n + 1] = c /\ \A k \in 1..n : t[k] = s[k]
  OBVIOUS
<1>2. DOMAIN t = DOMAIN s \cup {n + 1} /\ n + 1 \notin DOMAIN s
  <2> HIDE DEF t, n
  <2> QED
    BY <1>1
<1>3. \A k \in DOMAIN s : t[k] = s[k] /\ k < n + 1 /\ k \in Nat
  <2> HIDE DEF t, n
  <2> QED
    BY <1>1
<1>4. EnteredIn(t) = EnteredIn(s) \cup (IF Against(c, signal.entry) THEN {n + 1} ELSE {})
  <2> HIDE DEF t, n
  <2> QED
    BY <1>1, <1>2, <1>3 DEF EnteredIn
<1>5. \A k \in DOMAIN s : (\E e \in EnteredIn(t) : e <= k) <=> (\E e \in EnteredIn(s) : e <= k)
  <2>1. EnteredIn(s) \subseteq DOMAIN s
    BY DEF EnteredIn
  <2>2. \A k \in DOMAIN s : ~(n + 1 <= k)
    <3> HIDE DEF t, n
    <3> QED
      BY <1>1, <1>3
  <2> HIDE DEF t, n
  <2> QED
    BY <1>4, <2>1, <2>2
<1>6. (\E e \in EnteredIn(t) : e <= n + 1) <=> EnteredIn(t) # {}
  <2>1. \A e \in EnteredIn(t) : e \in 1..(n + 1)
    <3> HIDE DEF t, n
    <3> QED
      BY <1>1 DEF EnteredIn
  <2> HIDE DEF t, n
  <2> QED
    BY <1>1, <2>1
<1>7. EndedIn(t) = EndedIn(s) \cup (IF Ends(c) /\ EnteredIn(t) # {} THEN {n + 1} ELSE {})
  <2>1. \A k \in DOMAIN s : k \in EndedIn(t) <=> k \in EndedIn(s)
    <3> HIDE DEF t, n
    <3> QED
      BY <1>2, <1>3, <1>5 DEF EndedIn
  <2>2. n + 1 \in EndedIn(t) <=> Ends(c) /\ EnteredIn(t) # {}
    <3> HIDE DEF t, n
    <3> QED
      BY <1>1, <1>2, <1>6 DEF EndedIn
  <2>3. EndedIn(t) \subseteq DOMAIN t /\ EndedIn(s) \subseteq DOMAIN s
    BY DEF EndedIn
  <2> HIDE DEF t, n
  <2> QED
    BY <1>2, <2>1, <2>2, <2>3
<1> QED
  BY <1>1, <1>2, <1>4, <1>7

\* Where a position of a single target stands: not entered, entered, or ended by the
\* candle that was walked last.
Waiting ==
  /\ EnteredIn(seen) = {}
  /\ state = IF running THEN "PENDING" ELSE "EXPIRED"
  /\ filled = {} /\ stop = signal.stop /\ remaining = 2 /\ realized = 0 /\ trade = NoTrade
Holding ==
  /\ EnteredIn(seen) # {} /\ EndedIn(seen) = {}
  /\ state = "OPEN"
  /\ filled = {} /\ stop = signal.stop /\ remaining = 2 /\ realized = 0 /\ trade = NoTrade
Ended ==
  /\ ~running
  /\ EnteredIn(seen) # {} /\ EndedIn(seen) = {Len(seen)}
  /\ trade # NoTrade /\ trade.pnl = realized
  /\ state = IF Against(seen[Len(seen)], signal.stop) THEN "STOPPED" ELSE "CLOSED"
  /\ realized = 2 * (IF Against(seen[Len(seen)], signal.stop) THEN Gain(signal.stop) ELSE Gain(signal.target))

ReferenceInv ==
  /\ PositionInv
  /\ WellPlaced /\ Len(Targets) = 1 /\ ~late => Waiting \/ Holding \/ Ended

LEMMA ReferenceRead ==
  ASSUME ReferenceInv
  PROVE  MatchesReference
<1> SUFFICES ASSUME WellPlaced, Len(Targets) = 1, ~late
             PROVE  /\ [state |-> state, realized |-> realized] = Reference
                    /\ trade # NoTrade <=> state \in {"STOPPED", "CLOSED"}
                    /\ trade # NoTrade => trade.pnl = realized
  BY DEF MatchesReference
<1> DEFINE first == CHOOSE k \in EndedIn(seen) : \A m \in EndedIn(seen) : k <= m
<1>1. Waiting \/ Holding \/ Ended
  BY DEF ReferenceInv
<1>2. Reference =
        CASE EnteredIn(seen) = {} -> [state |-> IF running THEN "PENDING" ELSE "EXPIRED", realized |-> 0]
          [] EnteredIn(seen) # {} /\ EndedIn(seen) = {} -> [state |-> "OPEN", realized |-> 0]
          [] EndedIn(seen) # {} /\ Against(seen[first], signal.stop) ->
               [state |-> "STOPPED", realized |-> 2 * Gain(signal.stop)]
          [] OTHER -> [state |-> "CLOSED", realized |-> 2 * Gain(signal.target)]
  BY DEF Reference, EnteredIn, EndedIn, Ends
<1>3. CASE Waiting
  <2>1. Reference = [state |-> IF running THEN "PENDING" ELSE "EXPIRED", realized |-> 0]
    <3>1. EnteredIn(seen) = {} /\ EndedIn(seen) = {}
      BY <1>3 DEF Waiting, EndedIn
    <3> HIDE DEF first
    <3> QED
      BY <1>2, <3>1
  <2> QED
    BY <1>3, <2>1 DEF Waiting
<1>4. CASE Holding
  <2>1. Reference = [state |-> "OPEN", realized |-> 0]
    <3>1. EnteredIn(seen) # {} /\ EndedIn(seen) = {}
      BY <1>4 DEF Holding
    <3> HIDE DEF first
    <3> QED
      BY <1>2, <3>1
  <2> QED
    BY <1>4, <2>1 DEF Holding
<1>5. CASE Ended
  <2>1. first = Len(seen)
    <3>1. EndedIn(seen) = {Len(seen)}
      BY <1>5 DEF Ended
    <3>2. Len(seen) \in Int
      BY DEF ReferenceInv, PositionInv, PositionTypeOK
    <3>3. \A m \in EndedIn(seen) : Len(seen) <= m
      BY <3>1, <3>2
    <3> QED
      BY <3>1, <3>3
  <2> HIDE DEF first
  <2>2. EnteredIn(seen) # {} /\ EndedIn(seen) # {}
    BY <1>5 DEF Ended
  <2>3. CASE Against(seen[Len(seen)], signal.stop)
    <3>1. Reference = [state |-> "STOPPED", realized |-> 2 * Gain(signal.stop)]
      BY <1>2, <2>1, <2>2, <2>3
    <3> QED
      BY <1>5, <2>3, <3>1 DEF Ended
  <2>4. CASE ~Against(seen[Len(seen)], signal.stop)
    <3>1. Reference = [state |-> "CLOSED", realized |-> 2 * Gain(signal.target)]
      BY <1>2, <2>1, <2>2, <2>4
    <3> QED
      BY <1>5, <2>4, <3>1 DEF Ended
  <2> QED
    BY <2>3, <2>4
<1> QED
  BY <1>1, <1>3, <1>4, <1>5

LEMMA ReferenceTrade ==
  ASSUME ReferenceInv, WellPlaced, Len(Targets) = 1, ~late, running,
         NEW c \in Candles, Advance(c), Trade(c),
         (Waiting /\ Against(c, signal.entry)) \/ Holding
  PROVE  (Holding \/ Ended)'
<1> DEFINE n == Len(seen)
<1>1. /\ signal \in Signals /\ signal' = signal /\ seen \in Seq(Candles) /\ seen' = Append(seen, c)
  BY DEF ReferenceInv, PositionInv, PositionTypeOK, Advance
<1>2. FillTargets(c, Opened) = Opened
  BY <1>1, SingleTarget
<1>3. /\ Opened.filled = {} /\ Opened.stop = signal.stop /\ Opened.remaining = 2
      /\ Opened.realized = 0 /\ Opened.state = "OPEN" /\ trade = NoTrade
  BY DEF Waiting, Holding, Opened
<1>4. /\ StopHit(c, Opened) <=> Against(c, signal.stop)
      /\ StopHit(c, Opened) \/ TargetHit(c) <=> Ends(c)
  BY <1>3 DEF StopHit, TargetHit, Ends
<1>5. /\ n + 1 \in Nat /\ Len(seen') = n + 1 /\ seen'[n + 1] = c
      /\ EnteredIn(seen') # {}
      /\ EndedIn(seen') = IF Ends(c) THEN {n + 1} ELSE {}
  <2>1. /\ n \in Nat /\ seen'[n + 1] = c /\ Len(seen') = n + 1
        /\ EnteredIn(seen') = EnteredIn(seen) \cup (IF Against(c, signal.entry) THEN {n + 1} ELSE {})
        /\ EndedIn(seen') = EndedIn(seen) \cup (IF Ends(c) /\ EnteredIn(seen') # {} THEN {n + 1} ELSE {})
    BY <1>1, OneMore
  <2>2. EnteredIn(seen) # {} \/ Against(c, signal.entry)
    BY DEF Holding
  <2>3. EndedIn(seen) = {}
    BY DEF Waiting, Holding, EndedIn
  <2> HIDE DEF n
  <2> QED
    BY <2>1, <2>2, <2>3
<1>6. /\ EnteredIn(seen)' = EnteredIn(seen') /\ EndedIn(seen)' = EndedIn(seen')
      /\ \A d : Against(d, signal.stop)' <=> Against(d, signal.stop)
      /\ Gain(signal.stop)' = Gain(signal.stop) /\ Gain(signal.target)' = Gain(signal.target)
  BY <1>1 DEF EnteredIn, EndedIn, Ends, Against, Toward, Gain
<1>7. Gain(signal.target) \in Int /\ Gain(signal.stop) \in Int /\ signal.stop # signal.entry
  BY <1>1, PlacedGains, GainForm, SignalForm
<1>8. CASE Ends(c)
  <2> DEFINE exit == IF Against(c, signal.stop) THEN signal.stop ELSE signal.target
             last == IF Against(c, signal.stop) THEN "STOPPED" ELSE "CLOSED"
  <2>1. exit = IF StopHit(c, Opened) THEN Opened.stop ELSE signal.target
    BY <1>3, <1>4
  <2>2. last = IF StopHit(c, Opened) /\ exit # signal.entry THEN "STOPPED" ELSE "CLOSED"
    BY <1>4, <1>7
  <2>3. Opened.realized + Gain(exit) * Opened.remaining = 2 * Gain(exit)
    <3>1. Gain(exit) \in Int
      BY <1>7
    <3> HIDE DEF exit
    <3> QED
      BY <1>3, <3>1
  <2> HIDE DEF exit, last
  <2>4. /\ state' = last /\ realized' = 2 * Gain(exit) /\ running' = FALSE
        /\ trade' = [pnl |-> 2 * Gain(exit), outcome |-> IF last = "STOPPED" THEN "SL" ELSE "TP"]
    BY <1>2, <1>4, <1>8, <2>1, <2>2, <2>3 DEF Trade, Opened
  <2>5. trade' # NoTrade /\ trade'.pnl = realized'
    BY <2>4 DEF NoTrade
  <2>6. EndedIn(seen') = {n + 1}
    BY <1>5, <1>8
  <2>7. Against(seen[Len(seen)], signal.stop)' <=> Against(c, signal.stop)
    BY <1>1, <1>5 DEF Against
  <2> HIDE DEF n
  <2>8. /\ state' = IF Against(c, signal.stop) THEN "STOPPED" ELSE "CLOSED"
        /\ realized' = 2 * (IF Against(c, signal.stop) THEN Gain(signal.stop) ELSE Gain(signal.target))
    BY <2>4 DEF exit, last
  <2>9. Ended'
    BY <1>1, <1>5, <1>6, <2>4, <2>5, <2>6, <2>7, <2>8 DEF Ended
  <2> QED
    BY <2>9
<1>9. CASE ~Ends(c)
  <2>1. /\ state' = "OPEN" /\ remaining' = 2 /\ realized' = 0 /\ stop' = signal.stop
        /\ filled' = {} /\ trade' = NoTrade
    BY <1>2, <1>3, <1>4, <1>9 DEF Trade, Opened
  <2> HIDE DEF n
  <2> QED
    BY <1>1, <1>5, <1>6, <1>9, <2>1 DEF Holding
<1> QED
  BY <1>8, <1>9

LEMMA ReferenceStep == ReferenceInv /\ [PositionNext]_positionVars => ReferenceInv'
<1> SUFFICES ASSUME ReferenceInv, [PositionNext]_positionVars PROVE ReferenceInv'
  OBVIOUS
<1>1. PositionInv'
  BY PositionStep DEF ReferenceInv
<1> SUFFICES ASSUME WellPlaced', (Len(Targets) = 1)', ~late' PROVE (Waiting \/ Holding \/ Ended)'
  BY <1>1 DEF ReferenceInv
<1>2. signal' = signal /\ late \in BOOLEAN /\ (late' = late \/ late' = TRUE)
  BY DEF PositionNext, Expire, StayPending, Enter, Manage, Advance, Finish, positionVars, position,
         ReferenceInv, PositionInv, PositionTypeOK
<1>3. WellPlaced /\ Len(Targets) = 1 /\ ~late
  BY <1>2, Zenon DEF WellPlaced, Targets, Gain
<1>4. Waiting \/ Holding \/ Ended
  BY <1>3 DEF ReferenceInv
<1>5. signal \in Signals /\ seen \in Seq(Candles)
  BY DEF ReferenceInv, PositionInv, PositionTypeOK
<1>6. Gain(signal.stop)' = Gain(signal.stop) /\ Gain(signal.target)' = Gain(signal.target)
  BY <1>2 DEF Gain
<1>7. EnteredIn(seen)' = EnteredIn(seen') /\ EndedIn(seen)' = EndedIn(seen')
  BY <1>2 DEF EnteredIn, EndedIn, Ends, Against, Toward
<1>8. ASSUME NEW c \in Candles, Expire(c) PROVE FALSE
  BY <1>3, <1>8 DEF Expire
<1>9. ASSUME NEW c \in Candles, StayPending(c) PROVE Waiting'
  <2>1. /\ state = "PENDING" /\ ~Against(c, signal.entry) /\ running /\ seen' = Append(seen, c)
        /\ UNCHANGED <<position, running>>
    BY <1>9 DEF StayPending, Advance
  <2>2. Waiting
    BY <1>4, <2>1 DEF Holding, Ended
  <2>3. EnteredIn(seen') = {}
    BY <1>5, <2>1, <2>2, OneMore DEF Waiting
  <2> QED
    BY <1>2, <1>7, <2>1, <2>2, <2>3 DEF Waiting, position
<1>10. ASSUME NEW c \in Candles, Enter(c) PROVE (Holding \/ Ended)'
  <2>1. state = "PENDING" /\ Against(c, signal.entry) /\ running /\ Advance(c) /\ Trade(c)
    BY <1>10 DEF Enter, Advance
  <2>2. Waiting
    BY <1>4, <2>1 DEF Holding, Ended
  <2> QED
    BY <1>3, <2>1, <2>2, ReferenceTrade
<1>11. ASSUME NEW c \in Candles, Manage(c) PROVE (Holding \/ Ended)'
  <2>1. state # "PENDING" /\ running /\ Advance(c) /\ Trade(c)
    BY <1>11 DEF Manage, Advance
  <2>2. Holding
    BY <1>4, <2>1 DEF Waiting, Ended
  <2> QED
    BY <1>3, <2>1, <2>2, ReferenceTrade
<1>12. ASSUME Finish PROVE (Waiting \/ Holding)'
  <2>1. /\ running /\ running' = FALSE /\ state' = IF state = "PENDING" THEN "EXPIRED" ELSE state
        /\ UNCHANGED <<signal, stop, remaining, filled, realized, floating, trade, late, seen>>
    BY <1>12 DEF Finish
  <2>2. Waiting \/ Holding
    BY <1>4, <2>1 DEF Ended
  <2>3. Waiting => Waiting'
    BY <1>7, <2>1 DEF Waiting
  <2>4. Holding => Holding'
    BY <1>7, <2>1 DEF Holding
  <2> QED
    BY <2>2, <2>3, <2>4
<1>13. ASSUME UNCHANGED positionVars PROVE (Waiting \/ Holding \/ Ended)'
  <2>1. /\ running' = running /\ state' = state
        /\ UNCHANGED <<signal, stop, remaining, filled, realized, floating, trade, late, seen>>
    BY <1>13 DEF positionVars, position
  <2>2. Waiting => Waiting'
    BY <1>7, <2>1 DEF Waiting
  <2>3. Holding => Holding'
    BY <1>7, <2>1 DEF Holding
  <2>4. Ended => Ended'
    <3>1. Against(seen[Len(seen)], signal.stop)' <=> Against(seen[Len(seen)], signal.stop)
      BY <2>1 DEF Against
    <3> QED
      BY <1>6, <1>7, <2>1, <3>1 DEF Ended
  <2> QED
    BY <1>4, <2>2, <2>3, <2>4
<1> QED
  BY <1>8, <1>9, <1>10, <1>11, <1>12, <1>13 DEF PositionNext

LEMMA ReferenceStart == PositionInit => ReferenceInv
<1> SUFFICES ASSUME PositionInit PROVE ReferenceInv
  OBVIOUS
<1>1. EnteredIn(seen) = {}
  BY DEF PositionInit, EnteredIn
<1>2. Waiting
  BY <1>1 DEF PositionInit, Waiting
<1> QED
  BY <1>2, PositionStart DEF ReferenceInv

\* However many candles, and in whatever order entry, stop and target are tested on each:
\* a single-target position that is not past its expiry ends by the first candle from its
\* entry on that holds its stop or its target, at the stop if it holds both, and is booked
\* at that level (PositionManager.update).
THEOREM WalkIsReference == PositionSpec => []MatchesReference
<1>1. ReferenceInv => MatchesReference
  BY ReferenceRead
<1> QED
  BY <1>1, ReferenceStart, ReferenceStep, PTL DEF PositionSpec

-----------------------------------------------------------------------------
(* Evaluations.                                                             *)

\* Where the contents of the three files come from.
OpportunityOf(o, s) ==
  \E e \in Evidence[s], r \in Reviews \cup {NoReview}, score \in Scores :
    /\ o = Opportunity(Confluence(e), r, score)
    /\ r = NoReview \/ r.direction = Direction(e)
DecisionOf(d, s) == \E o, score : OpportunityOf(o, s) /\ score \in Scores /\ d = Decision(o, score)

WorthDecision(d) ==
  /\ d.direction \in Sides
  /\ d.action \in {d.direction, Strong[d.direction]}
  /\ Worth(d.opportunity.row.evidence, d.direction)

\* A saved evaluation is of a decision with a candidate; with a caveat of the decision
\* it is no plain approval.
SoundEvaluation(v) ==
  /\ \E s \in Symbols : DecisionOf(v.decision, s)
  /\ v.decision.candidate
  /\ v.status = "APPROVED" => v.decision.readiness # "READY_WITH_WARNINGS"

RulesInv ==
  /\ DOMAIN rows \subseteq Symbols
  /\ \A s \in DOMAIN rows : \E e \in Evidence[s] : rows[s] = Confluence(e)
  /\ DOMAIN opportunities \subseteq Symbols
  /\ \A s \in DOMAIN opportunities : OpportunityOf(opportunities[s], s)
  /\ DOMAIN decisions \subseteq Symbols
  /\ \A s \in DOMAIN decisions : DecisionOf(decisions[s], s)
  /\ \A v \in evaluations \cup approved : SoundEvaluation(v)
  /\ \A v \in approved : v.status \in Approving
  /\ due = {} \/ due = {{v \in evaluations : v.status \in Approving}}

\* The direction of a confluence row, read off its evidence.
LEMMA DirectionLeads ==
  ASSUME NEW s \in Symbols, NEW e \in Evidence[s]
  PROVE  /\ Direction(e) = "BUY" => e.buy >= e.sell + 12
         /\ Direction(e) = "SELL" => e.sell >= e.buy + 12
<1>1. {e.buy, e.sell, e.wait, e.conflict, e.quality} \subseteq 0..100
  BY EvidenceAssumption
<1>2. QED BY <1>1 DEF Direction

\* Only a directional recommendation of the row's own side is ever traded.
LEMMA RecommendationSide ==
  ASSUME NEW d, NEW score, Recommendation(d, score) \in Directional
  PROVE  d \in Sides /\ score >= 70 /\ Recommendation(d, score) \in {d, Strong[d]}
BY DEF Recommendation, Directional, Sides, Strong

\* An actionable opportunity has a row that is actionable, and no critical blocker.
LEMMA ActionableStatus ==
  ASSUME NEW c, NEW score, NEW blockers, Status(c, score, blockers) = "ACTIONABLE"
  PROVE  /\ c.actionable
         /\ c.direction \in Sides
         /\ blockers \cap CriticalForStatus = {}
BY DEF Status

\* No critical blocker: the evidence is fresh, rich enough and not contradictory.
LEMMA NoBlockers ==
  ASSUME NEW s \in Symbols, NEW e \in Evidence[s],
         Blockers(Confluence(e)) \cap CriticalForStatus = {}
  PROVE  e.quality >= 40 /\ e.fresh >= 35 /\ ~e.old /\ e.conflict <= 45
<1> DEFINE c == Confluence(e)
<1>1. c.evidence = e
  BY DEF Confluence
<1>2. e.quality \in Int /\ e.fresh \in Int /\ e.conflict \in Int
      /\ e.old \in BOOLEAN
  BY EvidenceAssumption
<1>3. /\ "low_data_quality" \notin Blockers(c) /\ "stale_data" \notin Blockers(c)
      /\ "excessive_conflict" \notin Blockers(c)
  BY DEF CriticalForStatus
<1>4. ~(e.quality < 40) /\ ~(e.fresh < 35 \/ e.old) /\ ~(e.conflict > 45)
  BY <1>1, <1>3 DEF Blockers
<1>5. QED BY <1>2, <1>4

\* A decision with an execution candidate stands on an actionable opportunity.
LEMMA CandidateIsWorth ==
  ASSUME NEW s \in Symbols, NEW d, DecisionOf(d, s), d.candidate
  PROVE  WorthDecision(d)
<1>1. PICK o, score : OpportunityOf(o, s) /\ score \in Scores /\ d = Decision(o, score)
  BY DEF DecisionOf
<1>2. PICK e \in Evidence[s], r \in Reviews \cup {NoReview}, oscore \in Scores :
        o = Opportunity(Confluence(e), r, oscore)
  BY <1>1 DEF OpportunityOf
<1> DEFINE c == Confluence(e)
<1>3. o.row = c /\ o.blockers = Blockers(c) /\ o.status = Status(c, oscore, Blockers(c))
  BY <1>2 DEF Opportunity
<1>4. c.evidence = e /\ c.direction = Direction(e)
      /\ c.recommendation = Recommendation(Direction(e), e.score)
  BY DEF Confluence
<1>5. d.action = MapAction(o) /\ d.direction = Direction(e) /\ d.opportunity = o
  BY <1>1, <1>3, <1>4 DEF Decision
<1>6. \E blockers : HasCandidate(Readiness(o, MapAction(o), blockers, score))
  BY <1>1 DEF Decision
<1>7. MapAction(o) \notin {"BLOCKED", "NO_DATA", "IGNORE", "WAIT"}
  BY <1>6 DEF HasCandidate, Readiness
<1>8. o.status = "ACTIONABLE" /\ o.row.recommendation \in Directional
  BY <1>7 DEF MapAction
<1>9. MapAction(o) = Recommendation(Direction(e), e.score)
  BY <1>8, <1>3, <1>4 DEF MapAction
<1>10. Recommendation(Direction(e), e.score) \in Directional
  BY <1>8, <1>3, <1>4
<1>11. /\ Direction(e) \in Sides /\ e.score >= 70
       /\ Recommendation(Direction(e), e.score) \in {Direction(e), Strong[Direction(e)]}
  BY <1>10, RecommendationSide
<1>12. Blockers(c) \cap CriticalForStatus = {}
  BY <1>3, <1>8, ActionableStatus
<1>13. e.quality >= 40 /\ e.fresh >= 35 /\ ~e.old /\ e.conflict <= 45
  BY <1>12, NoBlockers
<1>14. Worth(e, Direction(e))
  BY <1>11, <1>13, DirectionLeads DEF Worth
<1>15. d.opportunity.row.evidence = e
  BY <1>3, <1>4, <1>5
<1>16. QED BY <1>5, <1>9, <1>11, <1>14, <1>15 DEF WorthDecision

\* The levels of an opportunity are those of a review of its row's direction, if any.
LEMMA ReviewOfItsSide ==
  ASSUME NEW s \in Symbols, NEW d, DecisionOf(d, s), d.opportunity.review.levels # {}
  PROVE  d.opportunity.review.direction = d.direction
<1>1. PICK o, score : OpportunityOf(o, s) /\ score \in Scores /\ d = Decision(o, score)
  BY DEF DecisionOf
<1>2. PICK e \in Evidence[s], r \in Reviews \cup {NoReview}, oscore \in Scores :
        /\ o = Opportunity(Confluence(e), r, oscore)
        /\ r = NoReview \/ r.direction = Direction(e)
  BY <1>1 DEF OpportunityOf
<1>3. o.review = r /\ o.row.direction = Direction(e)
  BY <1>2 DEF Opportunity, Confluence
<1>4. d.opportunity = o /\ d.direction = Direction(e)
  BY <1>1, <1>3 DEF Decision
<1>5. r # NoReview
  BY <1>3, <1>4 DEF NoReview
<1> QED BY <1>2, <1>3, <1>4, <1>5

\* A decision that is ready without a warning has its levels, its authors and its win rate.
LEMMA ReadyIsComplete ==
  ASSUME NEW s \in Symbols, NEW d, DecisionOf(d, s), d.candidate,
         d.readiness # "READY_WITH_WARNINGS"
  PROVE  LET o == d.opportunity IN
           /\ {"entry", "stop_loss"} \subseteq o.review.levels
           /\ o.review.levels \cap {"take_profit", "targets"} # {}
           /\ o.row.evidence.authors >= 2
           /\ o.row.evidence.rate > 0 /\ ~o.row.evidence.caveat
<1>1. PICK o, score : OpportunityOf(o, s) /\ score \in Scores /\ d = Decision(o, score)
  BY DEF DecisionOf
<1>2. PICK e \in Evidence[s], r \in Reviews \cup {NoReview}, oscore \in Scores :
        o = Opportunity(Confluence(e), r, oscore)
  BY <1>1 DEF OpportunityOf
<1>3. /\ o.row.evidence = e /\ Warnings(e) \subseteq o.warnings
      /\ d.opportunity = o
  BY <1>1, <1>2 DEF Opportunity, Confluence, Decision
<1>4. \E blockers : /\ d.readiness = Readiness(o, MapAction(o), blockers, score)
                   /\ HasCandidate(d.readiness)
  BY <1>1 DEF Decision
<1>5. \E blockers : Readiness(o, MapAction(o), blockers, score) = "READY"
  BY <1>4 DEF HasCandidate
<1>6. RiskComplete(o) /\ o.warnings = {}
  BY <1>5 DEF Readiness
<1>7. ~(e.authors <= 1) /\ ~e.caveat
  BY <1>3, <1>6 DEF Warnings
<1>8. e.authors \in Nat /\ e.rate \in {NoRate} \cup (0..100) /\ NoRate = -1
  BY EvidenceAssumption DEF NoRate
<1>9. e.rate \notin {NoRate, 0}
  BY <1>3, <1>6 DEF RiskComplete, Validated
<1>10. e.authors >= 2 /\ e.rate > 0
  BY <1>7, <1>8, <1>9
<1> QED BY <1>3, <1>6, <1>7, <1>10 DEF RiskComplete

LEMMA InitInv == RulesInit => RulesInv
BY DEF RulesInit, RulesInv, Empty

\* Each rebuild reads one file and writes the next; an evaluation that saves has
\* raised on no decision, so each decision has its candidate.
LEMMA NextInv == RulesInv /\ [RulesNext]_rulesVars => RulesInv'
<1> SUFFICES ASSUME RulesInv, [RulesNext]_rulesVars PROVE RulesInv'
  OBVIOUS
<1>1. CASE RebuildConfluence
  <2>1. PICK known \in SUBSET Symbols : \E e \in [known -> UNION {Evidence[s] : s \in known}] :
          /\ \A s \in known : e[s] \in Evidence[s]
          /\ rows' = [s \in known |-> Confluence(e[s])]
    BY <1>1 DEF RebuildConfluence
  <2>2. DOMAIN rows' \subseteq Symbols /\ \A s \in DOMAIN rows' : \E x \in Evidence[s] : rows'[s] = Confluence(x)
    BY <2>1
  <2>3. QED BY <1>1, <2>2 DEF RebuildConfluence, RulesInv
<1>2. CASE RebuildOpportunities
  <2>1. PICK ideas \in SUBSET Reviews, pick \in [DOMAIN rows -> Reviews \cup {NoReview}],
             score \in [DOMAIN rows -> Scores] :
          /\ \A s \in DOMAIN rows : pick[s] \in Fullest(ideas, rows[s].direction)
          /\ opportunities' = [s \in DOMAIN rows |-> Opportunity(rows[s], pick[s], score[s])]
    BY <1>2 DEF RebuildOpportunities
  <2>2. ASSUME NEW s \in DOMAIN opportunities' PROVE OpportunityOf(opportunities'[s], s)
    <3>1. PICK e \in Evidence[s] : rows[s] = Confluence(e)
      BY <2>1 DEF RulesInv
    <3>2. rows[s].direction = Direction(e)
      BY <3>1 DEF Confluence
    <3>3. pick[s] = NoReview \/ pick[s].direction = Direction(e)
      BY <2>1, <3>2 DEF Fullest
    <3> QED BY <2>1, <3>1, <3>3 DEF OpportunityOf
  <2>3. DOMAIN opportunities' \subseteq Symbols
    BY <2>1 DEF RulesInv
  <2>4. QED BY <1>2, <2>2, <2>3 DEF RebuildOpportunities, RulesInv
<1>3. CASE RebuildDecisions
  <2>1. PICK score \in [DOMAIN opportunities -> Scores] :
          decisions' = [s \in DOMAIN opportunities |-> Decision(opportunities[s], score[s])]
    BY <1>3 DEF RebuildDecisions
  <2>2. \A s \in DOMAIN decisions' : DecisionOf(decisions'[s], s)
    BY <2>1 DEF RulesInv, DecisionOf
  <2>3. DOMAIN decisions' \subseteq Symbols
    BY <2>1 DEF RulesInv
  <2>4. QED BY <1>3, <2>2, <2>3 DEF RebuildDecisions, RulesInv
<1>4. ASSUME NEW aged \in BOOLEAN, EvaluateAll(aged) PROVE RulesInv'
  <2>1. evaluations' = {Evaluation(st, s, decisions[s], aged) : st \in Active, s \in DOMAIN decisions}
        /\ due' = {{v \in evaluations' : v.status \in Approving}}
        /\ UNCHANGED <<rows, opportunities, decisions, approved>>
    BY <1>4 DEF EvaluateAll
  <2>2. \A s \in DOMAIN decisions : ~Raises(s, decisions[s])
    BY <1>4 DEF EvaluateAll
  <2>3. ASSUME NEW st \in Active, NEW s \in DOMAIN decisions
        PROVE  SoundEvaluation(Evaluation(st, s, decisions[s], aged))
    <3>1. decisions[s].candidate
      BY <2>2, <2>3 DEF Raises
    <3>2. \E x \in Symbols : DecisionOf(decisions[s], x)
      BY DEF RulesInv
    <3>3. Approval(st, s, decisions[s], aged) = "APPROVED"
            => decisions[s].readiness # "READY_WITH_WARNINGS"
      BY DEF Approval
    <3> QED BY <3>1, <3>2, <3>3 DEF Evaluation, SoundEvaluation
  <2>4. \A v \in evaluations' \cup approved' : SoundEvaluation(v)
    BY <2>1, <2>3 DEF RulesInv
  <2> QED BY <2>1, <2>4 DEF RulesInv
<1>8. CASE SaveApproved
  <2>1. approved' = approved \/ approved' = {v \in evaluations : v.status \in Approving}
    BY <1>8 DEF SaveApproved, RulesInv
  <2>2. \A v \in approved' : SoundEvaluation(v) /\ v.status \in Approving
    BY <2>1 DEF RulesInv
  <2> QED BY <1>8, <2>2 DEF SaveApproved, RulesInv
<1>5. CASE MutateStrategies
  BY <1>5 DEF MutateStrategies, RulesInv
<1>6. CASE UNCHANGED rulesVars
  BY <1>6 DEF rulesVars, RulesInv
<1>7. QED BY <1>1, <1>2, <1>3, <1>4, <1>5, <1>6, <1>8 DEF RulesNext

LEMMA InvHolds == RulesSpec => []RulesInv
BY InitInv, NextInv, PTL DEF RulesSpec

\* The files hold what their engines can compute, an action and a readiness among the
\* named ones, and approved_signals.json approvals only.
THEOREM TypeCorrect == RulesSpec => []RulesTypeOK
<1> DEFINE Bounds == strategies \in Strategies /\ rebuilds \in 0..MaxRebuilds
<1>1. RulesInit => Bounds
  BY RulesBound DEF RulesInit
<1>2. Bounds /\ [RulesNext]_rulesVars => Bounds'
  <2> SUFFICES ASSUME Bounds, [RulesNext]_rulesVars PROVE Bounds'
    OBVIOUS
  <2>1. strategies' = strategies \/ strategies' \in Strategies
    BY DEF RulesNext, RebuildConfluence, RebuildOpportunities, RebuildDecisions, EvaluateAll,
           SaveApproved, MutateStrategies, rulesVars
  <2>2. rebuilds' = rebuilds \/ Rebuild
    BY DEF RulesNext, RebuildConfluence, RebuildOpportunities, RebuildDecisions, EvaluateAll,
           SaveApproved, MutateStrategies, rulesVars
  <2> QED BY <2>1, <2>2, RulesBound DEF Rebuild
<1>3. RulesInv /\ Bounds => RulesTypeOK
  <2> SUFFICES ASSUME RulesInv, Bounds PROVE RulesTypeOK
    OBVIOUS
  <2>1. ASSUME NEW s \in DOMAIN decisions
        PROVE  /\ decisions[s].action \in Directional \cup {"WAIT", "BLOCKED", "IGNORE", "NO_DATA"}
               /\ decisions[s].readiness \in {"NOT_READY", "WATCH", "READY", "READY_WITH_WARNINGS", "BLOCKED"}
    <3>1. PICK o, score : decisions[s] = Decision(o, score)
      BY DEF RulesInv, DecisionOf
    <3>2. decisions[s].action = MapAction(o)
          /\ \E blockers : decisions[s].readiness = Readiness(o, MapAction(o), blockers, score)
      BY <3>1 DEF Decision
    <3>3. MapAction(o) \in Directional \cup {"WAIT", "BLOCKED", "IGNORE", "NO_DATA"}
      BY DEF MapAction
    <3> QED BY <3>2, <3>3 DEF Readiness
  <2> QED BY <2>1 DEF RulesInv, RulesTypeOK
<1> QED BY InvHolds, <1>1, <1>2, <1>3, PTL DEF RulesSpec

\* What is approved was worth trading all the way down: the property the run checks,
\* for every evidence, every review and every strategy.
THEOREM ApprovedWorth == RulesSpec => []ApprovedIsWorthTrading
<1>1. RulesInv => ApprovedIsWorthTrading
  <2> SUFFICES ASSUME RulesInv, NEW v \in approved PROVE WorthDecision(v.decision)
    BY DEF ApprovedIsWorthTrading, WorthDecision
  <2>1. SoundEvaluation(v)
    BY DEF RulesInv
  <2> QED BY <2>1, CandidateIsWorth DEF SoundEvaluation
<1> QED BY InvHolds, <1>1, PTL

\* The levels of an approved signal come from a review of the direction it trades.
THEOREM ApprovedOnItsSide == RulesSpec => []LevelsOfItsSide
<1>1. RulesInv => LevelsOfItsSide
  <2> SUFFICES ASSUME RulesInv, NEW v \in approved, v.decision.opportunity.review.levels # {}
               PROVE  v.decision.opportunity.review.direction = v.decision.direction
    BY DEF LevelsOfItsSide
  <2>1. SoundEvaluation(v)
    BY DEF RulesInv
  <2> QED BY <2>1, ReviewOfItsSide DEF SoundEvaluation
<1> QED BY InvHolds, <1>1, PTL

\* A plain approval lacks neither a level, nor a second author, nor a win rate, and has
\* no caveat, whatever rules the strategy that approved it has.
THEOREM PlainIsComplete == RulesSpec => []PlainApprovalComplete
<1>1. RulesInv => PlainApprovalComplete
  <2> SUFFICES ASSUME RulesInv, NEW v \in approved, v.status = "APPROVED"
               PROVE  LET o == v.decision.opportunity IN
                        /\ {"entry", "stop_loss"} \subseteq o.review.levels
                        /\ o.review.levels \cap {"take_profit", "targets"} # {}
                        /\ o.row.evidence.authors >= 2
                        /\ o.row.evidence.rate > 0 /\ ~o.row.evidence.caveat
    BY DEF PlainApprovalComplete
  <2>1. SoundEvaluation(v)
    BY DEF RulesInv
  <2> QED BY <2>1, ReadyIsComplete DEF SoundEvaluation
<1> QED BY InvHolds, <1>1, PTL

-----------------------------------------------------------------------------
(* Validation.                                                              *)

\* The variables of the validators are functions on them.
Shape ==
  /\ pc = [v \in Validators |-> pc[v]]
  /\ todo = [v \in Validators |-> todo[v]]
  /\ result = [v \in Validators |-> result[v]]
  /\ items = [v \in Validators |-> items[v]]

UniqueIn(rs) == \A r, q \in rs : r.id = q.id => r = q

\* One result per idea in the file and in every copy a validator is about to write.
UniqueInv == UniqueIn(registry) /\ \A v \in Validators : UniqueIn(items[v])

\* The id of a computed result is the idea's.
LEMMA ResultId ==
  ASSUME NEW i, NEW s
  PROVE  ResultOf(i, s).id = i.id
  BY DEF ResultOf, WithoutCandles, Simulated

LEMMA ShapeInit == ValidationInit => Shape
  BY DEF ValidationInit, Shape

LEMMA ShapeStep == Shape /\ [ValidationNext]_validationVars => Shape'
<1> SUFFICES ASSUME Shape, [ValidationNext]_validationVars PROVE Shape'
  OBVIOUS
<1>1. ASSUME NEW v \in Validators, Begin(v) PROVE Shape'
  BY <1>1 DEF Begin, Shape
<1>2. ASSUME NEW v \in Validators, Look(v) PROVE Shape'
  BY <1>2 DEF Look, NextIdea, Shape
<1>3. ASSUME NEW v \in Validators, Load(v) PROVE Shape'
  BY <1>3 DEF Load, Shape
<1>4. ASSUME NEW v \in Validators, LoadRaises(v) PROVE Shape'
  BY <1>4 DEF LoadRaises, Shape
<1>5. ASSUME NEW v \in Validators, ReadItems(v) PROVE Shape'
  BY <1>5 DEF ReadItems, Shape
<1>6. ASSUME NEW v \in Validators, SaveItems(v) PROVE Shape'
  BY <1>6 DEF SaveItems, Shape
<1>7. ASSUME NEW v \in Validators, SaveAudit(v) PROVE Shape'
  BY <1>7 DEF SaveAudit, NextIdea, Shape
<1>8. ASSUME Tick PROVE Shape'
  BY <1>8 DEF Tick, local, Shape
<1>9. ASSUME Crash PROVE Shape'
  BY <1>9 DEF Crash, Shape
<1>10. ASSUME UNCHANGED validationVars PROVE Shape'
  BY <1>10 DEF validationVars, local, Shape
<1> QED
  BY <1>1, <1>2, <1>3, <1>4, <1>5, <1>6, <1>7, <1>8, <1>9, <1>10 DEF ValidationNext, Step, Regular

LEMMA UniqueInit == ValidationInit => UniqueInv
  BY DEF ValidationInit, UniqueInv, UniqueIn

LEMMA UniqueStep == Shape /\ UniqueInv /\ [ValidationNext]_validationVars => UniqueInv'
<1> SUFFICES ASSUME Shape, UniqueInv, [ValidationNext]_validationVars PROVE UniqueInv'
  OBVIOUS
<1>0. ASSUME UNCHANGED <<registry, items>> PROVE UniqueInv'
  BY <1>0 DEF UniqueInv, UniqueIn
<1>1. ASSUME NEW v \in Validators, Begin(v) \/ Look(v) \/ Load(v) \/ LoadRaises(v) PROVE UniqueInv'
  BY <1>0, <1>1 DEF Begin, Look, Load, LoadRaises
<1>2. ASSUME NEW v \in Validators, ReadItems(v) PROVE UniqueInv'
  <2>1. items'[v] = {r \in registry : r.id # result[v].id} \cup {result[v]}
    BY <1>2 DEF ReadItems, Shape
  <2>2. UniqueIn(items'[v])
    BY <2>1 DEF UniqueInv, UniqueIn
  <2>3. \A w \in Validators : w # v => items'[w] = items[w]
    BY <1>2 DEF ReadItems, Shape
  <2>4. registry' = registry
    BY <1>2 DEF ReadItems
  <2> QED
    BY <2>2, <2>3, <2>4 DEF UniqueInv, UniqueIn
<1>3. ASSUME NEW v \in Validators, SaveItems(v) PROVE UniqueInv'
  BY <1>3 DEF SaveItems, UniqueInv, UniqueIn
<1>4. ASSUME NEW v \in Validators, SaveAudit(v) PROVE UniqueInv'
  <2>1. \A w \in Validators : items'[w] = items[w] \/ items'[w] = {}
    BY <1>4 DEF SaveAudit, Shape
  <2>2. registry' = registry
    BY <1>4 DEF SaveAudit
  <2> QED
    BY <2>1, <2>2 DEF UniqueInv, UniqueIn
<1>5. ASSUME Tick PROVE UniqueInv'
  BY <1>0, <1>5 DEF Tick, local
<1>6. ASSUME Crash PROVE UniqueInv'
  BY <1>6 DEF Crash, UniqueInv, UniqueIn
<1>7. ASSUME UNCHANGED validationVars PROVE UniqueInv'
  BY <1>0, <1>7 DEF validationVars, local
<1> QED
  BY <1>1, <1>2, <1>3, <1>4, <1>5, <1>6, <1>7 DEF ValidationNext, Step, Regular

\* However the scheduler loop and requests overlap, fail or die, the registry holds
\* one result per idea (_persist, signal_validation.py).
THEOREM OneResultPerIdea == ValidationSpec => []UniqueResults
<1>1. ValidationInit => Shape /\ UniqueInv
  BY ShapeInit, UniqueInit
<1>2. (Shape /\ UniqueInv) /\ [ValidationNext]_validationVars => (Shape /\ UniqueInv)'
  BY ShapeStep, UniqueStep
<1>3. Shape /\ UniqueInv => UniqueResults
  BY DEF UniqueInv, UniqueIn, UniqueResults
<1> QED
  BY <1>1, <1>2, <1>3, PTL DEF ValidationSpec

-----------------------------------------------------------------------------
\* No idea with this id has a final result.
Open(id) == \A r \in registry : r.id = id => r.status \notin Final

\* A validator that no other one's save met works on an idea only while it has no final
\* result, and is about to write the registry with nothing but that result changed.
AloneInv ==
  \A v \in Validators \ crossed :
    /\ pc[v] = "load" => Open(Head(todo[v]).id)
    /\ pc[v] \in {"read", "save"} => Open(result[v].id)
    /\ pc[v] = "save" => items[v] = {r \in registry : r.id # result[v].id} \cup {result[v]}

LEMMA AloneInit == ValidationInit => AloneInv
  BY DEF ValidationInit, AloneInv

LEMMA AloneStep == Shape /\ AloneInv /\ [ValidationNext]_validationVars => AloneInv'
<1> SUFFICES ASSUME Shape, AloneInv, [ValidationNext]_validationVars PROVE AloneInv'
  OBVIOUS
<1> USE DEF Open
<1>1. ASSUME NEW v \in Validators, Begin(v) PROVE AloneInv'
  BY <1>1 DEF Begin, Shape, AloneInv
<1>2. ASSUME NEW v \in Validators, Look(v) PROVE AloneInv'
  <2> DEFINE i == Head(todo[v])
  <2>1. registry' = registry /\ items' = items /\ crossed' = crossed
    BY <1>2 DEF Look
  <2>2. CASE HasFinal(i) /\ NextIdea(v) /\ UNCHANGED result
    <3>1. pc'[v] \in {"idle", "look"}
      BY <2>2 DEF NextIdea, Shape
    <3>2. \A w \in Validators : w # v => pc'[w] = pc[w] /\ todo'[w] = todo[w]
      BY <2>2 DEF NextIdea, Shape
    <3> QED
      BY <2>1, <2>2, <3>1, <3>2 DEF AloneInv
  <2>3. CASE /\ ~HasFinal(i) /\ pc' = [pc EXCEPT ![v] = "read"] /\ todo' = todo
             /\ result' = [result EXCEPT ![v] = [id |-> i.id, status |-> "invalid", outcome |-> "UNKNOWN"]]
    <3>1. pc'[v] = "read" /\ result'[v].id = i.id
      BY <2>3 DEF Shape
    <3>2. \A w \in Validators : w # v => pc'[w] = pc[w] /\ result'[w] = result[w]
      BY <2>3 DEF Shape
    <3> QED
      BY <2>1, <2>3, <3>1, <3>2 DEF HasFinal, AloneInv
  <2>4. CASE ~HasFinal(i) /\ pc' = [pc EXCEPT ![v] = "load"] /\ todo' = todo /\ result' = result
    <3>1. pc'[v] = "load"
      BY <2>4 DEF Shape
    <3>2. \A w \in Validators : w # v => pc'[w] = pc[w]
      BY <2>4 DEF Shape
    <3> QED
      BY <2>1, <2>4, <3>1, <3>2 DEF HasFinal, AloneInv
  <2> QED
    BY <1>2, <2>2, <2>3, <2>4 DEF Look
<1>3. ASSUME NEW v \in Validators, Load(v) PROVE AloneInv'
  <2> DEFINE i == Head(todo[v])
  <2>1. PICK loaded : result' = [result EXCEPT ![v] = ResultOf(i, loaded)]
    BY <1>3 DEF Load
  <2>2. result'[v].id = i.id
    BY <2>1, ResultId DEF Shape
  <2>3. pc' = [pc EXCEPT ![v] = "read"] /\ registry' = registry
    BY <1>3 DEF Load
  <2>4. pc[v] = "load" /\ todo' = todo /\ items' = items /\ crossed' = crossed
    BY <1>3 DEF Load
  <2> QED
    BY <2>1, <2>2, <2>3, <2>4 DEF Shape, AloneInv
<1>4. ASSUME NEW v \in Validators, LoadRaises(v) PROVE AloneInv'
  <2>1. pc'[v] = "idle"
    BY <1>4 DEF LoadRaises, Shape
  <2>2. \A w \in Validators : w # v => pc'[w] = pc[w] /\ todo'[w] = todo[w]
    BY <1>4 DEF LoadRaises, Shape
  <2>3. registry' = registry /\ result' = result /\ items' = items /\ crossed' = crossed \ {v}
    BY <1>4 DEF LoadRaises
  <2> QED
    BY <2>1, <2>2, <2>3 DEF AloneInv
<1>5. ASSUME NEW v \in Validators, ReadItems(v) PROVE AloneInv'
  <2>1. items'[v] = {r \in registry : r.id # result[v].id} \cup {result[v]}
    BY <1>5 DEF ReadItems, Shape
  <2>2. pc'[v] = "save" /\ registry' = registry /\ result' = result /\ pc[v] = "read"
        /\ todo' = todo /\ crossed' = crossed
    BY <1>5 DEF ReadItems, Shape
  <2>3. \A w \in Validators : w # v => pc'[w] = pc[w] /\ items'[w] = items[w]
    BY <1>5 DEF ReadItems, Shape
  <2> QED
    BY <2>1, <2>2, <2>3 DEF AloneInv
<1>6. ASSUME NEW v \in Validators, SaveItems(v) PROVE AloneInv'
  <2>1. pc'[v] = "audit"
    BY <1>6 DEF SaveItems, Shape
  <2>2. \A w \in Validators \ crossed' : w # v => pc'[w] \notin {"load", "read", "save"}
    BY <1>6 DEF SaveItems, Shape
  <2> QED
    BY <2>1, <2>2 DEF AloneInv
<1>7. ASSUME NEW v \in Validators, SaveAudit(v) PROVE AloneInv'
  <2>1. pc'[v] \in {"idle", "look"}
    BY <1>7 DEF SaveAudit, NextIdea, Shape
  <2>2. \A w \in Validators : w # v =>
          pc'[w] = pc[w] /\ todo'[w] = todo[w] /\ result'[w] = result[w] /\ items'[w] = items[w]
    BY <1>7 DEF SaveAudit, NextIdea, Shape
  <2>3. registry' = registry /\ crossed' = crossed
    BY <1>7 DEF SaveAudit
  <2> QED
    BY <2>1, <2>2, <2>3 DEF AloneInv
<1>8. ASSUME Tick PROVE AloneInv'
  BY <1>8 DEF Tick, local, AloneInv
<1>9. ASSUME Crash PROVE AloneInv'
  BY <1>9 DEF Crash, AloneInv
<1>10. ASSUME UNCHANGED validationVars PROVE AloneInv'
  BY <1>10 DEF validationVars, local, AloneInv
<1> QED
  BY <1>1, <1>2, <1>3, <1>4, <1>5, <1>6, <1>7, <1>8, <1>9, <1>10 DEF ValidationNext, Step, Regular

\* However validators overlap, a cycle, restart or raising load changes or drops a final
\* result only by the save of a validator that another one's save met at work
\* (validate_signal and _persist, signal_validation.py), whatever the catalog and market.
THEOREM FinalKept == ValidationSpec => FinalForEver
<1> DEFINE Kept == \A r \in registry : r.status \in Final =>
                     r \in registry' \/ \E v \in crossed : pc[v] = "save" /\ pc'[v] = "audit"
<1>1. ValidationInit => Shape /\ AloneInv
  BY ShapeInit, AloneInit
<1>2. (Shape /\ AloneInv) /\ [ValidationNext]_validationVars => (Shape /\ AloneInv)'
  BY ShapeStep, AloneStep
<1>3. (Shape /\ AloneInv) /\ [ValidationNext]_validationVars => [Kept]_validationVars
  <2> SUFFICES ASSUME Shape, AloneInv, [ValidationNext]_validationVars PROVE Kept
    OBVIOUS
  <2>1. ASSUME NEW v \in Validators, SaveItems(v), v \notin crossed PROVE Kept
    <3>1. registry' = {r \in registry : r.id # result[v].id} \cup {result[v]}
      BY <2>1 DEF SaveItems, AloneInv
    <3>2. Open(result[v].id)
      BY <2>1 DEF SaveItems, AloneInv
    <3> QED
      BY <3>1, <3>2 DEF Open
  <2>2. ASSUME NEW v \in Validators, SaveItems(v), v \in crossed PROVE Kept
    <3>1. pc[v] = "save" /\ pc'[v] = "audit"
      BY <2>2 DEF SaveItems, Shape
    <3> QED
      BY <2>2, <3>1
  <2>3. ASSUME registry' = registry PROVE Kept
    BY <2>3
  <2>4. ASSUME NEW v \in Validators, Begin(v) \/ Look(v) \/ Load(v) \/ LoadRaises(v)
                                     \/ ReadItems(v) \/ SaveAudit(v)
        PROVE registry' = registry
    BY <2>4 DEF Begin, Look, Load, LoadRaises, ReadItems, SaveAudit
  <2>5. ASSUME Tick \/ Crash \/ UNCHANGED validationVars PROVE registry' = registry
    BY <2>5 DEF Tick, Crash, validationVars
  <2> QED
    BY <2>1, <2>2, <2>3, <2>4, <2>5 DEF ValidationNext, Step, Regular
<1> QED
  BY <1>1, <1>2, <1>3, PTL DEF ValidationSpec, FinalForEver

-----------------------------------------------------------------------------
(* The first hit of the market: folds over the candles and the catalog.     *)

LEMMA Prefix ==
  ASSUME NEW n \in Nat, n # 0
  PROVE  1..n # {} /\ Max(1..n) = n /\ (1..n) \ {n} = 1..(n - 1)
<1>1. 1..n # {} /\ n \in 1..n /\ 1..n \subseteq Int
  OBVIOUS
<1>2. IsFiniteSet(1..n)
  BY FS_Interval
<1>3. Max(1..n) \in 1..n /\ \A y \in 1..n : Max(1..n) >= y
  BY <1>1, <1>2, MaxMember
<1>4. Max(1..n) \in Int /\ Max(1..n) <= n /\ Max(1..n) >= n
  BY <1>1, <1>3
<1>5. Max(1..n) = n
  BY <1>4
<1>6. (1..n) \ {n} = 1..(n - 1)
  OBVIOUS
<1> QED
  BY <1>1, <1>5, <1>6

\* A fold over a list: what it is defined by, on every set of positions.
Listed(g, n, base, h) ==
  \A t \in SUBSET (1..n) : g[t] = IF t = {} THEN base ELSE h[<<Max(t), g[t \ {Max(t)}]>>]

LEMMA ListFold ==
  ASSUME NEW n \in Nat, NEW V, NEW base \in V, NEW h \in [(1..n) \X V -> V]
  PROVE  \E g \in [SUBSET (1..n) -> V] : Listed(g, n, base, h)
<1> DEFINE choice == [t \in SUBSET (1..n) |-> Max(t)]
<1>1. IsFiniteSet(1..n) /\ 1..n \subseteq Int
  BY FS_Interval
<1>2. ASSUME NEW t \in SUBSET (1..n), t # {} PROVE Max(t) \in t
  <2>1. IsFiniteSet(t) /\ t \subseteq Int
    BY <1>1, FS_Subset
  <2> QED
    BY <1>2, <2>1, MaxMember
<1>3. \A t \in SUBSET (1..n) : choice[t] = Max(t) /\ (t # {} => choice[t] \in t)
  BY <1>2
<1> HIDE DEF choice
<1>4. PICK g \in [SUBSET (1..n) -> V] : FoldOf(g, 1..n, base, choice, h)
  BY <1>1, <1>3, FoldExists
<1>5. Listed(g, n, base, h)
  BY <1>3, <1>4 DEF FoldOf, Listed
<1> QED
  BY <1>4, <1>5

WalkStates == {"waiting", "entered", "TP", "SL", "over"}

\* One candle of a simulation, which may lie outside the idea's period.
Stepped(i, at, c) == IF InPeriod(i, c) THEN Walk(i, at, c) ELSE at

\* A simulation takes the candles one by one.
LEMMA WalkFold ==
  ASSUME NEW i, NEW R, NEW s \in Seq(R)
  PROVE  \E w : /\ w[0] = "waiting"
                /\ \A m \in 1..Len(s) : w[m] = Stepped(i, w[m - 1], s[m])
                /\ w[Len(s)] \in {"TP", "SL"} => Simulated(i, s).outcome = w[Len(s)]
                /\ Simulated(i, s).outcome \in {"TP", "SL"} => Simulated(i, s).outcome = w[Len(s)]
<1> DEFINE S == DOMAIN s
           P(f) == f = [t \in SUBSET S |-> IF t = {} THEN "waiting"
                          ELSE Stepped(i, f[t \ {Max(t)}], s[Max(t)])]
           end == (CHOOSE f : P(f))[S]
           take == [x \in S \X WalkStates |-> Stepped(i, x[2], s[x[1]])]
<1>1. Simulated(i, s).outcome = CASE end \in {"TP", "SL"} -> end
                                  [] end = "waiting" -> "NOT_TRIGGERED"
                                  [] OTHER -> "UNKNOWN"
  BY DEF Simulated, FoldLeft, MapThenFoldSet, Stepped
<1>2. S = 1..Len(s) /\ Len(s) \in Nat
  OBVIOUS
<1>3. take \in [S \X WalkStates -> WalkStates]
  BY DEF Stepped, Walk, WalkStates
<1>4. PICK g \in [SUBSET S -> WalkStates] :
        \A t \in SUBSET S : g[t] = IF t = {} THEN "waiting" ELSE take[<<Max(t), g[t \ {Max(t)}]>>]
  <2> HIDE DEF take
  <2>1. "waiting" \in WalkStates
    BY DEF WalkStates
  <2>2. Len(s) \in Nat /\ take \in [(1..Len(s)) \X WalkStates -> WalkStates]
    BY <1>2, <1>3
  <2>3. \E g \in [SUBSET (1..Len(s)) -> WalkStates] : Listed(g, Len(s), "waiting", take)
    BY <2>1, <2>2, ListFold
  <2> QED
    BY <1>2, <2>3 DEF Listed
<1>5. ASSUME NEW t \in SUBSET S, t # {} PROVE Max(t) \in S
  <2>1. IsFiniteSet(S) /\ S \subseteq Int
    BY <1>2, FS_Interval
  <2>2. IsFiniteSet(t) /\ t \subseteq Int
    BY <2>1, FS_Subset
  <2>3. Max(t) \in t
    BY <1>5, <2>2, MaxMember
  <2> QED
    BY <2>3
<1>6. P(g)
  <2>1. ASSUME NEW t \in SUBSET S, t # {} PROVE g[t] = Stepped(i, g[t \ {Max(t)}], s[Max(t)])
    <3>1. Max(t) \in S /\ g[t \ {Max(t)}] \in WalkStates
      BY <1>4, <1>5, <2>1
    <3> QED
      BY <1>4, <2>1, <3>1
  <2> QED
    BY <1>4, <2>1
<1>7. PICK f : P(f) /\ f = CHOOSE e : P(e)
  BY <1>6
<1>8. f[{}] = "waiting" /\ \A t \in SUBSET S : t # {} => f[t] = Stepped(i, f[t \ {Max(t)}], s[Max(t)])
  BY <1>7
<1>9. end = f[S]
  BY <1>7
<1> HIDE DEF P, end, take
<1> DEFINE w == [m \in 0..Len(s) |-> f[1..m]]
<1>10. w[0] = "waiting" /\ w[Len(s)] = end
  <2>1. 1..0 = {} /\ 0 \in 0..Len(s) /\ Len(s) \in 0..Len(s)
    BY <1>2
  <2> QED
    BY <1>2, <1>8, <1>9, <2>1
<1>11. ASSUME NEW m \in 1..Len(s) PROVE w[m] = Stepped(i, w[m - 1], s[m])
  <2>1. m \in Nat /\ m # 0 /\ m \in 0..Len(s) /\ m - 1 \in 0..Len(s) /\ 1..m \in SUBSET S
    BY <1>2
  <2>2. 1..m # {} /\ Max(1..m) = m /\ (1..m) \ {m} = 1..(m - 1)
    BY <2>1, Prefix
  <2>3. f[1..m] = Stepped(i, f[1..(m - 1)], s[m])
    BY <1>8, <2>1, <2>2
  <2> QED
    BY <2>1, <2>3
<1> HIDE DEF w
<1> QED
  BY <1>1, <1>10, <1>11

LEMMA IntervalGrows ==
  ASSUME NEW n \in Nat
  PROVE  1..(n + 1) = (1..n) \cup {n + 1}
OBVIOUS

\* What the catalog has published are ideas of the catalog.
LEMMA PublishedForm ==
  ASSUME NEW R, world.catalog \in Seq(R)
  PROVE  Published \in Seq(R)
<1> DEFINE s == world.catalog
           S == DOMAIN s
           add(q, i) == IF i.published <= now THEN Append(q, i) ELSE q
           P(f) == f = [t \in SUBSET S |-> IF t = {} THEN <<>> ELSE add(f[t \ {Max(t)}], s[Max(t)])]
           take == [x \in S \X Seq(R) |-> add(x[2], s[x[1]])]
<1>1. Published = (CHOOSE f : P(f))[S]
  BY DEF Published, FoldLeft, MapThenFoldSet
<1>2. S = 1..Len(s) /\ Len(s) \in Nat
  OBVIOUS
<1>3. take \in [S \X Seq(R) -> Seq(R)]
  <2>1. ASSUME NEW x \in S \X Seq(R) PROVE add(x[2], s[x[1]]) \in Seq(R)
    <3>1. x[2] \in Seq(R) /\ s[x[1]] \in R
      OBVIOUS
    <3> QED
      BY <3>1
  <2> HIDE DEF add
  <2> QED
    BY <2>1
<1>4. PICK g \in [SUBSET S -> Seq(R)] :
        \A t \in SUBSET S : g[t] = IF t = {} THEN <<>> ELSE take[<<Max(t), g[t \ {Max(t)}]>>]
  <2> HIDE DEF take
  <2>1. <<>> \in Seq(R)
    OBVIOUS
  <2>2. Len(s) \in Nat /\ take \in [(1..Len(s)) \X Seq(R) -> Seq(R)]
    BY <1>2, <1>3
  <2>3. \E g \in [SUBSET (1..Len(s)) -> Seq(R)] : Listed(g, Len(s), <<>>, take)
    BY <2>1, <2>2, ListFold
  <2> QED
    BY <1>2, <2>3 DEF Listed
<1>5. ASSUME NEW t \in SUBSET S, t # {} PROVE Max(t) \in S
  <2>1. IsFiniteSet(S) /\ S \subseteq Int
    BY <1>2, FS_Interval
  <2>2. IsFiniteSet(t) /\ t \subseteq Int
    BY <2>1, FS_Subset
  <2>3. Max(t) \in t
    BY <1>5, <2>2, MaxMember
  <2> QED
    BY <2>3
<1> HIDE DEF add
<1>6. P(g)
  <2>1. ASSUME NEW t \in SUBSET S, t # {} PROVE g[t] = add(g[t \ {Max(t)}], s[Max(t)])
    <3>1. Max(t) \in S /\ g[t \ {Max(t)}] \in Seq(R)
      BY <1>4, <1>5, <2>1
    <3> QED
      BY <1>4, <2>1, <3>1
  <2> QED
    BY <1>4, <2>1
<1>7. PICK f : P(f) /\ f = CHOOSE e : P(e)
  BY <1>6
<1>8. f[{}] = <<>> /\ \A t \in SUBSET S : t # {} => f[t] = add(f[t \ {Max(t)}], s[Max(t)])
  BY <1>7
<1> HIDE DEF P, take
<1> DEFINE T == {m \in Nat : m <= Len(s) => f[1..m] \in Seq(R)}
<1>9. 0 \in T
  <2>1. 1..0 = {} /\ <<>> \in Seq(R)
    OBVIOUS
  <2> QED
    BY <1>8, <2>1
<1>10. ASSUME NEW m \in T PROVE m + 1 \in T
  <2> SUFFICES ASSUME m + 1 <= Len(s) PROVE f[1..(m + 1)] \in Seq(R)
    OBVIOUS
  <2>1. m \in Nat /\ m + 1 \in Nat /\ m + 1 # 0 /\ (m + 1) - 1 = m /\ 1..(m + 1) \in SUBSET S
    BY <1>2
  <2>2. 1..(m + 1) # {} /\ Max(1..(m + 1)) = m + 1 /\ (1..(m + 1)) \ {m + 1} = 1..((m + 1) - 1)
    BY <2>1, Prefix
  <2>3. f[1..(m + 1)] = add(f[1..m], s[m + 1])
    BY <1>8, <2>1, <2>2
  <2>4. f[1..m] \in Seq(R) /\ s[m + 1] \in R
    BY <1>2, <2>1
  <2> QED
    BY <2>3, <2>4 DEF add
<1>11. T = Nat
  <2> HIDE DEF T
  <2>1. T \subseteq Nat
    BY DEF T
  <2> QED
    BY <1>9, <1>10, <2>1, Induction
<1>12. f[S] \in Seq(R)
  BY <1>2, <1>11
<1> QED
  BY <1>1, <1>7, <1>12 DEF P

\* A drawn candle of an idea's period, one that hits a level after the entry, and the
\* first such one.
InIdea(h, i, k) == k \in DOMAIN h /\ i.published <= h[k].time /\ h[k].time <= i.expires
EntryAt(h, i, k) == InIdea(h, i, k) /\ FallsTo(i, h[k], i.entry)
HitAt(h, i, k) ==
  /\ InIdea(h, i, k)
  /\ \E e \in DOMAIN h : e <= k /\ EntryAt(h, i, e)
  /\ Reaches(i, h[k], i.target) \/ FallsTo(i, h[k], i.stop)
FirstHit(h, i, k) == HitAt(h, i, k) /\ \A m \in DOMAIN h : HitAt(h, i, m) => k <= m
LevelAt(h, i, k) == IF Reaches(i, h[k], i.target) THEN "TP" ELSE "SL"

\* HitFirst in any list of candles.
HitOf(h, i) ==
  LET inside == {k \in DOMAIN h : i.published <= h[k].time /\ h[k].time <= i.expires}
      entered(k) == \E e \in inside : e <= k /\ FallsTo(i, h[e], i.entry)
      hits == {k \in inside : /\ entered(k)
                              /\ \/ Reaches(i, h[k], i.target)
                                 \/ FallsTo(i, h[k], i.stop)}
  IN IF hits = {} THEN "none"
     ELSE LET k == CHOOSE k \in hits : \A m \in hits : k <= m
          IN IF Reaches(i, h[k], i.target) THEN "TP" ELSE "SL"

LEMMA HitOfIs ==
  ASSUME NEW H, NEW h \in Seq(H), NEW i
  PROVE  /\ \A k \in DOMAIN h : FirstHit(h, i, k) => HitOf(h, i) = LevelAt(h, i, k)
         /\ HitOf(h, i) # "none" => \E k \in DOMAIN h : FirstHit(h, i, k)
<1> DEFINE inside == {k \in DOMAIN h : i.published <= h[k].time /\ h[k].time <= i.expires}
           entered(k) == \E e \in inside : e <= k /\ FallsTo(i, h[e], i.entry)
           hits == {k \in inside : /\ entered(k)
                                   /\ \/ Reaches(i, h[k], i.target)
                                      \/ FallsTo(i, h[k], i.stop)}
           least == CHOOSE k \in hits : \A m \in hits : k <= m
<1>1. HitOf(h, i) = IF hits = {} THEN "none" ELSE IF Reaches(i, h[least], i.target) THEN "TP" ELSE "SL"
  BY DEF HitOf
<1>2. DOMAIN h \subseteq Nat /\ hits \subseteq DOMAIN h
  OBVIOUS
<1>3. \A k \in DOMAIN h : k \in hits <=> HitAt(h, i, k)
  BY DEF HitAt, EntryAt, InIdea
<1> HIDE DEF hits
<1>4. ASSUME NEW k \in DOMAIN h, FirstHit(h, i, k) PROVE HitOf(h, i) = LevelAt(h, i, k)
  <2>1. k \in hits /\ \A m \in hits : k <= m
    BY <1>2, <1>3, <1>4 DEF FirstHit
  <2>2. least \in hits /\ \A m \in hits : least <= m
    BY <2>1
  <2>3. k <= least /\ least <= k /\ k \in Nat /\ least \in Nat
    BY <1>2, <2>1, <2>2
  <2>4. least = k
    BY <2>3
  <2> HIDE DEF least
  <2> QED
    BY <1>1, <2>1, <2>4 DEF LevelAt
<1>5. ASSUME HitOf(h, i) # "none" PROVE \E k \in DOMAIN h : FirstHit(h, i, k)
  <2>1. hits # {} /\ hits \subseteq Nat
    BY <1>1, <1>2, <1>5
  <2>2. PICK k \in hits : \A m \in hits : k <= m
    BY <2>1, LeastOf
  <2> QED
    BY <1>2, <1>3, <2>2 DEF FirstHit
<1> QED
  BY <1>4, <1>5

\* Where candle times can be parsed, what a simulation over the latest candles finds is
\* the first hit of the market, if every candle of the idea's period is among them.
LEMMA Replayed ==
  ASSUME world.stamped, NEW H, NEW h \in Seq(H), NEW i, NEW s \in Seq(H), NEW d \in Nat,
         d + Len(s) = Len(h),
         \A m \in 1..Len(s) : s[m] = h[m + d],
         \A k \in 1..d : ~(i.published <= h[k].time),
         Simulated(i, s).outcome \in {"TP", "SL"}
  PROVE  HitOf(h, i) = Simulated(i, s).outcome
<1>1. PICK w : /\ w[0] = "waiting"
               /\ \A m \in 1..Len(s) : w[m] = Stepped(i, w[m - 1], s[m])
               /\ Simulated(i, s).outcome \in {"TP", "SL"} => Simulated(i, s).outcome = w[Len(s)]
  BY WalkFold
<1> DEFINE Told(m) ==
             /\ w[m] \in WalkStates
             /\ w[m] = "waiting" => \A k \in 1..(m + d) : ~EntryAt(h, i, k)
             /\ w[m] = "entered" => /\ \E e \in 1..(m + d) : EntryAt(h, i, e)
                                    /\ \A k \in 1..(m + d) : ~HitAt(h, i, k)
             /\ w[m] \in {"TP", "SL"} => \E k \in 1..(m + d) : FirstHit(h, i, k) /\ LevelAt(h, i, k) = w[m]
           T == {m \in Nat : m <= Len(s) => Told(m)}
<1>2. Len(s) \in Nat /\ Len(h) \in Nat /\ DOMAIN h = 1..Len(h)
  OBVIOUS
<1>3. 0 \in T
  <2>1. \A k \in 1..(0 + d) : ~EntryAt(h, i, k)
    BY DEF EntryAt, InIdea
  <2> QED
    BY <1>1, <2>1 DEF WalkStates
<1>4. ASSUME NEW m \in T PROVE m + 1 \in T
  <2> SUFFICES ASSUME m + 1 <= Len(s) PROVE Told(m + 1)
    OBVIOUS
  <2> DEFINE n == (m + 1) + d
             c == h[n]
  <2>1. /\ m \in Nat /\ m + 1 \in 1..Len(s) /\ m + d \in Nat /\ n = (m + d) + 1 /\ n \in DOMAIN h
        /\ 1..n = (1..(m + d)) \cup {n} /\ \A k \in 1..(m + d) : k <= n /\ ~(n <= k) /\ k \in DOMAIN h
    <3>1. m \in Nat /\ m + 1 \in 1..Len(s) /\ m + d \in Nat /\ n = (m + d) + 1 /\ n <= Len(h)
      BY <1>2
    <3>2. n \in DOMAIN h
      BY <1>2, <3>1
    <3> HIDE DEF n
    <3>3. \A k \in 1..(m + d) : k <= n /\ ~(n <= k) /\ k \in DOMAIN h
      BY <1>2, <3>1
    <3>4. 1..n = (1..(m + d)) \cup {n}
      <4>1. 1..((m + d) + 1) = (1..(m + d)) \cup {(m + d) + 1}
        BY <3>1, IntervalGrows
      <4> QED
        BY <3>1, <4>1
    <3> QED
      BY <3>1, <3>2, <3>3, <3>4
  <2>2. Told(m)
    BY <2>1
  <2>3. w[m + 1] = Stepped(i, w[m], c)
    <3>1. w[m + 1] = Stepped(i, w[(m + 1) - 1], s[m + 1]) /\ s[m + 1] = c
      BY <1>1, <2>1
    <3>2. (m + 1) - 1 = m
      BY <2>1
    <3> QED
      BY <3>1, <3>2
  <2>4. InIdea(h, i, n) <=> InPeriod(i, c)
    BY <2>1 DEF InIdea, InPeriod
  <2> HIDE DEF n, c
  <2>5. CASE ~InPeriod(i, c)
    <3>1. w[m + 1] = w[m]
      BY <2>3, <2>5 DEF Stepped
    <3>2. ~EntryAt(h, i, n) /\ ~HitAt(h, i, n)
      BY <2>4, <2>5 DEF EntryAt, HitAt
    <3> QED
      BY <2>1, <2>2, <3>1, <3>2 DEF n
  <2>6. CASE InPeriod(i, c)
    <3>1. w[m + 1] = Walk(i, w[m], c)
      BY <2>3, <2>6 DEF Stepped
    <3> DEFINE in == w[m] = "entered" \/ (w[m] = "waiting" /\ FallsTo(i, c, i.entry))
    <3>2. CASE ~in
      <4>1. w[m + 1] = w[m]
        BY <3>1, <3>2 DEF Walk
      <4>2. w[m] = "waiting" => ~EntryAt(h, i, n)
        BY <3>2 DEF EntryAt, c
      <4> QED
        BY <2>1, <2>2, <3>2, <4>1, <4>2 DEF n
    <3>3. CASE in
      <4>1. \E e \in 1..n : EntryAt(h, i, e)
        BY <2>1, <2>2, <2>4, <2>6, <3>3 DEF EntryAt, c
      <4>2. \A k \in 1..(m + d) : ~HitAt(h, i, k)
        BY <2>1, <2>2, <3>3 DEF HitAt
      <4>3. HitAt(h, i, n) <=> Reaches(i, c, i.target) \/ FallsTo(i, c, i.stop)
        BY <2>1, <2>4, <2>6, <4>1 DEF HitAt, c
      <4>4. HitAt(h, i, n) => FirstHit(h, i, n)
        BY <1>2, <2>1, <4>2 DEF FirstHit
      <4>5. CASE HitAt(h, i, n)
        <5>1. w[m + 1] = LevelAt(h, i, n)
          BY <3>1, <3>3, <4>3, <4>5 DEF Walk, LevelAt, c
        <5>2. n \in 1..n /\ FirstHit(h, i, n) /\ LevelAt(h, i, n) \in {"TP", "SL"}
          BY <2>1, <4>4, <4>5 DEF LevelAt
        <5> QED
          BY <5>1, <5>2 DEF n, WalkStates
      <4>6. CASE ~HitAt(h, i, n)
        <5>1. w[m + 1] \in {"entered", "over"}
          BY <3>1, <3>3, <4>3, <4>6 DEF Walk
        <5>2. \A k \in 1..n : ~HitAt(h, i, k)
          BY <2>1, <4>2, <4>6
        <5> QED
          BY <4>1, <5>1, <5>2 DEF n, WalkStates
      <4> QED
        BY <4>5, <4>6
    <3> QED
      BY <3>2, <3>3
  <2> QED
    BY <2>5, <2>6
<1>5. T = Nat
  <2> HIDE DEF T
  <2>1. T \subseteq Nat
    BY DEF T
  <2> QED
    BY <1>3, <1>4, <2>1, Induction
<1>6. Told(Len(s))
  BY <1>2, <1>5
<1>7. PICK k \in 1..(Len(s) + d) : FirstHit(h, i, k) /\ LevelAt(h, i, k) = w[Len(s)]
  BY <1>1, <1>6
<1>8. k \in DOMAIN h
  BY <1>2
<1> HIDE DEF T, Told
<1>9. HitOf(h, i) = LevelAt(h, i, k)
  BY <1>7, <1>8, HitOfIs
<1> QED
  BY <1>1, <1>7, <1>9

\* The first hit is the first hit whatever is drawn after it.
LEMMA HitStays ==
  ASSUME NEW H, NEW h \in Seq(H), NEW c \in H, NEW i, HitOf(h, i) \in {"TP", "SL"}
  PROVE  HitOf(Append(h, c), i) = HitOf(h, i)
<1> DEFINE g == Append(h, c)
<1>1. /\ g \in Seq(H) /\ Len(h) \in Nat /\ DOMAIN h = 1..Len(h) /\ DOMAIN g = 1..(Len(h) + 1)
      /\ \A k \in DOMAIN h : k \in DOMAIN g /\ g[k] = h[k]
  OBVIOUS
<1> HIDE DEF g
<1>2. PICK k \in DOMAIN h : FirstHit(h, i, k)
  BY HitOfIs
<1>3. \A m \in DOMAIN h : InIdea(g, i, m) <=> InIdea(h, i, m)
  BY <1>1 DEF InIdea
<1>4. \A m \in DOMAIN h : EntryAt(g, i, m) <=> EntryAt(h, i, m)
  BY <1>1, <1>3 DEF EntryAt
<1>5. ASSUME NEW m \in DOMAIN h PROVE HitAt(g, i, m) <=> HitAt(h, i, m)
  <2>1. \A e \in DOMAIN g : e <= m => e \in DOMAIN h
    BY <1>1
  <2>2. (\E e \in DOMAIN g : e <= m /\ EntryAt(g, i, e)) <=> \E e \in DOMAIN h : e <= m /\ EntryAt(h, i, e)
    BY <1>1, <1>4, <2>1
  <2> QED
    BY <1>1, <1>3, <2>2 DEF HitAt
<1>6. FirstHit(g, i, k)
  <2>1. HitAt(g, i, k)
    BY <1>2, <1>5 DEF FirstHit
  <2>2. ASSUME NEW m \in DOMAIN g, HitAt(g, i, m) PROVE k <= m
    <3>1. CASE m \in DOMAIN h
      BY <1>2, <1>5, <2>2, <3>1 DEF FirstHit
    <3>2. CASE m \notin DOMAIN h
      BY <1>1, <3>2
    <3> QED
      BY <3>1, <3>2
  <2> QED
    BY <2>1, <2>2 DEF FirstHit
<1>7. HitOf(g, i) = LevelAt(g, i, k)
  BY <1>1, <1>6, HitOfIs
<1>8. HitOf(h, i) = LevelAt(h, i, k)
  BY <1>2, HitOfIs
<1>9. LevelAt(g, i, k) = LevelAt(h, i, k)
  BY <1>1 DEF LevelAt
<1> QED
  BY <1>7, <1>8, <1>9 DEF g

\* A result computed from a load that held the idea's whole period.
LEMMA LoadTells ==
  ASSUME world.stamped, NEW H, NEW h \in Seq(H), NEW i,
         \A k \in 1..(Len(h) - MaxLoad) : ~(i.published <= h[k].time),
         NEW loaded \in {<<>>, LastOf(h, MaxLoad)},
         ResultOf(i, loaded).outcome \in {"TP", "SL"}
  PROVE  HitOf(h, i) = ResultOf(i, loaded).outcome
<1>1. WithoutCandles(i).outcome \notin {"TP", "SL"}
  BY DEF WithoutCandles
<1>2. ResultOf(i, loaded) = Simulated(i, loaded) /\ loaded # <<>>
  <2>1. \E k \in DOMAIN loaded : InPeriod(i, loaded[k])
    BY <1>1 DEF ResultOf
  <2> QED
    BY <2>1 DEF ResultOf
<1>3. loaded = LastOf(h, MaxLoad) /\ Simulated(i, loaded).outcome \in {"TP", "SL"}
  BY <1>2
<1>4. MaxLoad \in Nat /\ Len(h) \in Nat
  BY ValidationBound
<1> DEFINE d == IF Len(h) < MaxLoad THEN 0 ELSE Len(h) - MaxLoad
<1>5. d \in Nat /\ d <= Len(h) /\ \A k \in 1..d : k \in 1..(Len(h) - MaxLoad)
  BY <1>4
<1>6. loaded = SubSeq(h, d + 1, Len(h))
  BY <1>3, <1>4 DEF LastOf
<1> HIDE DEF d
<1>7. /\ loaded \in Seq(H) /\ d + Len(loaded) = Len(h)
      /\ \A m \in 1..Len(loaded) : loaded[m] = h[m + d]
  BY <1>4, <1>5, <1>6
<1>8. HitOf(h, i) = Simulated(i, loaded).outcome
  BY <1>3, <1>5, <1>7, Replayed
<1> QED
  BY <1>2, <1>8

\* Candles the market may have drawn, and the ideas of the catalog.
Drawn == {[high |-> b.high, low |-> b.low, time |-> n] : b \in Bars, n \in Nat}
Ideas == {world.catalog[k] : k \in DOMAIN world.catalog}

\* A validator at work has ideas of the catalog before it.
WorkInv ==
  /\ world \in Worlds
  /\ now \in Nat
  /\ history \in Seq(Drawn)
  /\ \A v \in Validators : todo[v] \in Seq(Ideas) /\ (pc[v] # "idle" => todo[v] # <<>>)

LEMMA CatalogForm ==
  ASSUME world \in Worlds
  PROVE  world.catalog \in Seq(Ideas) /\ world.catalog \in Seq(Idea) /\ world.stamped \in BOOLEAN
<1>1. world.catalog \in Seq(Idea) /\ world.stamped \in BOOLEAN
  BY WorldsAssumption
<1>2. \A k \in DOMAIN world.catalog : world.catalog[k] \in Ideas
  BY DEF Ideas
<1>3. DOMAIN world.catalog = 1..Len(world.catalog) /\ Len(world.catalog) \in Nat
  BY <1>1
<1>4. world.catalog \in Seq(Ideas)
  <2> DEFINE s == world.catalog
             n == Len(s)
  <2>1. s = [k \in 1..n |-> s[k]] /\ n \in Nat /\ \A k \in 1..n : s[k] \in Ideas
    BY <1>1, <1>2, <1>3
  <2> HIDE DEF s, n
  <2>2. s \in [1..n -> Ideas]
    BY <2>1
  <2>3. s \in Seq(Ideas)
    BY <2>1, <2>2
  <2> QED
    BY <2>3 DEF s
<1> QED
  BY <1>1, <1>4

LEMMA WorkInit == ValidationInit => WorkInv
<1> SUFFICES ASSUME ValidationInit PROVE WorkInv
  OBVIOUS
<1>1. <<>> \in Seq(Drawn) /\ <<>> \in Seq(Ideas)
  OBVIOUS
<1> QED
  BY <1>1 DEF ValidationInit, WorkInv

LEMMA NextIdeaKeeps ==
  ASSUME Shape, WorkInv, NEW v \in Validators, pc[v] # "idle", NextIdea(v), UNCHANGED <<world, now, history>>
  PROVE  WorkInv'
<1>1. todo[v] \in Seq(Ideas) /\ todo[v] # <<>>
  BY DEF WorkInv
<1>2. Tail(todo[v]) \in Seq(Ideas) /\ (Len(todo[v]) # 1 => Tail(todo[v]) # <<>>)
  <2>1. PICK s \in Seq(Ideas) : s = todo[v] /\ s # <<>>
    BY <1>1
  <2>2. Tail(s) \in Seq(Ideas) /\ Len(Tail(s)) = Len(s) - 1 /\ Len(s) \in Nat
    BY <2>1
  <2>3. Len(s) # 1 => Len(Tail(s)) # 0
    BY <2>2
  <2>4. Len(s) # 1 => Tail(s) # <<>>
    BY <2>3
  <2> QED
    BY <2>1, <2>2, <2>4
<1>3. todo'[v] = Tail(todo[v]) /\ pc'[v] = IF Len(todo[v]) = 1 THEN "idle" ELSE "look"
  BY DEF NextIdea, Shape
<1>4. \A w \in Validators : w # v => todo'[w] = todo[w] /\ pc'[w] = pc[w]
  BY DEF NextIdea, Shape
<1>5. Ideas' = Ideas
  BY DEF Ideas
<1>6. \A w \in Validators : todo'[w] \in Seq(Ideas) /\ (pc'[w] # "idle" => todo'[w] # <<>>)
  BY <1>2, <1>3, <1>4 DEF WorkInv
<1> QED
  BY <1>5, <1>6 DEF WorkInv

LEMMA WorkStep == Shape /\ WorkInv /\ [ValidationNext]_validationVars => WorkInv'
<1> SUFFICES ASSUME Shape, WorkInv, [ValidationNext]_validationVars PROVE WorkInv'
  OBVIOUS
<1>0. world' = world
  BY DEF ValidationNext, Step, Regular, Begin, Look, Load, LoadRaises, ReadItems, SaveItems, SaveAudit,
         Tick, Crash, validationVars
<1>01. Ideas' = Ideas
  BY <1>0 DEF Ideas
<1>02. <<>> \in Seq(Ideas)
  OBVIOUS
<1>1. ASSUME NEW v \in Validators, Begin(v) PROVE WorkInv'
  <2> DEFINE ideas == FirstOf(Published, Batch)
  <2>1. Published \in Seq(Ideas)
    BY CatalogForm, PublishedForm DEF WorkInv
  <2>2. ideas \in Seq(Ideas) /\ ideas # <<>>
    <3>1. Batch \in Nat /\ Len(Published) \in Nat
      BY <2>1, ValidationBound
    <3>2. FirstOf(Published, Batch) \in Seq(Ideas)
      BY <2>1, <3>1 DEF FirstOf
    <3> QED
      BY <1>1, <3>2 DEF Begin
  <2>3. todo'[v] = ideas /\ pc'[v] = "look" /\ UNCHANGED <<now, history>>
    BY <1>1 DEF Begin, Shape
  <2>4. \A w \in Validators : w # v => todo'[w] = todo[w] /\ pc'[w] = pc[w]
    BY <1>1 DEF Begin, Shape
  <2> HIDE DEF ideas
  <2> QED
    BY <1>0, <1>01, <2>2, <2>3, <2>4 DEF WorkInv
<1>2. ASSUME NEW v \in Validators, Look(v) PROVE WorkInv'
  <2>1. UNCHANGED <<now, history>> /\ pc[v] = "look"
    BY <1>2 DEF Look
  <2>2. CASE NextIdea(v)
    BY <1>0, <2>1, <2>2, NextIdeaKeeps
  <2>3. CASE todo' = todo /\ \A w \in Validators : pc'[w] = pc[w] \/ w = v
    BY <1>0, <1>01, <2>1, <2>3 DEF WorkInv
  <2>4. todo' = todo => \A w \in Validators : pc'[w] = pc[w] \/ w = v
    BY <1>2 DEF Look, NextIdea, Shape
  <2> QED
    BY <1>2, <2>2, <2>3, <2>4 DEF Look
<1>3. ASSUME NEW v \in Validators, Load(v) \/ ReadItems(v) \/ SaveItems(v) PROVE WorkInv'
  <2>1. UNCHANGED <<now, history, todo>> /\ pc[v] # "idle"
    BY <1>3 DEF Load, ReadItems, SaveItems
  <2>2. \A w \in Validators : pc'[w] = pc[w] \/ w = v
    BY <1>3 DEF Load, ReadItems, SaveItems, Shape
  <2> QED
    BY <1>0, <1>01, <2>1, <2>2 DEF WorkInv
<1>4. ASSUME NEW v \in Validators, LoadRaises(v) PROVE WorkInv'
  <2>1. UNCHANGED <<now, history>> /\ todo'[v] = <<>> /\ pc'[v] = "idle"
    BY <1>4 DEF LoadRaises, Shape
  <2>2. \A w \in Validators : w # v => todo'[w] = todo[w] /\ pc'[w] = pc[w]
    BY <1>4 DEF LoadRaises, Shape
  <2> QED
    BY <1>0, <1>01, <1>02, <2>1, <2>2 DEF WorkInv
<1>5. ASSUME NEW v \in Validators, SaveAudit(v) PROVE WorkInv'
  <2>1. UNCHANGED <<now, history>> /\ pc[v] = "audit" /\ NextIdea(v)
    BY <1>5 DEF SaveAudit
  <2> QED
    BY <1>0, <2>1, NextIdeaKeeps
<1>6. ASSUME Tick PROVE WorkInv'
  <2>1. PICK b \in Bars : history' = Append(history, [high |-> b.high, low |-> b.low, time |-> now'])
    BY <1>6 DEF Tick
  <2>2. now' \in Nat
    BY <1>6 DEF Tick, WorkInv
  <2>3. [high |-> b.high, low |-> b.low, time |-> now'] \in Drawn
    BY <2>2 DEF Drawn
  <2>4. history' \in Seq(Drawn)
    BY <2>1, <2>3 DEF WorkInv
  <2>5. Drawn' = Drawn
    BY DEF Drawn
  <2>6. UNCHANGED <<pc, todo>>
    BY <1>6 DEF Tick, local
  <2> QED
    BY <1>0, <1>01, <2>2, <2>4, <2>5, <2>6 DEF WorkInv
<1>7. ASSUME Crash PROVE WorkInv'
  <2>1. UNCHANGED <<now, history>> /\ \A w \in Validators : todo'[w] = <<>> /\ pc'[w] = "idle"
    BY <1>7 DEF Crash
  <2> QED
    BY <1>0, <1>01, <1>02, <2>1 DEF WorkInv
<1>8. ASSUME UNCHANGED validationVars PROVE WorkInv'
  BY <1>01, <1>8 DEF validationVars, local, WorkInv
<1> QED
  BY <1>1, <1>2, <1>3, <1>4, <1>5, <1>6, <1>7, <1>8 DEF ValidationNext, Step, Regular

\* A result is objective: its hit, if it has one, is the first one of its idea.
Objective(r, h, lost, ideas) ==
  r.outcome \in {"TP", "SL"} /\ r.id \notin lost =>
    \E k \in DOMAIN ideas : ideas[k].id = r.id /\ HitOf(h, ideas[k]) = r.outcome

\* So are the results in the file and those a validator holds.
ObjectiveInv ==
  world.stamped =>
    /\ \A r \in registry : Objective(r, history, missed, world.catalog)
    /\ \A v \in Validators :
         /\ Objective(result[v], history, missed, world.catalog)
         /\ \A r \in items[v] : Objective(r, history, missed, world.catalog)

LEMMA ObjectiveInit == ValidationInit => ObjectiveInv
  BY DEF ValidationInit, ObjectiveInv, Objective, NoResult

LEMMA ObjectiveStays ==
  ASSUME WorkInv, [ValidationNext]_validationVars, NEW r, Objective(r, history, missed, world.catalog)
  PROVE  Objective(r, history', missed', world'.catalog)
<1>1. missed \subseteq missed' /\ world' = world
  BY DEF ValidationNext, Step, Regular, Begin, Look, Load, LoadRaises, ReadItems, SaveItems, SaveAudit,
         Tick, Crash, validationVars
<1>2. CASE history' = history
  BY <1>1, <1>2 DEF Objective
<1>3. CASE history' # history
  <2>1. Tick
    BY <1>3 DEF ValidationNext, Step, Regular, Begin, Look, Load, LoadRaises, ReadItems, SaveItems,
                SaveAudit, Crash, validationVars
  <2>2. PICK b \in Bars : history' = Append(history, [high |-> b.high, low |-> b.low, time |-> now'])
    BY <2>1 DEF Tick
  <2>3. now' \in Nat
    BY <2>1 DEF Tick, WorkInv
  <2> DEFINE c == [high |-> b.high, low |-> b.low, time |-> now']
  <2>4. c \in Drawn /\ history' = Append(history, c) /\ history \in Seq(Drawn)
    BY <2>2, <2>3 DEF Drawn, WorkInv
  <2> HIDE DEF c
  <2>5. \A i : HitOf(history, i) \in {"TP", "SL"} => HitOf(history', i) = HitOf(history, i)
    BY <2>4, HitStays
  <2> QED
    BY <1>1, <2>5 DEF Objective
<1> QED
  BY <1>2, <1>3

LEMMA ObjectiveStep ==
  Shape /\ WorkInv /\ ObjectiveInv /\ [ValidationNext]_validationVars => ObjectiveInv'
<1> DEFINE Now(r) == Objective(r, history, missed, world.catalog)
           Next(r) == Objective(r, history', missed', world'.catalog)
<1> SUFFICES ASSUME Shape, WorkInv, ObjectiveInv, [ValidationNext]_validationVars, world'.stamped
             PROVE  /\ \A r \in registry' : Next(r)
                    /\ \A v \in Validators : Next(result'[v]) /\ \A r \in items'[v] : Next(r)
  BY DEF ObjectiveInv
<1>0. world' = world /\ world.stamped
  BY DEF ValidationNext, Step, Regular, Begin, Look, Load, LoadRaises, ReadItems, SaveItems, SaveAudit,
         Tick, Crash, validationVars
<1>1. /\ \A r \in registry : Next(r)
      /\ \A v \in Validators : Next(result[v]) /\ \A r \in items[v] : Next(r)
  BY <1>0, ObjectiveStays DEF ObjectiveInv
<1> DEFINE Goal == /\ \A r \in registry' : Next(r)
                   /\ \A v \in Validators : Next(result'[v]) /\ \A r \in items'[v] : Next(r)
<1>2. ASSUME NEW r, r.outcome = "UNKNOWN" PROVE Next(r)
  BY <1>2 DEF Objective
<1> HIDE DEF Next
<1>3. ASSUME UNCHANGED <<registry, result, items>> PROVE Goal
  BY <1>1, <1>3
<1>4. ASSUME NEW v \in Validators, Begin(v) \/ LoadRaises(v) PROVE Goal
  BY <1>3, <1>4 DEF Begin, LoadRaises
<1>5. ASSUME NEW v \in Validators, Look(v) PROVE Goal
  <2> DEFINE i == Head(todo[v])
             new == [id |-> i.id, status |-> "invalid", outcome |-> "UNKNOWN"]
  <2>1. UNCHANGED <<registry, items>>
    BY <1>5 DEF Look
  <2>2. Next(new)
    BY <1>2
  <2>3. \A w \in Validators : result'[w] = result[w] \/ result'[w] = new
    BY <1>5 DEF Look, Shape
  <2> HIDE DEF new
  <2> QED
    BY <1>1, <2>1, <2>2, <2>3
<1>6. ASSUME NEW v \in Validators, Load(v) PROVE Goal
  <2> DEFINE i == Head(todo[v])
  <2>1. UNCHANGED <<registry, items, history>> /\ pc[v] # "idle"
    BY <1>6 DEF Load
  <2>2. PICK loaded \in {<<>>, LastOf(history, MaxLoad)} : result' = [result EXCEPT ![v] = ResultOf(i, loaded)]
    BY <1>6 DEF Load
  <2> DEFINE new == ResultOf(i, loaded)
  <2>3. \A w \in Validators : result'[w] = result[w] \/ result'[w] = new
    BY <2>2 DEF Shape
  <2>4. PICK k \in DOMAIN world.catalog : world.catalog[k] = i
    <3>1. PICK s \in Seq(Ideas) : s = todo[v] /\ s # <<>>
      BY <2>1 DEF WorkInv
    <3>2. Head(s) \in Ideas
      BY <3>1
    <3> QED
      BY <3>1, <3>2 DEF Ideas
  <2>5. new.id = i.id
    BY ResultId
  <2>6. ASSUME new.outcome \in {"TP", "SL"}, new.id \notin missed'
        PROVE  HitOf(history', i) = new.outcome
    <3>1. \A m \in 1..(Len(history) - MaxLoad) : ~(i.published <= history[m].time)
      BY <1>6, <2>5, <2>6 DEF Load
    <3>2. history \in Seq(Drawn)
      BY DEF WorkInv
    <3> HIDE DEF i
    <3>3. HitOf(history, i) = ResultOf(i, loaded).outcome
      BY <1>0, <2>6, <3>1, <3>2, LoadTells
    <3> QED
      BY <2>1, <3>3
  <2>7. Next(new)
    <3> HIDE DEF new, i
    <3> QED
      BY <1>0, <2>4, <2>5, <2>6 DEF Next, Objective
  <2> HIDE DEF new
  <2> QED
    BY <1>1, <2>1, <2>3, <2>7
<1>7. ASSUME NEW v \in Validators, ReadItems(v) PROVE Goal
  <2>1. UNCHANGED <<registry, result>>
    BY <1>7 DEF ReadItems
  <2>2. items'[v] \subseteq registry \cup {result[v]} /\ \A w \in Validators : w # v => items'[w] = items[w]
    BY <1>7 DEF ReadItems, Shape
  <2> QED
    BY <1>1, <2>1, <2>2
<1>8. ASSUME NEW v \in Validators, SaveItems(v) PROVE Goal
  <2>1. UNCHANGED <<result, items>> /\ registry' = items[v]
    BY <1>8 DEF SaveItems
  <2> QED
    BY <1>1, <1>8, <2>1
<1>9. Next(NoResult)
  BY <1>2 DEF NoResult
<1>10. ASSUME NEW v \in Validators, SaveAudit(v) PROVE Goal
  <2>1. registry' = registry
    BY <1>10 DEF SaveAudit
  <2>2. \A w \in Validators : (result'[w] = result[w] \/ result'[w] = NoResult)
                              /\ (items'[w] = items[w] \/ items'[w] = {})
    BY <1>10 DEF SaveAudit, Shape
  <2> QED
    BY <1>1, <1>9, <2>1, <2>2
<1>11. ASSUME Crash PROVE Goal
  <2>1. registry' = registry /\ \A w \in Validators : result'[w] = NoResult /\ items'[w] = {}
    BY <1>11 DEF Crash
  <2> QED
    BY <1>1, <1>9, <2>1
<1>12. ASSUME Tick \/ UNCHANGED validationVars PROVE Goal
  BY <1>3, <1>12 DEF Tick, validationVars, local
<1> QED
  BY <1>4, <1>5, <1>6, <1>7, <1>8, <1>10, <1>11, <1>12 DEF ValidationNext, Step, Regular

\* Where candle times can be parsed and the load held the idea's whole period, a TP or SL
\* in the registry is the first level the market hit after the entry, however early, often
\* and concurrently ideas are validated, whatever the catalog, the candles and the bounds
\* (_simulate, load_candles and _persist, signal_validation.py).
THEOREM OutcomesObjective == ValidationSpec => []ResultsObjective
<1>1. ValidationInit => Shape /\ WorkInv /\ ObjectiveInv
  BY ShapeInit, WorkInit, ObjectiveInit
<1>2. (Shape /\ WorkInv /\ ObjectiveInv) /\ [ValidationNext]_validationVars
        => (Shape /\ WorkInv /\ ObjectiveInv)'
  BY ShapeStep, WorkStep, ObjectiveStep
<1>3. Shape /\ WorkInv /\ ObjectiveInv => ResultsObjective
  <2>1. \A i : HitFirst(i) = HitOf(history, i)
    BY DEF HitFirst, HitOf
  <2> QED
    BY <2>1 DEF ObjectiveInv, Objective, ResultsObjective
<1> QED
  BY <1>1, <1>2, <1>3, PTL DEF ValidationSpec

\* Results, and the other files and variables, have their types.
FormInv ==
  /\ now \in 0..MaxTime
  /\ history \in Seq(Candle)
  /\ registry \subseteq Result
  /\ \A v \in Validators : /\ pc[v] \in {"idle", "look", "load", "read", "save", "audit"}
                           /\ result[v] \in Result \cup {NoResult}
                           /\ pc[v] \in {"read", "save"} => result[v] \in Result
                           /\ items[v] \subseteq Result
  /\ crossed \subseteq Validators
  /\ missed \subseteq STRING

LEMMA ResultForm ==
  ASSUME NEW i, i.id \in STRING, NEW s
  PROVE  ResultOf(i, s) \in Result
<1>1. WithoutCandles(i) \in Result
  BY DEF WithoutCandles, Result
<1>2. Simulated(i, s) \in Result
  BY DEF Simulated, Result
<1> QED
  BY <1>1, <1>2 DEF ResultOf

LEMMA HeadForm ==
  ASSUME WorkInv, NEW v \in Validators, pc[v] # "idle"
  PROVE  Head(todo[v]).id \in STRING
<1>1. PICK s \in Seq(Ideas) : s = todo[v] /\ s # <<>>
  BY DEF WorkInv
<1>2. Head(s) \in Ideas
  BY <1>1
<1>3. PICK k \in DOMAIN world.catalog : world.catalog[k] = Head(s)
  BY <1>2 DEF Ideas
<1>4. world.catalog[k] \in Idea
  BY CatalogForm DEF WorkInv
<1> QED
  BY <1>1, <1>3, <1>4 DEF Idea

LEMMA FormInit == ValidationInit => FormInv
<1> SUFFICES ASSUME ValidationInit PROVE FormInv
  OBVIOUS
<1>1. <<>> \in Seq(Candle)
  OBVIOUS
<1> QED
  BY <1>1, ValidationBound DEF ValidationInit, FormInv

LEMMA FormStep == Shape /\ WorkInv /\ FormInv /\ [ValidationNext]_validationVars => FormInv'
<1> SUFFICES ASSUME Shape, WorkInv, FormInv, [ValidationNext]_validationVars PROVE FormInv'
  OBVIOUS
<1> DEFINE Kept(w) == /\ pc'[w] = pc[w] /\ result'[w] = result[w] /\ items'[w] = items[w]
<1>1. ASSUME NEW v \in Validators, Begin(v) PROVE FormInv'
  <2>1. UNCHANGED <<now, history, registry, result, items, crossed, missed>> /\ pc'[v] = "look"
        /\ \A w \in Validators : w # v => pc'[w] = pc[w]
    BY <1>1 DEF Begin, Shape
  <2> QED
    BY <2>1 DEF FormInv
<1>2. ASSUME NEW v \in Validators, Look(v) PROVE FormInv'
  <2> DEFINE i == Head(todo[v])
             new == [id |-> i.id, status |-> "invalid", outcome |-> "UNKNOWN"]
  <2>1. UNCHANGED <<now, history, registry, items, crossed, missed>> /\ pc[v] # "idle"
    BY <1>2 DEF Look
  <2>2. i.id \in STRING
    BY <2>1, HeadForm
  <2>3. new \in Result
    BY <2>2 DEF Result
  <2>4. \A w \in Validators : w # v => pc'[w] = pc[w] /\ result'[w] = result[w]
    BY <1>2 DEF Look, NextIdea, Shape
  <2>5. \/ pc'[v] \in {"idle", "look", "load"} /\ result'[v] = result[v]
        \/ pc'[v] = "read" /\ result'[v] = new
    BY <1>2 DEF Look, NextIdea, Shape
  <2> HIDE DEF new
  <2> QED
    BY <2>1, <2>3, <2>4, <2>5 DEF FormInv
<1>3. ASSUME NEW v \in Validators, Load(v) PROVE FormInv'
  <2> DEFINE i == Head(todo[v])
  <2>1. UNCHANGED <<now, history, registry, items, crossed>> /\ pc[v] # "idle"
    BY <1>3 DEF Load
  <2>2. i.id \in STRING
    BY <2>1, HeadForm
  <2>3. PICK loaded : result' = [result EXCEPT ![v] = ResultOf(i, loaded)]
    BY <1>3 DEF Load
  <2>4. result'[v] \in Result /\ pc'[v] = "read" /\ missed' \subseteq STRING
    BY <1>3, <2>2, <2>3, ResultForm DEF Load, Shape, FormInv
  <2>5. \A w \in Validators : w # v => pc'[w] = pc[w] /\ result'[w] = result[w]
    BY <1>3, <2>3 DEF Load, Shape
  <2> QED
    BY <2>1, <2>4, <2>5 DEF FormInv
<1>4. ASSUME NEW v \in Validators, LoadRaises(v) PROVE FormInv'
  <2>1. UNCHANGED <<now, history, registry, result, items, missed>> /\ pc'[v] = "idle"
        /\ crossed' \subseteq crossed /\ \A w \in Validators : w # v => pc'[w] = pc[w]
    BY <1>4 DEF LoadRaises, Shape
  <2> QED
    BY <2>1 DEF FormInv
<1>5. ASSUME NEW v \in Validators, ReadItems(v) PROVE FormInv'
  <2>1. UNCHANGED <<now, history, registry, result, crossed, missed>> /\ pc[v] = "read" /\ pc'[v] = "save"
        /\ items'[v] \subseteq registry \cup {result[v]}
    BY <1>5 DEF ReadItems, Shape
  <2>2. \A w \in Validators : w # v => pc'[w] = pc[w] /\ items'[w] = items[w]
    BY <1>5 DEF ReadItems, Shape
  <2>3. items'[v] \subseteq Result
    BY <2>1 DEF FormInv
  <2> QED
    BY <2>1, <2>2, <2>3 DEF FormInv
<1>6. ASSUME NEW v \in Validators, SaveItems(v) PROVE FormInv'
  <2>1. UNCHANGED <<now, history, result, items, missed>> /\ registry' = items[v] /\ pc'[v] = "audit"
    BY <1>6 DEF SaveItems, Shape
  <2>2. crossed' \subseteq Validators /\ \A w \in Validators : w # v => pc'[w] = pc[w]
    BY <1>6 DEF SaveItems, Shape, FormInv
  <2> QED
    BY <1>6, <2>1, <2>2 DEF FormInv
<1>7. ASSUME NEW v \in Validators, SaveAudit(v) PROVE FormInv'
  <2>1. UNCHANGED <<now, history, registry, crossed, missed>>
    BY <1>7 DEF SaveAudit
  <2>2. pc'[v] \in {"idle", "look"} /\ result'[v] = NoResult /\ items'[v] = {}
    BY <1>7 DEF SaveAudit, NextIdea, Shape
  <2>3. \A w \in Validators : w # v => Kept(w)
    BY <1>7 DEF SaveAudit, NextIdea, Shape
  <2> HIDE DEF NoResult
  <2> QED
    BY <2>1, <2>2, <2>3 DEF FormInv
<1>8. ASSUME Tick PROVE FormInv'
  <2>1. PICK b \in Bars : history' = Append(history, [high |-> b.high, low |-> b.low, time |-> now'])
    BY <1>8 DEF Tick
  <2>2. now' \in 0..MaxTime /\ now' \in Nat
    BY <1>8, ValidationBound DEF Tick, FormInv
  <2>3. [high |-> b.high, low |-> b.low, time |-> now'] \in Candle
    BY <2>2, BarsAssumption DEF Candle
  <2>4. history' \in Seq(Candle)
    BY <2>1, <2>3 DEF FormInv
  <2>5. UNCHANGED <<registry, pc, result, items, crossed, missed>>
    BY <1>8 DEF Tick, local
  <2> QED
    BY <2>2, <2>4, <2>5 DEF FormInv
<1>9. ASSUME Crash PROVE FormInv'
  <2>1. UNCHANGED <<now, history, registry, missed>> /\ crossed' = {}
        /\ \A w \in Validators : pc'[w] = "idle" /\ result'[w] = NoResult /\ items'[w] = {}
    BY <1>9 DEF Crash
  <2> HIDE DEF NoResult
  <2> QED
    BY <2>1 DEF FormInv
<1>10. ASSUME UNCHANGED validationVars PROVE FormInv'
  BY <1>10 DEF validationVars, local, FormInv
<1> QED
  BY <1>1, <1>2, <1>3, <1>4, <1>5, <1>6, <1>7, <1>8, <1>9, <1>10 DEF ValidationNext, Step, Regular

\* The registry, and whatever a validator holds of it, are results of the four statuses
\* and outcomes, and a cycle's list is one of ideas, whatever overlaps, fails or dies.
THEOREM ValidationTypes == ValidationSpec => []ValidationTypeOK
<1>1. ValidationInit => Shape /\ WorkInv /\ FormInv
  BY ShapeInit, WorkInit, FormInit
<1>2. (Shape /\ WorkInv /\ FormInv) /\ [ValidationNext]_validationVars => (Shape /\ WorkInv /\ FormInv)'
  BY ShapeStep, WorkStep, FormStep
<1>3. Shape /\ WorkInv /\ FormInv => ValidationTypeOK
  <2> SUFFICES ASSUME Shape, WorkInv, FormInv PROVE ValidationTypeOK
    OBVIOUS
  <2>1. ASSUME NEW v \in Validators PROVE todo[v] \in Seq(Idea)
    <3>1. Ideas \subseteq Idea
      BY CatalogForm DEF WorkInv, Ideas
    <3>2. PICK s \in Seq(Ideas) : s = todo[v]
      BY DEF WorkInv
    <3>3. s \in Seq(Idea)
      BY <3>1, <3>2
    <3> QED
      BY <3>2, <3>3
  <2>2. todo \in [Validators -> Seq(Idea)]
    BY <2>1 DEF Shape
  <2>3. pc \in [Validators -> {"idle", "look", "load", "read", "save", "audit"}]
    BY DEF Shape, FormInv
  <2>4. result \in [Validators -> Result \cup {NoResult}] /\ items \in [Validators -> SUBSET Result]
    BY DEF Shape, FormInv
  <2> QED
    BY <2>2, <2>3, <2>4 DEF ValidationTypeOK, FormInv, WorkInv
<1> QED
  BY <1>1, <1>2, <1>3, PTL DEF ValidationSpec
=============================================================================
