--------------------------- MODULE SignalPipeline ---------------------------
(* One symbol's way from candles to a locked idea: the signal built from   *)
(* the candles, its score, the second scorer that a thread of the runtime  *)
(* patch puts on top of the first some time after the start, and the       *)
(* lifecycle's decision to open or close an idea.  Selling is buying on    *)
(* the mirrored market, in which every price has changed its sign.         *)
EXTENDS Integers, Sequences, FiniteSets, SequencesExt

CONSTANTS
  Shapes,     \* candles the market may draw
  MaxBars,    \* how many it draws
  MinBars,    \* candles a signal is built from (40)
  Period,     \* true ranges in an average (14)
  Span,       \* candles on each side of a swing (2)
  Recent,     \* swings that count (6)
  GapBars,    \* candles searched for a gap (40)
  Lookback,   \* candles behind a generated stop (24)
  RiskFloor,  \* least risk of generated levels
  Conditions, \* what else a poll meets: biases, candle trends, points, news
  None

ASSUME PipelineAssumption ==
  /\ {Period, Span, Recent} \subseteq Nat \ {0}
  /\ {MinBars, GapBars, Lookback, RiskFloor} \subseteq Nat /\ 0 < Lookback
  /\ Period < MinBars /\ 1 < MinBars
  /\ None \notin [entry : Int, stop : Int, target : Int]
  /\ Shapes \subseteq [open : Int, high : Int, low : Int, close : Int]
  /\ \A b \in Shapes : b.low <= b.open /\ b.low <= b.close /\ b.open <= b.high /\ b.close <= b.high
  /\ \A w \in Conditions : /\ {w.h4, w.h1} \subseteq {"bullish", "bearish", "neutral"}
                       /\ {w.trend, w.patchTrend} \subseteq {"BUY", "SELL", "WAIT"}

VARIABLES
  bars,       \* the symbol's candles
  patched,    \* the recovery patch has replaced the scorer
  active,     \* the symbol's locked idea, or None
  poll        \* the last poll since the market moved, or None

pipelineVars == <<bars, patched, active, poll>>

PipelineInit ==
  /\ bars = <<>>
  /\ patched = FALSE
  /\ active = None
  /\ poll = None

-----------------------------------------------------------------------------
(* Candles.                                                                 *)

Abs(n) == IF n < 0 THEN -n ELSE n

Mirror(s) ==
  [k \in DOMAIN s |->
     [open |-> -s[k].open, high |-> -s[k].low, low |-> -s[k].high, close |-> -s[k].close]]
Opposite == [bullish |-> "bearish", bearish |-> "bullish", neutral |-> "neutral"]

TrueRange(s, k) ==
  Max({s[k].high - s[k].low, Abs(s[k].high - s[k - 1].close), Abs(s[k].low - s[k - 1].close)})

\* The average of the last true ranges; too few candles have none.
Atr(s) ==
  LET n == Min({Period, Len(s) - 1})
  IN IF Len(s) < 3 THEN 0
     ELSE MapThenSumSet(LAMBDA k : TrueRange(s, k), (Len(s) - n + 1)..Len(s)) \div n

\* The latest swing lows; the lows of none are the last candle's.
SwingLows(s) ==
  LET swings == {k \in (1 + Span)..(Len(s) - Span) :
                   \A j \in (k - Span)..(k + Span) : s[k].low <= s[j].low}
      recent == {k \in swings : Cardinality({j \in swings : j > k}) < Recent}
  IN IF recent = {} THEN {Len(s)} ELSE recent
SwingHighs(s) == SwingLows(Mirror(s))
LowOf(s)  == s[Max(SwingLows(s))].low
HighOf(s) == s[Max(SwingHighs(s))].high

-----------------------------------------------------------------------------
(* _build_institutional_signal.                                             *)

SweepsLow(s) == Last(s).low < LowOf(s) /\ LowOf(s) < Last(s).close
BreaksUp(s)  == HighOf(s) < Last(s).close \/ HighOf(s) < s[Len(s) - 1].close

Bullish(s, h4, h1) ==
  \/ SweepsLow(s) /\ h4 # "bearish"
  \/ BreaksUp(s) /\ (h4 = "bullish" \/ (h1 = "bullish" /\ h4 = "neutral"))

SideOf(up, down, h4) ==
  CASE up -> "BUY"
    [] ~up /\ down -> "SELL"
    [] OTHER -> [bullish |-> "BUY", bearish |-> "SELL", neutral |-> "WAIT"][h4]
BuiltSide(s, w) ==
  SideOf(Bullish(s, w.h4, w.h1), Bullish(Mirror(s), Opposite[w.h4], Opposite[w.h1]), w.h4)

\* The latest upward gap over a candle that is mostly body.
Gaps(s) ==
  {k \in Max({3, Len(s) - GapBars + 1})..Len(s) :
     /\ s[k - 1].low < s[k - 1].high
     /\ 20 * Abs(s[k - 1].close - s[k - 1].open) >= 11 * (s[k - 1].high - s[k - 1].low)
     /\ s[k - 2].high < s[k].low}

\* Entry in the middle of the gap or at the last close, the target at 1.35 of the risk
\* or at the highest recent swing.
Entry(s) ==
  IF Gaps(s) = {} THEN Last(s).close
  ELSE (s[Max(Gaps(s)) - 2].high + s[Max(Gaps(s))].low) \div 2
LevelsTo(entry, stop, highs) ==
  [entry |-> entry, stop |-> stop, target |-> Max({entry + (27 * (entry - stop)) \div 20} \cup highs)]

\* Mutant: the stop only looks at the last swing.
BuyLevels_SwingStop(s) ==
  LevelsTo(Entry(s), LowOf(s) - (7 * Atr(s)) \div 20, {s[k].high : k \in SwingHighs(s)})

\* The stop lies under the last swing and the last candle.
BuyLevels(s) ==
  LevelsTo(Entry(s), Min({LowOf(s), Last(s).low}) - (7 * Atr(s)) \div 20,
         {s[k].high : k \in SwingHighs(s)})

Reflect(l) == [entry |-> -l.entry, stop |-> -l.stop, target |-> -l.target]
Risk(l)   == Abs(l.entry - l.stop)
Reward(l) == Abs(l.target - l.entry)

\* The sides a text reader finds in the signal's action, biases and reason: a swept low
\* is called "sell-side", a swept high "buy-side".
Named(side, s, w) ==
  (({side, [bullish |-> "BUY", bearish |-> "SELL", neutral |-> "WAIT"][w.h4],
     [bullish |-> "BUY", bearish |-> "SELL", neutral |-> "WAIT"][w.h1]}) \ {"WAIT"})
    \cup (IF SweepsLow(s) THEN {"SELL"} ELSE IF SweepsLow(Mirror(s)) THEN {"BUY"} ELSE {})

\* Trading is permitted at a rounded reward/risk of 1.3, whichever side the levels are
\* on; where nothing moved, the ratio is that of the least average range.
Permitted(l, s) ==
  IF Risk(l) = 0 THEN Atr(s) = 0 ELSE 1000 * Reward(l) >= 1295 * Risk(l)

PlanFor(side, s, w) ==
  LET toward == IF side = "SELL" THEN Mirror(s) ELSE s
      levels == IF side = "SELL" THEN Reflect(BuyLevels(toward)) ELSE BuyLevels(toward)
  IN [side |-> side,
      levels |-> IF side = "WAIT" THEN None ELSE levels,
      gap |-> side # "WAIT" /\ Gaps(toward) # {},
      permitted |-> side # "WAIT" /\ Permitted(levels, s),
      named |-> Named(side, s, w)]
Plan(s, w) ==
  IF Len(s) < MinBars
  THEN [side |-> "WAIT", levels |-> None, gap |-> FALSE, permitted |-> FALSE, named |-> {}]
  ELSE PlanFor(BuiltSide(s, w), s, w)

-----------------------------------------------------------------------------
(* The scorers.                                                             *)

Valid(side, l) ==
  /\ l # None
  /\ \/ side = "BUY" /\ l.stop < l.entry /\ l.entry < l.target
     \/ side = "SELL" /\ l.target < l.entry /\ l.entry < l.stop
Pays(l, tenths) == 10 * Reward(l) >= tenths * Risk(l)

\* Levels for a side without any: the first scorer's, and those of the patch.
BuyFallback(s, patch) ==
  LET n == Min({Lookback, Len(s)})
      low == Min({s[k].low : k \in (Len(s) - n + 1)..Len(s)})
      entry == Last(s).close
      range == IF Atr(s) = 0 THEN RiskFloor ELSE Atr(s)
      stop == CASE patch -> Min({low, entry - range}) - Max({(7 * range) \div 20, RiskFloor \div 4})
                [] ~patch /\ Atr(s) = 0 -> entry - RiskFloor
                [] OTHER -> Min({low, entry - Max({(27 * range) \div 20, RiskFloor})})
      risk == entry - stop
  IN [entry |-> entry, stop |-> stop,
      target |-> entry + (IF patch THEN (29 * risk) \div 20 ELSE (73 * risk) \div 50)]
LevelsFor(side, l, s, patch) ==
  CASE l # None \/ side = "WAIT" -> l
    [] l = None /\ side = "BUY" -> BuyFallback(s, patch)
    [] l = None /\ side = "SELL" -> Reflect(BuyFallback(Mirror(s), patch))

\* Points of direction, levels and reward/risk, and those of everything else.
Score(side, l, w) ==
  w.points + (IF side = "WAIT" THEN 0 ELSE 18)
    + (IF ~Valid(side, l) THEN 0
       ELSE 18 + (CASE Pays(l, 18) -> 16 [] Pays(l, 13) /\ ~Pays(l, 18) -> 12
                    [] Pays(l, 11) /\ ~Pays(l, 13) -> 9 [] OTHER -> 0))

\* Mutant: levels need not lie on their sides of the entry.
Allowed_AnyLevels(side, l, w) ==
  l # None /\ Pays(l, 11) /\ Score(side, l, w) >= 55

Allowed(side, l, w) == Valid(side, l) /\ Pays(l, 11) /\ Score(side, l, w) >= 55

\* The first scorer reads the action and then the candles and the order flow.
FirstSide(p, w) == IF p.side # "WAIT" THEN p.side ELSE w.trend

\* The patch scores what the first scorer left, and finds SELL before BUY in any text.
PatchSide(p, w) ==
  LET named == p.named \cup ({FirstSide(p, w)} \ {"WAIT"})
  IN CASE "SELL" \in named -> "SELL"
       [] "SELL" \notin named /\ "BUY" \in named -> "BUY"
       [] OTHER -> w.patchTrend

\* The market hardly moved: levels that are whole numbers cannot be told apart.
Still(s) == Atr(s) < 9

\* The first scorer grades A or B only what it allows, the patch by the score alone.
Verdict(p, side, l, s, w) ==
  [side |-> side, levels |-> l, built |-> p.side, permitted |-> p.permitted,
   allowed |-> Allowed(side, l, w),
   graded |-> IF patched THEN Score(side, l, w) >= 55 ELSE Allowed(side, l, w),
   gap |-> p.gap, mixed |-> Still(s) \/ side # FirstSide(p, w)]

\* A scored idea: the patch starts from the levels of the first scorer.
Judged(p, s, w) ==
  LET first == LevelsFor(FirstSide(p, w), p.levels, s, FALSE)
  IN IF patched
     THEN Verdict(p, PatchSide(p, w), LevelsFor(PatchSide(p, w), first, s, TRUE), s, w)
     ELSE Verdict(p, FirstSide(p, w), first, s, w)
Scored(s, w) == Judged(Plan(s, w), s, w)

-----------------------------------------------------------------------------
(* The lifecycle.                                                           *)

\* A news lock takes every permission away.
Tradable(i, w) ==
  /\ i.side # "WAIT" /\ i.levels # None
  /\ ~w.lock
  /\ i.allowed \/ i.permitted \/ i.graded

\* Mutant: the price is the last close.
PriceOf_Close(i, s) == Last(s).close

\* A built signal has no price of its own: its entry is taken for it, and the last close
\* only where it has no entry.
PriceOf(i, s) == IF i.levels = None THEN Last(s).close ELSE i.levels.entry

Hit(a, price) ==
  \/ a.side = "BUY" /\ (price >= a.levels.target \/ price <= a.levels.stop)
  \/ a.side = "SELL" /\ (price <= a.levels.target \/ price >= a.levels.stop)

Poll(w) ==
  /\ bars # <<>>
  /\ \E i \in {Scored(bars, w)} :
       LET kept == IF active = None \/ Hit(active, PriceOf(i, bars)) THEN None ELSE active
       IN /\ active' = IF kept = None /\ Tradable(i, w) THEN i ELSE kept
          /\ poll' = [world |-> w, idea |-> i]
  /\ UNCHANGED <<bars, patched>>

\* The builder raised or took too long: the idea is judged by its own entry.
PollWithout ==
  /\ active # None /\ Hit(active, active.levels.entry)
  /\ active' = None
  /\ UNCHANGED <<bars, patched, poll>>

Draw ==
  /\ Len(bars) < MaxBars
  /\ \E b \in Shapes : bars' = Append(bars, b)
  /\ poll' = None
  /\ UNCHANGED <<patched, active>>

\* The patch's thread has found the scorer's module.
Install ==
  /\ ~patched
  /\ patched' = TRUE
  /\ UNCHANGED <<bars, active, poll>>

Restart ==
  /\ patched
  /\ patched' = FALSE
  /\ UNCHANGED <<bars, active, poll>>

PipelineNext == (\E w \in Conditions : Poll(w)) \/ PollWithout \/ Draw \/ Install \/ Restart
PipelineSpec == PipelineInit /\ [][PipelineNext]_pipelineVars

-----------------------------------------------------------------------------
(* Properties.                                                              *)

Sound(i) == Valid(i.side, i.levels) /\ Pays(i.levels, 11)

\* Whatever the market drew: a locked idea whose sides agree has its stop and its target
\* on the right sides of its entry, at a reward worth the risk, if it was not entered in
\* a gap and the market had moved.
LockedSound == active # None /\ ~active.gap /\ ~active.mixed => Sound(active)

\* Whichever scorer answered, what it allows itself is sound, and on the builder's side
\* if the builder did not enter in a gap.
VerdictSound ==
  poll # None /\ poll.idea.allowed =>
    /\ Sound(poll.idea)
    /\ ~poll.idea.gap => poll.idea.built \in {poll.idea.side, "WAIT"}

\* Polling a market that did not move, under the same conditions, closes no sound idea.
CalmKept ==
  [][poll # None /\ poll' # None /\ poll.world = poll'.world /\ bars' = bars
       /\ active # None /\ Sound(active) => active' = active]_pipelineVars
=============================================================================
