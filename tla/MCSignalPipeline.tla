--------------------------- MODULE MCSignalPipeline ---------------------------
(* Values of the constants of SignalPipeline for TLC.                        *)
EXTENDS SignalPipeline

\* One tick of the market; levels stay whole numbers.
Tick == 4000
Bar(o, h, l, c) == [open |-> o * Tick, high |-> h * Tick, low |-> l * Tick, close |-> c * Tick]

\* Still, wide with a close above or below, rising with a body, and rising further.
FiveBars == {Bar(2, 2, 2, 2), Bar(2, 3, 1, 3), Bar(3, 4, 1, 1), Bar(2, 4, 2, 4), Bar(4, 6, 4, 6)}

World(h4, h1, trend, patchTrend, points, lock) ==
  [h4 |-> h4, h1 |-> h1, trend |-> trend, patchTrend |-> patchTrend,
   points |-> points, lock |-> lock]

\* Biases that agree, disagree or are missing, with points enough for any score or few,
\* a news lock, and candle trends that disagree.
SomeWorlds ==
  {World("bullish", "bearish", "WAIT", "WAIT", 40, FALSE),
   World("neutral", "bullish", "WAIT", "SELL", 40, FALSE),
   World("bearish", "neutral", "WAIT", "WAIT", 5, FALSE),
   World("bearish", "bearish", "WAIT", "WAIT", 40, TRUE),
   World("neutral", "neutral", "BUY", "SELL", 20, FALSE)}
=============================================================================
