SPECIFICATION PositionSpec
CONSTANTS
  Signals <- ManySignals
  Candles <- AllCandles
  MaxCandles = 3
INVARIANTS
  LossBounded
  MatchesReference
CHECK_DEADLOCK FALSE
