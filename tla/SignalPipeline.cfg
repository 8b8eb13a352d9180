SPECIFICATION PipelineSpec
CONSTANTS
  Shapes <- FiveBars
  MaxBars = 4
  MinBars = 3
  Period = 2
  Span = 1
  Recent = 2
  GapBars = 3
  Lookback = 3
  RiskFloor = 800
  Conditions <- SomeWorlds
  None = None
INVARIANTS
  LockedSound
  VerdictSound
PROPERTIES
  CalmKept
