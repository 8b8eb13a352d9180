SPECIFICATION FairSpec
CONSTANTS
  good = good
  flat = flat
  odd = odd
  Signals <- GoodOdd
  Tradable <- OnlyGood
  Malformed <- OnlyOdd
  MinVolume <- VolumesGoodOdd
  Modes <- DryRun
  Ops <- AllOps
  Faults <- AllFaults
  MaxResults = 1
INVARIANTS
  UniqueOrders
  KillSwitchHonoured
PROPERTIES
  PlacingIsSafe
  RequestsReturn
