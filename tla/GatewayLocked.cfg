SPECIFICATION Spec
CONSTANTS
  good = good
  flat = flat
  odd = odd
  Signals <- GoodFlat
  Tradable <- GoodFlat
  Malformed <- NoSignals
  MinVolume <- VolumesGoodFlat
  Modes <- AllModes
  Ops <- LockedOps
  Faults <- AllFaults
  MaxResults = 3
INVARIANTS
  ResultsMatchOrders
PROPERTIES
  SettledForEver
  ImplementsOrderBook
