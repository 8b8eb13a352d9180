SPECIFICATION Spec
CONSTANTS
  r1 = r1
  r2 = r2
  eur = eur
  Wait = Wait
  NoFile = NoFile
  Torn = Torn
  Requests <- TwoRequests
  Symbols <- OneSymbol
  Setups <- BothSides
  Prices <- AllPrices
  ArchiveCap = 2
  MaxCalls = 4
  Faults <- CrashFault
SYMMETRY Symmetry
INVARIANTS
  NothingLost
  ArchivedOnce
  OneMeaning
PROPERTIES
  LockedUntilHit
CHECK_DEADLOCK FALSE
