SPECIFICATION FairSpec
CONSTANTS
  Clients = {"c"}
  MaxNest = 1
  MaxChanges = 1
  MaxCalls = 1
  MaxFails = 1
INVARIANTS
  InOrder
  CascadeAgrees
PROPERTIES
  Converges
