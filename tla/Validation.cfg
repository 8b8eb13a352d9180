SPECIFICATION FairValidation
CONSTANTS
  v1 = v1
  v2 = v2
  Validators <- TwoValidators
  Worlds <- ThreeWorlds
  Batch = 2
  Bars <- ThreeBars
  MaxTime = 3
  MaxLoad = 2
  Faults <- AllFaults
INVARIANTS
  UniqueResults
  ResultsObjective
PROPERTIES
  FinalForEver
  NewestDecided
