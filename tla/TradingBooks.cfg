SPECIFICATION Spec
CONSTANTS
  StrategyIds = {"a", "b"}
  Batches <- SomeBatches
  Raising = {3}
  Approves <- SomeApprovals
  Tradable <- SomeTradable
  SignalId <- SomeIds
  Outcomes = {0, 2}
  HistoryMax = 2
  MaxOps = 4
  MaxChanges = 1
  MaxCrashes = 1
CHECK_DEADLOCK FALSE
INVARIANTS
  FreshIsExact
  AccountAdds
  PortfolioOfOneAccount
PROPERTIES
  HistoryKept
