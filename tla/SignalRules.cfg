SPECIFICATION RulesSpec
CONSTANTS
  Symbols = {"s1", "s2"}
  Evidence <- SomeEvidence
  Reviews <- SomeReviews
  Scores = {50, 90}
  Strategies <- SomeStrategies
  MaxRebuilds = 4
INVARIANTS
  ApprovedIsWorthTrading
  LevelsOfItsSide
  PlainApprovalComplete
