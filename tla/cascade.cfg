SPECIFICATION Spec
CONSTANTS
  exact = exact router = router hybrid = hybrid agentic = agentic
  Tiers = {exact, router, hybrid, agentic}
  Rank <- MCRank
  Threshold <- MCThreshold
  Relevances = {0, 1}
  Foreign = Foreign
  NoTier = NoTier
INVARIANTS NoCycle BestEffort InOrder
CHECK_DEADLOCK FALSE
