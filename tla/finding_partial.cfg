SPECIFICATION Spec
CONSTANTS
  n1 = n1
  n2 = n2
  Nodes <- MCNodes
  Whole = Whole
  MaxChanges = 1
  TextScores <- MCTextScores
  CandidateLimit = 2
  ResultLimit = 1
  MaxK = 1
  MaxListing = 1
  MaxNeighbors = 1
  MaxIterations = 2
  MaxCalls = 2
  Foreign = Foreign
  NoTier = NoTier
  MaxToolCalls = 2
  ClusterLimit = 1
  MaxQueries = 1
  NoNode = NoNode
CHECK_DEADLOCK FALSE
INVARIANT PartialCitationsSurface
