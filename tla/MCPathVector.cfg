CONSTANTS
  NodeID <- ThreeNodes
  MAX_RECIPIENTS = 2
  MAX_NEIGHBORS = 2
  Links <- FourLinks
  Ends <- FourEnds
  Budgets <- CalmAndRaces
SPECIFICATION FairSpec
INVARIANTS Converged Forwardable ChatDelivered
PROPERTIES EventuallyQuiet
CHECK_DEADLOCK FALSE
