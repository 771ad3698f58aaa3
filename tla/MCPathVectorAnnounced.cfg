CONSTANTS
  NodeID <- ThreeNodes
  MAX_RECIPIENTS = 2
  MAX_NEIGHBORS = 2
  Links <- ThreeLinks
  Ends <- ThreeEnds
  Budgets <- FailingWrite
SPECIFICATION Spec
INVARIANTS AnnouncedIsShortest
CHECK_DEADLOCK FALSE
