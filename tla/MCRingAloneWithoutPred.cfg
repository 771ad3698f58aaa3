CONSTANTS
  Addr <- Processes3
  MAX_CONNECTIONS = 5
  MAX_NODE_ID = 3
  TypedIds <- OwnId
  Budget <- ConcurrentBudget
  Pace = "free"
  MAX_UNREAD = 4
SPECIFICATION Spec
INVARIANTS AloneWithoutPred
CHECK_DEADLOCK FALSE
