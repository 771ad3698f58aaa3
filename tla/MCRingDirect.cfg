CONSTANTS
  Addr <- Processes3
  MAX_CONNECTIONS = 5
  MAX_NODE_ID = 3
  TypedIds <- FreshId
  Budget <- DirectBudget
  Pace = "free"
  MAX_UNREAD = 4
SPECIFICATION FairSpec
PROPERTIES JoinTerminates
CHECK_DEADLOCK FALSE
