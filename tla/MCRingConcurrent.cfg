CONSTANTS
  Addr <- Processes3
  MAX_CONNECTIONS = 5
  MAX_NODE_ID = 3
  TypedIds <- ClashingId
  Budget <- ConcurrentBudget
  Pace = "free"
  MAX_UNREAD = 4
SPECIFICATION FairSpec
INVARIANTS TypeOK RolesSound LinkRolesAgree SlotsSuffice
PROPERTIES JoinTerminates
CHECK_DEADLOCK FALSE
