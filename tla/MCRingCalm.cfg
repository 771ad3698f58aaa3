CONSTANTS
  Addr <- Processes3
  MAX_CONNECTIONS = 5
  MAX_NODE_ID = 3
  TypedIds <- OwnId
  Budget <- CalmBudget
  Pace = "calm"
  MAX_UNREAD = 4
SPECIFICATION NotAllStop
INVARIANTS RingClosed NoFault RegistrySound NewNodeIntroduced NoTimerLeft
PROPERTIES EventuallySettles
CHECK_DEADLOCK FALSE
