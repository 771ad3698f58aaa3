CONSTANTS
  Client <- TwoClients
  MAX_NODE_ID = 2
  TypedIds <- OwnId
  MAX_COMMANDS = 4
  MAX_LOST = 1
SPECIFICATION Spec
INVARIANTS ListAwaited
CHECK_DEADLOCK FALSE
