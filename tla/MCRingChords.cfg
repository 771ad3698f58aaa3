CONSTANTS
  Addr <- Processes4
  MAX_CONNECTIONS = 6
  MAX_NODE_ID = 4
  TypedIds <- OwnId
  Budget <- ChordBudget
  Pace = "chords"
  MAX_UNREAD = 4
SPECIFICATION Spec
INVARIANTS NeighborsKnown NoDegenerateChord RolesSound LinkRolesAgree
CHECK_DEADLOCK FALSE
