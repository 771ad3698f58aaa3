CONSTANTS
  NodeID <- MCNodeID
  Routes <- MCRoutes
  self_id = 0
  MAX_RECIPIENTS = 2
  MAX_NEIGHBORS = 2
SPECIFICATION Spec
INVARIANTS TypeOK NoDuplicateIndex ForwardsAlongShortest NoPathThroughSelf AnnouncementsUpToDate
PROPERTY RefinesBase
CHECK_DEADLOCK FALSE
