CONSTANTS
  NS_PER_US = 2
  US_PER_MS = 2
  MS_PER_SEC = 2
  Connections <- OneConnection
  BUF_SIZE = 3
  DELAY_MS = 2
  Scenarios <- Exchanges
  MAX_CLOCK = 28
SPECIFICATION Spec
INVARIANTS EveryLineHandled
CHECK_DEADLOCK FALSE
