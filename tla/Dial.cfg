SPECIFICATION Spec
CONSTANTS
  NOX_MAX_PEERS = 2
  NOX_READ_TIMEOUT_MS = 2
  Window = 2
  Limit = 2
  V4Len = 1
  V6Len = 2
  PortLen = 1
INVARIANTS
  FdsAccounted
  HandedOverClean
  RateBounded
  DialBounded
