SPECIFICATION ArenaSpec
CONSTANTS
  SIZE_MAX = 255
  PAGE = 32
  NOX_CANARY_LEN = 16
  MAX_WIPE = 96
  InitSizes <- AllSizes
  AllocSizes <- SomeSizes
  MaxBlocks = 3
CHECK_DEADLOCK FALSE
INVARIANTS RoomAsAsked BlocksApart NoKeyBytesLeft
