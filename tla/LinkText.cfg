SPECIFICATION FairSpec
CONSTANTS
  MaxFrames = 4
  MaxFiles = 0
  Chunks = 1
  RECV_BUF_CAPACITY = 3
  WritesCut = TRUE
  AllocFails = FALSE
CHECK_DEADLOCK FALSE
PROPERTY TextsArrive
