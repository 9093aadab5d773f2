SPECIFICATION Spec
CONSTANTS
  MaxFrames = 5
  MaxFiles = 1
  Chunks = 1
  RECV_BUF_CAPACITY = 3
  WritesCut = FALSE
  AllocFails = FALSE
CHECK_DEADLOCK FALSE
INVARIANT MismatchMeansLoss
