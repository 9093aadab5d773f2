SPECIFICATION Spec
CONSTANTS
  MaxFrames = 5
  MaxFiles = 3
  Chunks = 2
  RECV_BUF_CAPACITY = 3
  WritesCut = TRUE
  AllocFails = TRUE
CHECK_DEADLOCK FALSE
INVARIANTS TypeOK AcceptedInOrder CompleteIsWhole DrainedBeforeWait
