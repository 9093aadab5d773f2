SPECIFICATION FairSpec
CONSTANTS
  MaxMsgs = 3
  Parts = 2
  QUEUE_BATCH_LIMIT = 2
  MaxErrors = 3
  MaxCrashes = 2
  BadRows <- OneBad
  Malformed <- OneMalformed
CHECK_DEADLOCK FALSE
INVARIANTS SentOnce WholeOrNothing
PROPERTIES KeepsPromise AllSent
