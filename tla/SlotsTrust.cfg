SPECIFICATION Spec
CONSTANTS
  NOX_MAX_PEERS = 2
  Onions = {o1}
  Keys = {k1, k2}
  MaxEpoch = 2
  TypeAhead = TRUE
  MaxTyped = 2
  DbFails = TRUE
  NoOnion = NoOnion
  NoKey = NoKey
  ZeroKey = ZeroKey
  NoContact = NoContact
CHECK_DEADLOCK FALSE
SYMMETRY Symmetry
VIEW View
INVARIANTS
  SlotsInOrder
  OnlyApproved
  QueueOnlyToVerified
PROPERTIES
  YesIsForSeen
