SPECIFICATION FairSpec
CONSTANTS
  NOX_MAX_PEERS = 2
  Onions = {o1, o2}
  Keys = {k1}
  MaxEpoch = 1
  TypeAhead = FALSE
  MaxTyped = 1
  DbFails = FALSE
  NoOnion = NoOnion
  NoKey = NoKey
  ZeroKey = ZeroKey
  NoContact = NoContact
CHECK_DEADLOCK FALSE
INVARIANT DialledIsReached
PROPERTY SlotsComeBack
