SPECIFICATION Spec
CONSTANTS
  i1 = i1
  i2 = i2
  r1 = r1
  alice = alice
  bob = bob
  Initiators = {i1, i2}
  Responders = {r1}
  IdentityOf <- Users
  NonceMax = 3
  MaxSealed = 6
  Alterations = TRUE
  CallsFail = TRUE
  Zero = Zero
  Other = Other
CHECK_DEADLOCK FALSE
INVARIANTS NonceOnce SplitIsAuthentic SessionsPairUp
