SPECIFICATION ProxyFairSpec
CONSTANTS
  Ids = {1, 2}
  FirstId = 100
  MaxLines = 3
  MaxOwn = 2
INVARIANTS
  OpenOnlyInCall
  CallAnswersAreTheirs
  ProxyInv
PROPERTIES
  WaitsEnd
CHECK_DEADLOCK FALSE
