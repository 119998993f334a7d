SPECIFICATION ProxySpec
CONSTANTS
  Ids = {1, 2}
  FirstId = 100
  MaxLines = 1
  MaxOwn = 0
INVARIANTS
  FailedCallsAreReleased
CHECK_DEADLOCK FALSE
