SPECIFICATION DiffSpec
CONSTANTS
  Start <- Shipped
  Sizes <- ByOne
  Hosts = {1, 2}
  Labels = {1, 2}
  Seals = {}
  MaxCounter = 100000000
  MaxPerDimension = 8
INVARIANTS
  ProbesAreAllBoundaries
CHECK_DEADLOCK FALSE
