SPECIFICATION DiffSpec
CONSTANTS
  Start <- MCStart
  Sizes = {3, 4, 6, 13}
  Hosts = {1, 2, 3, 4}
  Labels = {1, 2, 3, 4}
  Seals <- MCSeals
  MaxCounter = 60
  MaxPerDimension = 8
INVARIANTS
  TighteningPasses
PROPERTIES
  TwoAmountsAreSeen
  OnlyLateHostsOpenUnsaid
CHECK_DEADLOCK FALSE
