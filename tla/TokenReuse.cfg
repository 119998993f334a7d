SPECIFICATION Spec
CONSTANTS
  t1 = t1
  t2 = t2
  Threads = {t1, t2}
  Settlers = {}
  Free = Free
  None = None
  Nobody = Nobody
  Acts = {"small"}
  Malformed = {}
  Tool <- MCTool
  Euros <- MCEuros
  Listed <- MCListed
  PinnedActs <- BankPinned
  Counters = {"refunded_minor"}
  Labels = {"private_data", "untrusted_input"}
  Principals = {"support-bot"}
  Facts = {"active"}
  Amount <- MCAmount
  Cost <- BankCost
  ResultLabels <- BankLabels
  Cap <- BankCap
  Permits <- BankPermits
  Forbids <- BankForbids
  Errs <- BankErrs
  AutoMax = 2
  AutoCap = 4
  ApprovedCap = 5
  MaxCounter = 8
  Asked <- MCAsked
  CandidatePermits <- TightenedPermits
  Ttl = 1
  MaxTime = 0
  MaxCalls = 3
  MaxFaults = 0
PROPERTIES
  OneRunPerToken
SYMMETRY ThreadSymmetry
CHECK_DEADLOCK FALSE
