SPECIFICATION ResubmitSpec
CONSTANTS
  Nobody = Nobody
  Acts = {"small", "large", "mail", "fetch", "lookup", "garbled"}
  Malformed = {"garbled"}
  Tool <- MCTool
  Euros <- MCEuros
  Listed <- MCListed
  Counters = {"refunded_minor"}
  Labels = {"private_data", "untrusted_input"}
  Principals = {"support-bot"}
  Facts = {"active", "frozen", "unloaded"}
  Amount <- MCAmount
  Cost <- BankCost
  Cap <- BankCap
  Permits <- BankPermits
  Forbids <- BankForbids
  Errs <- BankErrs
  AutoMax = 2
  AutoCap = 4
  ApprovedCap = 5
  MaxCounter = 8
  MaxUsed = 9
INVARIANTS
  GuardrailsHold
PROPERTIES
  ApprovalIsAllThatWasMissing
  ApprovalsAreBound
