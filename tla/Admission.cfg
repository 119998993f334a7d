SPECIFICATION AdmissionSpec
CONSTANTS
  None = None
  Names <- MCNames
  Letters = {".", "/", "a"}
  Declarations <- MCDeclarations
  Calls <- MCCalls
  Listed <- MCListed
  Opened <- MCOpened
INVARIANTS
  CallsEndInAVerdict
  PathStaysInside
  WireReadsBack
  AllowlistedMeansBeneath
  MoneyIsExact
  ReservationFits
  NoEntityTwice
CHECK_DEADLOCK FALSE
