SPECIFICATION Spec
CONSTANTS
  Capital <- MCCapital
  Upper <- MCUpper
  Lower <- MCLower
  Keywords <- MCKeywords
  NotRaw <- MCNotRaw
  Contracts <- AllContracts
INVARIANTS AcceptedNamesResolve KeywordsAreEscaped
CHECK_DEADLOCK FALSE
