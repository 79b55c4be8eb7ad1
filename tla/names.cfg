SPECIFICATION Spec
CONSTANTS
  Capital <- MCCapital
  Upper <- MCUpper
  Lower <- MCLower
  Keywords <- MCKeywords
  NotRaw <- MCNotRaw
  Contracts <- FieldContracts
INVARIANT NamesNeverPanic
CHECK_DEADLOCK FALSE
