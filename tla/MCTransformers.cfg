CONSTANTS
  Chars <- MCChars
  Write <- MCWrite
  Readings <- MCReadings
  Moments <- MCMoments
  Ops <- MCOps
  Changes <- MCChanges
  Locations <- MCLocations
  Common <- MCCommon
  Cases <- MCCases
SPECIFICATION Spec
INVARIANTS
  ReapplySafe
  PhoneShape
  DayKept
CHECK_DEADLOCK FALSE
