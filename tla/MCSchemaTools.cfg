CONSTANTS
  Rank <- MCRank
  FieldNames <- MCFieldNames
  Numbers = {0, 1}
  Patterns <- MCPatterns
  Malformed = {"("}
  Enums <- MCEnums
  Registered = {"semver"}
  Formats = {"semver", "odd", "uuid"}
  Metas <- MCMetas
  MaxCalls = 2
  Ordered <- MCOrdered
  StoreUnknown = TRUE
  StrictMode = FALSE
  Heaps <- MCHeaps
  Documents <- MCDocuments
  Edits <- MCEdits
  Unsafe <- MCUnsafe
SPECIFICATION Spec
INVARIANTS
  WalkStops
  RoundTrip
  ImportStable
  DemandsSurvive
PROPERTIES
  EqualExact
  DiffExact
CHECK_DEADLOCK FALSE
