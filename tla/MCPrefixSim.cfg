CONSTANTS
  b1 = b1
  b2 = b2
  b3 = b3
  b4 = b4
  b5 = b5
  Block = {b1, b2, b3, b4, b5}
  CacheSize = 3
  LirsLimit = 3
  HirsLimit = 1
  LIRSMaxLen = 2
  Algos = {"any", "LIRS", "PartialNode"}
  MaxLen = 3
  Requests <- MCRequests
  RetryMargin = 1
  PNBlocks = {b1, b2, b3, b4, b5}
  PNSize = 3
  PNParams <- MCParams
  Threshold = 2
  Paths <- MCPaths
  Library <- MCLibrary
SPECIFICATION ServingSpec
INVARIANTS
  NoUnexpectedEvictions
  EvictsExactlyEnough
  SelfCountExact
  PinsHold
  LIRSConsistent
  TreeTracksCache
PROPERTIES
  ServedIsResident
  AnyTerminates
  LIRSProgress
CHECK_DEADLOCK FALSE
