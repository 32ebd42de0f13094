CONSTANTS
  b1 = b1
  b2 = b2
  b3 = b3
  b4 = b4
  b5 = b5
  Block = {b1, b2, b3, b4, b5}
  CacheSize = 4
  LirsLimit = 3
  HirsLimit = 1
  LIRSMaxLen = 2
  Algos = {"LIRS"}
  MaxLen = 1
  Requests <- MCRequests
  RetryMargin = 1
  PNBlocks = {b1, b2, b3, b4, b5}
  PNSize = 3
  PNParams <- MCParams
  Threshold = 2
  Paths <- MCPaths
  Library <- MCLibrary
SPECIFICATION CachesimSpec
INVARIANTS
  LIRSCounts
CHECK_DEADLOCK FALSE
