CONSTANTS
  o1 = o1
  o2 = o2
  o3 = o3
  o4 = o4
  o5 = o5
  Obj = {o1, o2, o3, o4, o5}
  Null = Null
  Hash <- MCHash
  InitPower = 1
  Threshold = 1
  MaxTries = 2
  Entries = {1, 2, 3, 4, 5, 6}
  Priorities = {1, 2}
  MaxIds = 5
  MaxReq = 8
  MaxSize = 4
  Kinds = {"LRU_HIT_CNT", "STACK_DIST", "FUTURE_STACK_DIST", "DIST_SINCE_LAST_ACCESS", "DIST_SINCE_FIRST_ACCESS"}
  SmallSize = 4
  LargeSize = 6
  MdSize = 1
  ReqSize = {1, 2, 3}
  NoReq = NoReq
  NCaches = 3
  NThreads = 2
  Times <- MCTimes
  WarmupLen = 1
  WarmupReq = 1
  WarmupSec = 2
  Misses <- MCMisses
  Composite = {3}
  Exercised = {"list", "table", "heap", "profiler", "stack", "simulator"}
SPECIFICATION StructSpec
INVARIANTS
  ListExact
  TableExact
  HeapValid
  DistancesExact
  Inclusion
  ResultsSequential
  ProgressExact
  TasksTouchLiveMemory
PROPERTIES
  RandTerminates
  Returns
