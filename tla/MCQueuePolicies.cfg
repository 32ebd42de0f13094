CONSTANTS
  Obj = {o1, o2, o3, o4}
  CacheSize = 3
  MdSize = 1
  ReqSize = {0, 1, 3}
  NoReq = NoReq
  None = None
  Algos = {"FIFO", "LRU", "Clock", "Sieve", "Size", "Belady"}
  MaxFreq = 2
  InitFreq = 0
  NextAccess = {1, 2, 3}
SPECIFICATION Spec
INVARIANTS
  Accounting
  EvictHasVictim
  QueueIsTable
  BaseInv
PROPERTIES
  BaseSpec
  PinsRespected
  OrderKept
  ToEvictPredicts
  CallsTerminate
