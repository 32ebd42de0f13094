CONSTANTS
  o1 = o1
  o2 = o2
  o3 = o3
  Obj = {o1, o2, o3}
  ReqSize = {1, 2, 3}
  NoReq = NoReq
  PinSets <- MCPinSets
  NoObj = NoObj
  Algos = {"S3FIFO", "QDLP", "Clock2QPlus", "S3FIFOd", "TwoQ", "WTinyLFU"}
  SmallSize = 3
  MainSize = 2
  GhostSize = 2
  Threshold = 1
  FreqCap = 3
  CorrWindow = 1
  AmMd = 0
  Sizes <- MCSizes
  LogSize = 2
  MinSize = 1
  AdaptAfter = 1
SPECIFICATION Spec
INVARIANTS
  QueuesDisjoint
  OwnSizes
PROPERTIES
  RefinesBase
  LogsTheVictim
  CallsTerminate
CHECK_DEADLOCK FALSE
