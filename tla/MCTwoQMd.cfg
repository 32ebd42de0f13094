CONSTANTS
  o1 = o1
  o2 = o2
  o3 = o3
  Obj = {o1, o2, o3}
  ReqSize = {1, 2}
  NoReq = NoReq
  PinSets <- MCPinSets
  NoObj = NoObj
  Algos = {"TwoQ"}
  SmallSize = 2
  MainSize = 2
  GhostSize = 2
  Threshold = 1
  FreqCap = 3
  AmMd = 1
  CorrWindow = 1
  Sizes <- MCSizes
  LogSize = 1
  MinSize = 1
  AdaptAfter = 1
SPECIFICATION Spec
INVARIANTS
  FitsCache
