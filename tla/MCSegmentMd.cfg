CONSTANTS
  Obj = {o1, o2, o3, o4}
  CacheSize = 9
  MdSize = 1
  ReqSize = {1, 2}
  NoReq = NoReq
  None = None
  Algos = {"SLRU"}
  NSeg = 3
  SegChoices = {}
  MaxFreq = 4
  Scale = 60
SPECIFICATION SpecNoRemoving
INVARIANTS
  VictimFound
SYMMETRY Symmetry
CHECK_DEADLOCK FALSE
