CONSTANTS
  Obj = {o1, o2, o3, o4}
  CacheSize = 5
  MdSize = 0
  ReqSize = {1, 2}
  NoReq = NoReq
  None = None
  Algos = {"SLRU", "LFU", "ARC", "CAR"}
  NSeg = 3
  SegChoices <- MCSegChoices
  MaxFreq = 4
  Scale = 60
SPECIFICATION SpecNoRemoving
INVARIANTS
  ListsPartition
  UpperSegmentsBounded
  HitSurvives
PROPERTIES
  BaseSpec
  EvictsLeastFrequent
  ToEvictPredicts
  CascadeSinks
SYMMETRY Symmetry
