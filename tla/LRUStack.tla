------------------------------ MODULE LRUStack -------------------------------
(***************************************************************************)
(* simulate_at_multi_sizes on LRU: two caches that differ only in size are *)
(* fed the same trace, each in a thread of its own.  The threads are       *)
(* aligned on the requests and interleave inside them; nothing is shared.  *)
(***************************************************************************)
EXTENDS ObjList

CONSTANTS Obj, SmallSize, LargeSize, MdSize, ReqSize, NoReq

VARIABLES
  size,   \* the size of each object, the same at all its requests
  sResident, sObjSize, sOccupied, sNObj, sPc, sReq, sToDump, sq, sPinned,
  lResident, lObjSize, lOccupied, lNObj, lPc, lReq, lToDump, lq, lPinned

Small == INSTANCE LRU WITH
  CacheSize <- SmallSize, resident <- sResident, objSize <- sObjSize,
  occupied <- sOccupied, nObj <- sNObj, pc <- sPc, req <- sReq,
  toDump <- sToDump, q <- sq, pinned <- sPinned

Large == INSTANCE LRU WITH
  CacheSize <- LargeSize, resident <- lResident, objSize <- lObjSize,
  occupied <- lOccupied, nObj <- lNObj, pc <- lPc, req <- lReq,
  toDump <- lToDump, q <- lq, pinned <- lPinned

smallVars ==
  <<sResident, sObjSize, sOccupied, sNObj, sPc, sReq, sToDump, sq, sPinned>>

largeVars ==
  <<lResident, lObjSize, lOccupied, lNObj, lPc, lReq, lToDump, lq, lPinned>>

stackVars == <<size, smallVars, largeVars>>

Init == size \in [Obj -> ReqSize] /\ Small!LRU_init /\ Large!LRU_init

\* Both threads are at the same request of their copy of the trace.  No
\* admissioner is configured.
NextRequest(o) ==
  LET r == [obj |-> o, size |-> size[o]] IN
  /\ \/ Small!LRU_find(r)
     \/ /\ Small!GetMiss(r, Small!cache_can_insert_default(r, TRUE))
        /\ UNCHANGED <<sq, sPinned>>
  /\ \/ Large!LRU_find(r)
     \/ /\ Large!GetMiss(r, Large!cache_can_insert_default(r, TRUE))
        /\ UNCHANGED <<lq, lPinned>>
  /\ UNCHANGED size

SmallStep == (Small!LRU_evict \/ Small!LRU_insert) /\ UNCHANGED <<size, largeVars>>

LargeStep == (Large!LRU_evict \/ Large!LRU_insert) /\ UNCHANGED <<size, smallVars>>

Next == (\E o \in Obj : NextRequest(o)) \/ SmallStep \/ LargeStep

-----------------------------------------------------------------------------
\* Properties.

\* The inclusion property the one-pass miss ratio profilers rely on: between
\* two requests the smaller LRU's queue is the head of the larger one's, so
\* what the smaller cache holds the larger one holds too, although each evicts
\* on its own and objects have different sizes.
Inclusion ==
  sPc = "idle" /\ lPc = "idle" => sq = SubSeq(lq, 1, Len(sq))
==============================================================================
