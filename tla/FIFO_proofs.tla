----------------------------- MODULE FIFO_proofs ------------------------------
(***************************************************************************)
(* FIFO is a cache in the sense of CacheBase and its queue is its hash     *)
(* table, for every set of objects, sizes and pins.                        *)
(***************************************************************************)
EXTENDS FIFO, CacheBase_proofs, ObjList_proofs

\* The inductive invariant: the bookkeeping of cache.c, and a queue that holds
\* each resident once.
FIFOInv == BaseInv /\ Lists(q, resident) /\ Len(q) = nObj

\* The constructor establishes it.
LEMMA FIFOInvInit == FIFO_init => FIFOInv
<1> SUFFICES ASSUME FIFO_init PROVE FIFOInv
  OBVIOUS
<1>1. BaseInv
  BY BaseInvInit DEF FIFO_init
<1>2. q = <<>> /\ resident = {} /\ nObj = 0
  BY DEF FIFO_init, cache_struct_init
<1> QED
  BY <1>1, <1>2, EmptyLists DEF FIFOInv

\* A victim is resident.
LEMMA FIFOVictim ==
  ASSUME FIFOInv, q # <<>>
  PROVE  FIFO_to_evict \in resident
<1>1. resident # {}
  BY DEF FIFOInv, Lists, ObjsOf
<1> QED
  BY <1>1, SkipPinnedIsListed DEF FIFOInv, FIFO_to_evict

\* Every step is a step of the abstract cache.
LEMMA FIFOStepIsBase ==
  ASSUME FIFOInv, [Next]_vars
  PROVE  [BaseNext]_baseVars
<1>1. CASE UNCHANGED vars
  BY <1>1 DEF vars
<1>2. ASSUME NEW r \in Request, FIFO_get(r) PROVE BaseNext
  BY <1>2 DEF FIFO_get, FIFO_find, BaseNext
<1>3. CASE FIFO_evict
  BY <1>3, FIFOVictim DEF FIFO_evict, BaseNext
<1>4. CASE FIFO_insert
  BY <1>4 DEF FIFO_insert, BaseNext
<1>5. ASSUME NEW o \in resident, FIFO_remove(o) PROVE BaseNext
  BY <1>5 DEF FIFO_remove, BaseNext
<1>6. ASSUME NEW P \in SUBSET Obj, SetPins(P) PROVE UNCHANGED baseVars
  BY <1>6 DEF SetPins
<1>7. CASE Dump
  BY <1>7 DEF Dump, BaseNext
<1> QED
  BY <1>1, <1>2, <1>3, <1>4, <1>5, <1>6, <1>7 DEF Next

\* Every step keeps the queue and the table together.
LEMMA FIFOInvNext == FIFOInv /\ [Next]_vars => FIFOInv'
<1> SUFFICES ASSUME FIFOInv, [Next]_vars PROVE FIFOInv'
  OBVIOUS
<1>1. BaseInv'
  BY FIFOStepIsBase, BaseInvNext DEF FIFOInv
<1> SUFFICES Lists(q', resident') /\ Len(q') = nObj'
  BY <1>1 DEF FIFOInv
<1>2. CASE UNCHANGED <<q, resident, nObj>>
  BY <1>2 DEF FIFOInv
<1>3. ASSUME NEW r \in Request, FIFO_get(r) PROVE UNCHANGED <<q, resident, nObj>>
  BY <1>3 DEF FIFO_get, FIFO_find, GetHit, GetNoHit, GetRefused, GetMiss, baseVars
<1>4. CASE FIFO_evict
  <2>1. /\ FIFO_to_evict \in resident
        /\ q' = remove_obj_from_list(q, FIFO_to_evict)
    BY <1>4, FIFOVictim DEF FIFO_evict
  <2>2. resident' = resident \ {FIFO_to_evict} /\ nObj' = nObj - 1
    BY <1>4 DEF FIFO_evict, GetEvict, DumpEvict, cache_evict_base, cache_remove_obj_base
  <2> QED
    BY <2>1, <2>2, RemoveLists DEF FIFOInv
<1>5. CASE FIFO_insert
  <2>1. req.obj \notin resident
    BY <1>5 DEF FIFO_insert, GetInsert, FIFOInv, BaseInv
  <2>2. /\ q' = prepend_obj_to_head(q, req.obj)
        /\ resident' = resident \cup {req.obj} /\ nObj' = nObj + 1
    BY <1>5 DEF FIFO_insert, GetInsert, cache_insert_base
  <2> QED
    BY <2>1, <2>2, PrependLists DEF FIFOInv
<1>6. ASSUME NEW o \in resident, FIFO_remove(o)
      PROVE  Lists(q', resident') /\ Len(q') = nObj'
  <2>1. /\ q' = remove_obj_from_list(q, o)
        /\ resident' = resident \ {o} /\ nObj' = nObj - 1
    BY <1>6 DEF FIFO_remove, Remove, cache_remove_obj_base
  <2> QED
    BY <2>1, RemoveLists DEF FIFOInv
<1>7. ASSUME NEW P \in SUBSET Obj, SetPins(P) PROVE UNCHANGED <<q, resident, nObj>>
  BY <1>7 DEF SetPins, baseVars
<1>8. CASE Dump
  BY <1>2, <1>8 DEF Dump, DumpStart, DumpEnd
<1>9. CASE UNCHANGED vars
  BY <1>2, <1>9 DEF vars, baseVars
<1> QED
  BY <1>2, <1>3, <1>4, <1>5, <1>6, <1>7, <1>8, <1>9 DEF Next

\* FIFO implements the abstract cache: whatever is pinned, its queue changes
\* nothing that cache.c accounts for, and every victim is resident.
THEOREM FIFOImplementsBase == Spec => BaseSpec
<1>1. FIFO_init => cache_struct_init
  BY DEF FIFO_init
<1>2. FIFOInv /\ [Next]_vars => [BaseNext]_baseVars
  BY FIFOStepIsBase
<1> QED
  BY <1>1, <1>2, FIFOInvInit, FIFOInvNext, PTL DEF Spec, BaseSpec

\* FIFO.c's queue threads through exactly the objects of the hash table.
THEOREM FIFOQueueIsTable == Spec => []QueueIsTable
<1>1. FIFOInv => QueueIsTable
  BY DEF FIFOInv, BaseInv, Accounting, Lists, QueueIsTable
<1> QED
  BY <1>1, FIFOInvInit, FIFOInvNext, PTL DEF Spec
==============================================================================
