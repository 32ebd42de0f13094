----------------------------- MODULE LRU_proofs -------------------------------
(***************************************************************************)
(* LRU is a cache in the sense of CacheBase and its queue is its hash      *)
(* table, for every set of objects, sizes and pins.                        *)
(***************************************************************************)
EXTENDS LRU, CacheBase_proofs, ObjList_proofs

\* The inductive invariant: the bookkeeping of cache.c, and a queue that holds
\* each resident once.
LRUInv == BaseInv /\ Lists(q, resident) /\ Len(q) = nObj

\* The constructor establishes it.
LEMMA LRUInvInit == LRU_init => LRUInv
<1> SUFFICES ASSUME LRU_init PROVE LRUInv
  OBVIOUS
<1>1. BaseInv
  BY BaseInvInit DEF LRU_init
<1>2. q = <<>> /\ resident = {} /\ nObj = 0
  BY DEF LRU_init, cache_struct_init
<1> QED
  BY <1>1, <1>2, EmptyLists DEF LRUInv

\* A victim is resident.
LEMMA LRUVictim ==
  ASSUME LRUInv, q # <<>>
  PROVE  LRU_to_evict \in resident
<1>1. resident # {}
  BY DEF LRUInv, Lists, ObjsOf
<1> QED
  BY <1>1, SkipPinnedIsListed DEF LRUInv, LRU_to_evict

\* Every step is a step of the abstract cache.
LEMMA LRUStepIsBase ==
  ASSUME LRUInv, [Next]_vars
  PROVE  [BaseNext]_baseVars
<1>1. CASE UNCHANGED vars
  BY <1>1 DEF vars
<1>2. ASSUME NEW r \in Request, LRU_get(r) PROVE BaseNext
  BY <1>2 DEF LRU_get, LRU_find, BaseNext
<1>3. CASE LRU_evict
  BY <1>3, LRUVictim DEF LRU_evict, BaseNext
<1>4. CASE LRU_insert
  BY <1>4 DEF LRU_insert, BaseNext
<1>5. ASSUME NEW o \in resident, LRU_remove(o) PROVE BaseNext
  BY <1>5 DEF LRU_remove, BaseNext
<1>6. ASSUME NEW P \in SUBSET Obj, SetPins(P) PROVE UNCHANGED baseVars
  BY <1>6 DEF SetPins
<1>7. CASE Dump
  BY <1>7 DEF Dump, BaseNext
<1> QED
  BY <1>1, <1>2, <1>3, <1>4, <1>5, <1>6, <1>7 DEF Next

\* Every step keeps the queue and the table together.
LEMMA LRUInvNext == LRUInv /\ [Next]_vars => LRUInv'
<1> SUFFICES ASSUME LRUInv, [Next]_vars PROVE LRUInv'
  OBVIOUS
<1>1. BaseInv'
  BY LRUStepIsBase, BaseInvNext DEF LRUInv
<1> SUFFICES Lists(q', resident') /\ Len(q') = nObj'
  BY <1>1 DEF LRUInv
<1>2. CASE UNCHANGED <<q, resident, nObj>>
  BY <1>2 DEF LRUInv
<1>3. ASSUME NEW r \in Request, LRU_get(r)
      PROVE  Lists(q', resident') /\ Len(q') = nObj'
  <2>1. CASE LRU_find(r)
    <3>1. /\ r.obj \in resident /\ q' = move_obj_to_head(q, r.obj)
          /\ UNCHANGED <<resident, nObj>>
      BY <2>1 DEF LRU_find, GetHit, baseVars
    <3> QED
      BY <3>1, MoveToHeadLists DEF LRUInv
  <2>2. CASE GetNoHit(r) /\ UNCHANGED <<q, pinned>>
    BY <1>2, <2>2 DEF GetNoHit, GetRefused, GetMiss, baseVars
  <2> QED
    BY <1>3, <2>1, <2>2 DEF LRU_get
<1>4. CASE LRU_evict
  <2>1. /\ LRU_to_evict \in resident
        /\ q' = remove_obj_from_list(q, LRU_to_evict)
    BY <1>4, LRUVictim DEF LRU_evict
  <2>2. resident' = resident \ {LRU_to_evict} /\ nObj' = nObj - 1
    BY <1>4 DEF LRU_evict, GetEvict, DumpEvict, cache_evict_base, cache_remove_obj_base
  <2> QED
    BY <2>1, <2>2, RemoveLists DEF LRUInv
<1>5. CASE LRU_insert
  <2>1. req.obj \notin resident
    BY <1>5 DEF LRU_insert, GetInsert, LRUInv, BaseInv
  <2>2. /\ q' = prepend_obj_to_head(q, req.obj)
        /\ resident' = resident \cup {req.obj} /\ nObj' = nObj + 1
    BY <1>5 DEF LRU_insert, GetInsert, cache_insert_base
  <2> QED
    BY <2>1, <2>2, PrependLists DEF LRUInv
<1>6. ASSUME NEW o \in resident, LRU_remove(o)
      PROVE  Lists(q', resident') /\ Len(q') = nObj'
  <2>1. /\ q' = remove_obj_from_list(q, o)
        /\ resident' = resident \ {o} /\ nObj' = nObj - 1
    BY <1>6 DEF LRU_remove, Remove, cache_remove_obj_base
  <2> QED
    BY <2>1, RemoveLists DEF LRUInv
<1>7. ASSUME NEW P \in SUBSET Obj, SetPins(P) PROVE UNCHANGED <<q, resident, nObj>>
  BY <1>7 DEF SetPins, baseVars
<1>8. CASE Dump
  BY <1>2, <1>8 DEF Dump, DumpStart, DumpEnd
<1>9. CASE UNCHANGED vars
  BY <1>2, <1>9 DEF vars, baseVars
<1> QED
  BY <1>2, <1>3, <1>4, <1>5, <1>6, <1>7, <1>8, <1>9 DEF Next

\* LRU implements the abstract cache: promotion is invisible to the accounting
\* of cache.c, and every victim is resident, whatever is pinned.
THEOREM LRUImplementsBase == Spec => BaseSpec
<1>1. LRU_init => cache_struct_init
  BY DEF LRU_init
<1>2. LRUInv /\ [Next]_vars => [BaseNext]_baseVars
  BY LRUStepIsBase
<1> QED
  BY <1>1, <1>2, LRUInvInit, LRUInvNext, PTL DEF Spec, BaseSpec

\* LRU.c's queue threads through exactly the objects of the hash table.
THEOREM LRUQueueIsTable == Spec => []QueueIsTable
<1>1. LRUInv => QueueIsTable
  BY DEF LRUInv, BaseInv, Accounting, Lists, QueueIsTable
<1> QED
  BY <1>1, LRUInvInit, LRUInvNext, PTL DEF Spec
==============================================================================
