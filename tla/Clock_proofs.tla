----------------------------- MODULE Clock_proofs -----------------------------
(***************************************************************************)
(* Clock is a cache in the sense of CacheBase, its queue is its hash table *)
(* and its rewriting respects the pins, for every set of objects, sizes    *)
(* and pins.                                                               *)
(***************************************************************************)
EXTENDS Clock, CacheBase_proofs, ObjList_proofs

\* The inductive invariant: the bookkeeping of cache.c, and a queue that holds
\* each resident once.
ClockInv ==
  BaseInv /\ Lists(q, resident) /\ Len(q) = nObj /\ DOMAIN freq = Obj

\* The constructor establishes it.
LEMMA ClockInvInit == Clock_init => ClockInv
<1> SUFFICES ASSUME Clock_init PROVE ClockInv
  OBVIOUS
<1>1. BaseInv
  BY BaseInvInit DEF Clock_init
<1>2. q = <<>> /\ resident = {} /\ nObj = 0 /\ DOMAIN freq = Obj
  BY DEF Clock_init, cache_struct_init
<1> QED
  BY <1>1, <1>2, EmptyLists DEF ClockInv

\* The object that evict looks at is resident, and pinned only if all are.
LEMMA ClockVictim ==
  ASSUME ClockInv, Evicting
  PROVE  /\ cache_skip_pinned(q, pinned) \in resident
         /\ cache_skip_pinned(q, pinned) \in pinned => resident \subseteq pinned
<1>1. resident # {}
  BY BaseInvImplies DEF ClockInv, EvictHasVictim, Evicting
<1> QED
  BY <1>1, SkipPinnedIsListed DEF ClockInv

\* Every step is a step of the abstract cache.
LEMMA ClockStepIsBase ==
  ASSUME ClockInv, [Next]_vars
  PROVE  [BaseNext]_baseVars
<1>1. CASE UNCHANGED vars
  BY <1>1 DEF vars
<1>2. ASSUME NEW r \in Request, Clock_get(r) PROVE BaseNext
  BY <1>2 DEF Clock_get, Clock_find, BaseNext
<1>3. CASE Clock_evict
  BY <1>3, ClockVictim DEF Clock_evict, BaseNext
<1>4. CASE Clock_evict_rewrite
  BY <1>4 DEF Clock_evict_rewrite
<1>5. CASE Clock_insert
  BY <1>5 DEF Clock_insert, BaseNext
<1>6. ASSUME NEW o \in resident, Clock_remove(o) PROVE BaseNext
  BY <1>6 DEF Clock_remove, BaseNext
<1>7. ASSUME NEW P \in SUBSET Obj, SetPins(P) PROVE UNCHANGED baseVars
  BY <1>7 DEF SetPins
<1>8. CASE Dump
  BY <1>8 DEF Dump, BaseNext
<1> QED
  BY <1>1, <1>2, <1>3, <1>4, <1>5, <1>6, <1>7, <1>8 DEF Next

\* Every step keeps the queue and the table together.
LEMMA ClockInvNext == ClockInv /\ [Next]_vars => ClockInv'
<1> SUFFICES ASSUME ClockInv, [Next]_vars PROVE ClockInv'
  OBVIOUS
<1>1. BaseInv'
  BY ClockStepIsBase, BaseInvNext DEF ClockInv
<1>0. DOMAIN freq' = Obj
  BY DEF ClockInv, Next, vars, Clock_get, Clock_find, Clock_evict_rewrite, Clock_evict,
         Clock_insert, Clock_remove, SetPins, Dump
<1> SUFFICES Lists(q', resident') /\ Len(q') = nObj'
  BY <1>0, <1>1 DEF ClockInv
<1>2. CASE UNCHANGED <<q, resident, nObj>>
  BY <1>2 DEF ClockInv
<1>3. ASSUME NEW r \in Request, Clock_get(r) PROVE UNCHANGED <<q, resident, nObj>>
  BY <1>3 DEF Clock_get, Clock_find, GetHit, GetNoHit, GetRefused, GetMiss, baseVars
<1>4. CASE Clock_evict
  <2> DEFINE o == cache_skip_pinned(q, pinned)
  <2>1. o \in resident
    BY <1>4, ClockVictim DEF Clock_evict
  <2>2. /\ q' = remove_obj_from_list(q, o)
        /\ resident' = resident \ {o} /\ nObj' = nObj - 1
    BY <1>4 DEF Clock_evict, GetEvict, DumpEvict, cache_evict_base, cache_remove_obj_base
  <2> QED
    BY <2>1, <2>2, RemoveLists DEF ClockInv
<1>5. CASE Clock_evict_rewrite
  <2> DEFINE o == cache_skip_pinned(q, pinned)
  <2>1. o \in resident
    BY <1>5, ClockVictim DEF Clock_evict_rewrite
  <2>2. q' = move_obj_to_head(q, o) /\ UNCHANGED <<resident, nObj>>
    BY <1>5 DEF Clock_evict_rewrite, baseVars
  <2> QED
    BY <2>1, <2>2, MoveToHeadLists DEF ClockInv
<1>6. CASE Clock_insert
  <2>1. req.obj \notin resident
    BY <1>6 DEF Clock_insert, GetInsert, ClockInv, BaseInv
  <2>2. /\ q' = prepend_obj_to_head(q, req.obj)
        /\ resident' = resident \cup {req.obj} /\ nObj' = nObj + 1
    BY <1>6 DEF Clock_insert, GetInsert, cache_insert_base
  <2> QED
    BY <2>1, <2>2, PrependLists DEF ClockInv
<1>7. ASSUME NEW o \in resident, Clock_remove(o)
      PROVE  Lists(q', resident') /\ Len(q') = nObj'
  <2>1. /\ q' = remove_obj_from_list(q, o)
        /\ resident' = resident \ {o} /\ nObj' = nObj - 1
    BY <1>7 DEF Clock_remove, Remove, cache_remove_obj_base
  <2> QED
    BY <2>1, RemoveLists DEF ClockInv
<1>8. ASSUME NEW P \in SUBSET Obj, SetPins(P) PROVE UNCHANGED <<q, resident, nObj>>
  BY <1>8 DEF SetPins, baseVars
<1>9. CASE Dump
  BY <1>2, <1>9 DEF Dump, DumpStart, DumpEnd
<1>10. CASE UNCHANGED vars
  BY <1>2, <1>10 DEF vars, baseVars
<1> QED
  BY <1>2, <1>3, <1>4, <1>5, <1>6, <1>7, <1>8, <1>9, <1>10 DEF Next

\* Clock implements the abstract cache: a rewrite at the head is invisible to
\* the accounting of cache.c, and every victim is resident, whatever is pinned.
THEOREM ClockImplementsBase == Spec => BaseSpec
<1>1. Clock_init => cache_struct_init
  BY DEF Clock_init
<1>2. ClockInv /\ [Next]_vars => [BaseNext]_baseVars
  BY ClockStepIsBase
<1> QED
  BY <1>1, <1>2, ClockInvInit, ClockInvNext, PTL DEF Spec, BaseSpec

\* Clock.c's queue threads through exactly the objects of the hash table.
THEOREM ClockQueueIsTable == Spec => []QueueIsTable
<1>1. ClockInv => QueueIsTable
  BY DEF ClockInv, BaseInv, Accounting, Lists, QueueIsTable
<1> QED
  BY <1>1, ClockInvInit, ClockInvNext, PTL DEF Spec

\* While a get or a dump evicts, the counter of a pinned resident does not
\* change unless everything is pinned: Clock_evict skips what is pinned before
\* it looks at counters.
THEOREM ClockPinnedUntouched == Spec => [][PinnedUntouched]_vars
<1>1. ASSUME ClockInv, Next, pc # "idle", ~ resident \subseteq pinned,
             NEW o \in pinned \cap resident
      PROVE  freq'[o] = freq[o]
  <2>1. o \in DOMAIN freq
    BY <1>1 DEF ClockInv, BaseInv, BaseTypeOK
  <2>2. CASE Clock_evict_rewrite
    <3>1. cache_skip_pinned(q, pinned) # o
      BY <1>1, <2>2, ClockVictim DEF Clock_evict_rewrite
    <3> QED
      BY <2>1, <2>2, <3>1 DEF Clock_evict_rewrite
  <2>3. CASE Clock_evict
    BY <2>3 DEF Clock_evict
  <2>4. CASE Clock_insert
    <3>1. req.obj # o
      BY <1>1, <2>4 DEF Clock_insert, GetInsert, ClockInv, BaseInv
    <3> QED
      BY <2>1, <2>4, <3>1 DEF Clock_insert
  <2>5. CASE Dump
    BY <2>5 DEF Dump
  <2>6. ASSUME NEW r \in Request PROVE ~ Clock_get(r)
    BY <1>1 DEF Clock_get, Clock_find, GetHit, GetNoHit, GetRefused, GetMiss
  <2>7. ASSUME NEW v PROVE ~ Clock_remove(v) /\ ~ SetPins(v)
    BY <1>1 DEF Clock_remove, Remove, SetPins
  <2> QED
    BY <1>1, <2>2, <2>3, <2>4, <2>5, <2>6, <2>7 DEF Next
<1>2. ClockInv /\ [Next]_vars => [PinnedUntouched]_vars
  BY <1>1 DEF PinnedUntouched
<1> QED
  BY <1>2, ClockInvInit, ClockInvNext, PTL DEF Spec
==============================================================================
