----------------------------- MODULE Sieve_proofs -----------------------------
(***************************************************************************)
(* Sieve is a cache in the sense of CacheBase, its queue is its hash       *)
(* table, the hand it keeps between evictions never dangles, and its walk  *)
(* respects the pins, for every set of objects, sizes and pins.            *)
(***************************************************************************)
EXTENDS Sieve, CacheBase_proofs, ObjList_proofs

\* The inductive invariant: the bookkeeping of cache.c, a queue that holds each
\* resident once, hand and cur in it, and a walk in progress only while a loop
\* that evicts is asking for a victim.
SieveInv ==
  /\ BaseInv
  /\ Lists(q, resident)
  /\ Len(q) = nObj
  /\ {hand, cur} \subseteq resident \cup {None}
  /\ cur # None => Evicting
  /\ DOMAIN freq = Obj

\* The constructor establishes it.
LEMMA SieveInvInit == Sieve_init => SieveInv
<1> SUFFICES ASSUME Sieve_init PROVE SieveInv
  OBVIOUS
<1>1. BaseInv
  BY BaseInvInit DEF Sieve_init
<1>2. /\ q = <<>> /\ resident = {} /\ nObj = 0 /\ hand = None /\ cur = None
      /\ DOMAIN freq = Obj
  BY DEF Sieve_init, cache_struct_init
<1> QED
  BY <1>1, <1>2, EmptyLists DEF SieveInv

\* A walk that is asked for has a tail to start from.
LEMMA SieveTail ==
  ASSUME SieveInv, Evicting
  PROVE  TailOf(q) \in resident
<1>1. resident # {}
  BY BaseInvImplies DEF SieveInv, EvictHasVictim, Evicting
<1>2. Len(q) \in Nat /\ ObjsOf(q) = resident
  BY DEF SieveInv, Lists
<1>3. Len(q) # 0
  BY <1>1, <1>2 DEF ObjsOf
<1> QED
  BY <1>2, <1>3 DEF ObjsOf, TailOf

\* The neighbour towards the head is another object of the queue, or NULL.
LEMMA SievePrev ==
  ASSUME SieveInv, NEW o \in resident
  PROVE  PrevOf(o) \in (resident \ {o}) \cup {None}
<1> DEFINE p == PosOf(q, o)
<1>1. /\ Len(q) \in Nat /\ ObjsOf(q) = resident
      /\ \A i, j \in 1 .. Len(q) : q[i] = q[j] => i = j
  BY DEF SieveInv, Lists
<1>2. p \in 1 .. Len(q) /\ q[p] = o
  BY <1>1 DEF ObjsOf, PosOf
<1> HIDE DEF p
<1>3. ASSUME p # 1 PROVE q[p - 1] \in resident \ {o}
  <2>1. p - 1 \in 1 .. Len(q) /\ p - 1 # p
    BY <1>1, <1>2, <1>3
  <2>2. q[p - 1] \in resident /\ q[p - 1] # q[p]
    BY <1>1, <1>2, <2>1 DEF ObjsOf
  <2> QED
    BY <1>2, <2>2
<1>4. PrevOf(o) = IF p = 1 THEN None ELSE q[p - 1]
  BY DEF PrevOf, p
<1> QED
  BY <1>3, <1>4

\* Every step is a step of the abstract cache.
LEMMA SieveStepIsBase ==
  ASSUME SieveInv, [Next]_vars
  PROVE  [BaseNext]_baseVars
<1>1. CASE UNCHANGED vars
  BY <1>1 DEF vars
<1>2. ASSUME NEW r \in Request, Sieve_get(r) PROVE BaseNext
  BY <1>2 DEF Sieve_get, Sieve_find, BaseNext
<1>3. CASE Sieve_evict_begin \/ Sieve_evict_step
  BY <1>3 DEF Sieve_evict_begin, Sieve_evict_step
<1>4. CASE Sieve_evict_end
  BY <1>4 DEF Sieve_evict_end, SieveInv, BaseNext
<1>5. CASE Sieve_insert
  BY <1>5 DEF Sieve_insert, BaseNext
<1>6. ASSUME NEW o \in resident, Sieve_remove(o) PROVE BaseNext
  BY <1>6 DEF Sieve_remove, BaseNext
<1>7. ASSUME NEW P \in SUBSET Obj, SetPins(P) PROVE UNCHANGED baseVars
  BY <1>7 DEF SetPins
<1>8. CASE Dump
  BY <1>8 DEF Dump, BaseNext
<1> QED
  BY <1>1, <1>2, <1>3, <1>4, <1>5, <1>6, <1>7, <1>8 DEF Next

\* What a step has to keep besides the bookkeeping of cache.c.
WalkInv ==
  /\ Lists(q, resident) /\ Len(q) = nObj
  /\ {hand, cur} \subseteq resident \cup {None}
  /\ cur # None => Evicting

\* Every step keeps the queue and the table together, and hand and cur in them.
LEMMA SieveInvNext == SieveInv /\ [Next]_vars => SieveInv'
<1> SUFFICES ASSUME SieveInv, [Next]_vars PROVE SieveInv'
  OBVIOUS
<1>1. BaseInv'
  BY SieveStepIsBase, BaseInvNext DEF SieveInv
<1>0. DOMAIN freq' = Obj
  BY DEF SieveInv, Next, vars, Sieve_get, Sieve_find, Sieve_evict_begin, Sieve_evict_step,
         Sieve_evict_end, Sieve_insert, Sieve_remove, SetPins, Dump
<1> SUFFICES WalkInv'
  BY <1>0, <1>1 DEF SieveInv, WalkInv
<1>2. WalkInv
  BY DEF SieveInv, WalkInv
<1>3. pc = "idle" => cur = None
  BY DEF SieveInv, Evicting
<1>4. CASE UNCHANGED <<q, hand, cur, resident, nObj>> /\ cur = None
  BY <1>2, <1>4 DEF WalkInv
<1>5. ASSUME NEW r \in Request, Sieve_get(r) PROVE WalkInv'
  BY <1>3, <1>4, <1>5 DEF Sieve_get, Sieve_find, GetHit, GetNoHit, GetRefused, GetMiss, baseVars
<1>6. CASE Sieve_evict_begin
  <2>1. /\ Evicting /\ UNCHANGED <<q, hand, baseVars>>
        /\ cur' \in {TailOf(q), hand}
    BY <1>6 DEF Sieve_evict_begin
  <2>2. cur' \in resident \cup {None}
    BY <1>2, <2>1, SieveTail DEF WalkInv
  <2> QED
    BY <1>2, <2>1, <2>2 DEF WalkInv, Evicting, NeedEviction, baseVars
<1>7. CASE Sieve_evict_step
  <2>1. /\ Evicting /\ cur \in resident /\ UNCHANGED <<q, hand, baseVars>>
        /\ cur' \in {TailOf(q), PrevOf(cur)}
    BY <1>2, <1>7 DEF Sieve_evict_step, WalkInv
  <2>2. cur' \in resident \cup {None}
    BY <2>1, SieveTail, SievePrev
  <2> QED
    BY <1>2, <2>1, <2>2 DEF WalkInv, Evicting, NeedEviction, baseVars
<1>8. CASE Sieve_evict_end
  <2>1. /\ cur \in resident /\ cur' = None
        /\ q' = remove_obj_from_list(q, cur) /\ hand' = PrevOf(cur)
    BY <1>2, <1>8 DEF Sieve_evict_end, WalkInv
  <2>2. resident' = resident \ {cur} /\ nObj' = nObj - 1
    BY <1>8 DEF Sieve_evict_end, GetEvict, DumpEvict, cache_evict_base, cache_remove_obj_base
  <2>3. Lists(q', resident') /\ Len(q') = nObj'
    BY <1>2, <2>1, <2>2, RemoveLists DEF WalkInv
  <2>4. hand' \in resident' \cup {None}
    BY <2>1, <2>2, SievePrev
  <2> QED
    BY <2>1, <2>3, <2>4 DEF WalkInv
<1>9. CASE Sieve_insert
  <2>1. req.obj \notin resident /\ cur = None
    BY <1>9 DEF Sieve_insert, GetInsert, SieveInv, BaseInv, Evicting
  <2>2. /\ q' = prepend_obj_to_head(q, req.obj) /\ UNCHANGED <<hand, cur>>
        /\ resident' = resident \cup {req.obj} /\ nObj' = nObj + 1
    BY <1>9 DEF Sieve_insert, GetInsert, cache_insert_base
  <2>3. Lists(q', resident') /\ Len(q') = nObj'
    BY <1>2, <2>1, <2>2, PrependLists DEF WalkInv
  <2> QED
    BY <1>2, <2>1, <2>2, <2>3 DEF WalkInv
<1>10. ASSUME NEW o \in resident, Sieve_remove(o) PROVE WalkInv'
  <2>1. /\ q' = remove_obj_from_list(q, o) /\ cur = None /\ cur' = cur
        /\ resident' = resident \ {o} /\ nObj' = nObj - 1
        /\ hand' = IF o = hand THEN PrevOf(o) ELSE hand
    BY <1>3, <1>10 DEF Sieve_remove, Remove, cache_remove_obj_base
  <2>2. Lists(q', resident') /\ Len(q') = nObj'
    BY <1>2, <2>1, RemoveLists DEF WalkInv
  <2>3. hand' \in resident' \cup {None}
    BY <1>2, <2>1, SievePrev DEF WalkInv
  <2> QED
    BY <2>1, <2>2, <2>3 DEF WalkInv
<1>11. ASSUME NEW P \in SUBSET Obj, SetPins(P) PROVE WalkInv'
  BY <1>3, <1>4, <1>11 DEF SetPins, baseVars
<1>12. CASE Dump
  <2>1. cur = None
    BY <1>12 DEF Dump, DumpStart, DumpEnd, SieveInv, Evicting
  <2> QED
    BY <1>4, <1>12, <2>1 DEF Dump, DumpStart, DumpEnd
<1>13. CASE UNCHANGED vars
  BY <1>2, <1>13 DEF WalkInv, Evicting, NeedEviction, vars, baseVars
<1> QED
  BY <1>5, <1>6, <1>7, <1>8, <1>9, <1>10, <1>11, <1>12, <1>13 DEF Next

\* Sieve implements the abstract cache: the walk of the hand is invisible to
\* the accounting of cache.c, and the object it stops at is resident.
THEOREM SieveImplementsBase == Spec => BaseSpec
<1>1. Sieve_init => cache_struct_init
  BY DEF Sieve_init
<1>2. SieveInv /\ [Next]_vars => [BaseNext]_baseVars
  BY SieveStepIsBase
<1> QED
  BY <1>1, <1>2, SieveInvInit, SieveInvNext, PTL DEF Spec, BaseSpec

\* Sieve.c's queue threads through exactly the objects of the hash table, and
\* params->pointer, which survives evictions and removes, points into it.
THEOREM SieveQueueIsTable == Spec => []QueueIsTable
<1>1. SieveInv => QueueIsTable
  BY DEF SieveInv, BaseInv, Accounting, Lists, QueueIsTable
<1> QED
  BY <1>1, SieveInvInit, SieveInvNext, PTL DEF Spec

\* While a get or a dump evicts, the mark of a pinned resident that stays does
\* not change: Sieve_evict steps over what is pinned without clearing it.
THEOREM SievePinnedUntouched == Spec => [][PinnedUntouched]_vars
<1>1. ASSUME SieveInv, Next, pc # "idle",
             NEW o \in pinned \cap resident \cap resident'
      PROVE  freq'[o] = freq[o]
  <2>1. o \in DOMAIN freq
    BY <1>1 DEF SieveInv, BaseInv, BaseTypeOK
  <2>2. CASE Sieve_evict_begin \/ Dump
    BY <2>2 DEF Sieve_evict_begin, Dump
  <2>3. CASE Sieve_evict_step
    BY <2>1, <2>3 DEF Sieve_evict_step
  <2>4. CASE Sieve_evict_end
    <3>1. o # cur
      BY <2>4 DEF Sieve_evict_end, GetEvict, DumpEvict, cache_evict_base, cache_remove_obj_base
    <3> QED
      BY <2>1, <2>4, <3>1 DEF Sieve_evict_end
  <2>5. CASE Sieve_insert
    <3>1. req.obj # o
      BY <1>1, <2>5 DEF Sieve_insert, GetInsert, SieveInv, BaseInv
    <3> QED
      BY <2>1, <2>5, <3>1 DEF Sieve_insert
  <2>6. ASSUME NEW r \in Request PROVE ~ Sieve_get(r)
    BY <1>1 DEF Sieve_get, Sieve_find, GetHit, GetNoHit, GetRefused, GetMiss
  <2>7. ASSUME NEW v PROVE ~ Sieve_remove(v) /\ ~ SetPins(v)
    BY <1>1 DEF Sieve_remove, Remove, SetPins
  <2> QED
    BY <1>1, <2>2, <2>3, <2>4, <2>5, <2>6, <2>7 DEF Next
<1>2. SieveInv /\ [Next]_vars => [PinnedUntouched]_vars
  BY <1>1 DEF PinnedUntouched
<1> QED
  BY <1>2, SieveInvInit, SieveInvNext, PTL DEF Spec
==============================================================================
