--------------------------------- MODULE ARC ---------------------------------
(***************************************************************************)
(* ARC.c: two LRU lists of cached objects (L1: seen once, L2: seen again), *)
(* two lists of ghosts they left in the hash table, and the adaptive       *)
(* target p of L1.  p is exact: a multiple of 1/Scale bytes.               *)
(***************************************************************************)
EXTENDS CacheBase, ObjList

CONSTANT Scale   \* a common multiple of the sizes of a ghost list

VARIABLES
  l1, l2, g1, g2,          \* L1_data, L2_data, L1_ghost, L2_ghost
  l1Size, l2Size, g1Size, g2Size,
  lruId,                   \* obj->ARC.lru_id of the ids in the hash table, else 0
  ghostSize,               \* obj->obj_size of the ghosts, else 0
  p,
  inL1Ghost, inL2Ghost,    \* curr_obj_in_L1_ghost, curr_obj_in_L2_ghost
  fresh                    \* vtime_last_req_in_ghost = n_req

lists == <<l1, l2, g1, g2>>
sizes == <<l1Size, l2Size, g1Size, g2Size>>
hits == <<p, inL1Ghost, inL2Ghost, fresh>>
arcVars == <<lists, sizes, lruId, ghostSize, hits>>
vars == <<baseVars, arcVars>>

ARC_init ==
  /\ cache_struct_init
  /\ l1 = <<>> /\ l2 = <<>> /\ g1 = <<>> /\ g2 = <<>>
  /\ l1Size = 0 /\ l2Size = 0 /\ g1Size = 0 /\ g2Size = 0
  /\ lruId = [o \in Obj |-> 0]
  /\ ghostSize = [o \in Obj |-> 0]
  /\ p = 0
  /\ inL1Ghost = FALSE /\ inL2Ghost = FALSE /\ fresh = FALSE

DropTail(q) == remove_obj_from_list(q, TailOf(q))

\* remove_obj_from_list on an object that may be in no list.
Unlink(q, o) == IF o \in ObjsOf(q) THEN remove_obj_from_list(q, o) ELSE q

MaxOf(a, b) == IF a > b THEN a ELSE b
MinOf(a, b) == IF a < b THEN a ELSE b

\* MAX((double)a / b, 1) in units of 1/Scale; a / 0 is infinite, and MAX drops
\* the NaN of 0 / 0.
Delta(a, b) ==
  IF b > 0 THEN MaxOf((a * Scale) \div b, Scale)
  ELSE IF a > 0 /\ b = 0 THEN CacheSize * Scale
  ELSE Scale

-----------------------------------------------------------------------------
Mutant_hit_leaves_L1_size(r) ==
  LET o == r.obj IN
  /\ GetHit(r)
  /\ IF lruId[o] = 1
       THEN /\ l1' = remove_obj_from_list(l1, o)
            /\ l2' = prepend_obj_to_head(l2, o)
            /\ l2Size' = l2Size + Charge(objSize[o])
       ELSE l2' = move_obj_to_head(l2, o) /\ UNCHANGED <<l1, l2Size>>
  /\ lruId' = [lruId EXCEPT ![o] = 2]
  /\ inL1Ghost' = FALSE /\ inL2Ghost' = FALSE /\ fresh' = FALSE
  /\ UNCHANGED <<g1, g2, l1Size, g1Size, g2Size, ghostSize, p>>

\* Case I: a hit in L1 moves to L2, a hit in L2 to its head.
ARC_find_hit(r) ==
  LET o == r.obj IN
  /\ GetHit(r)
  /\ IF lruId[o] = 1
       THEN /\ l1' = remove_obj_from_list(l1, o)
            /\ l2' = prepend_obj_to_head(l2, o)
            /\ l1Size' = l1Size - Charge(objSize[o])
            /\ l2Size' = l2Size + Charge(objSize[o])
       ELSE l2' = move_obj_to_head(l2, o) /\ UNCHANGED <<l1, l1Size, l2Size>>
  /\ lruId' = [lruId EXCEPT ![o] = 2]
  /\ inL1Ghost' = FALSE /\ inL2Ghost' = FALSE /\ fresh' = FALSE
  /\ UNCHANGED <<g1, g2, g1Size, g2Size, ghostSize, p>>

\* Cases II and III: a ghost hit moves p and takes the ghost out of its list
\* and out of the hash table.
ARC_find_ghost(r) ==
  LET o == r.obj
      sz == Charge(ghostSize[o])
  IN
  /\ GetNoHit(r)
  /\ \/ /\ lruId[o] = 1
        /\ p' = MinOf(p + Delta(g2Size, g1Size), CacheSize * Scale)
        /\ g1Size' = g1Size - sz /\ g1' = Unlink(g1, o)
        /\ UNCHANGED <<g2, g2Size>>
     \/ /\ lruId[o] = 2
        /\ p' = MaxOf(p - Delta(g1Size, g2Size), 0)
        /\ g2Size' = g2Size - sz /\ g2' = Unlink(g2, o)
        /\ UNCHANGED <<g1, g1Size>>
  /\ inL1Ghost' = (lruId[o] = 1) /\ inL2Ghost' = (lruId[o] = 2) /\ fresh' = TRUE
  /\ lruId' = [lruId EXCEPT ![o] = 0]
  /\ ghostSize' = [ghostSize EXCEPT ![o] = 0]
  /\ UNCHANGED <<l1, l2, l1Size, l2Size>>

\* ARC_find returns before it resets the two flags; n_req has moved on.
ARC_find_miss(r) ==
  /\ GetNoHit(r)
  /\ lruId[r.obj] = 0
  /\ fresh' = FALSE
  /\ UNCHANGED <<lists, sizes, lruId, ghostSize, p, inL1Ghost, inL2Ghost>>

GhostHit == fresh /\ (inL1Ghost \/ inL2Ghost)

ARC_insert ==
  LET o == req.obj IN
  /\ GetInsert
  /\ IF GhostHit
       THEN /\ l2' = prepend_obj_to_head(l2, o)
            /\ l2Size' = l2Size + Charge(req.size)
            /\ lruId' = [lruId EXCEPT ![o] = 2]
            /\ inL1Ghost' = FALSE /\ inL2Ghost' = FALSE /\ fresh' = FALSE
            /\ UNCHANGED <<l1, l1Size>>
       ELSE /\ l1' = prepend_obj_to_head(l1, o)
            /\ l1Size' = l1Size + Charge(req.size)
            /\ lruId' = [lruId EXCEPT ![o] = 1]
            /\ UNCHANGED <<l2, l2Size, inL1Ghost, inL2Ghost, fresh>>
  /\ UNCHANGED <<g1, g2, g1Size, g2Size, ghostSize, p>>

-----------------------------------------------------------------------------
\* The victim of REPLACE is in L1.
ReplaceL1 ==
  \/ /\ l1Size > 0
     /\ \/ l1Size * Scale > p
        \/ l1Size * Scale = p /\ inL2Ghost
  \/ l2Size = 0

ARC_to_replace == IF ReplaceL1 THEN TailOf(l1) ELSE TailOf(l2)

Mutant_to_evict_ignores_case_A(r) == ARC_to_replace

ARC_to_evict(r) ==
  IF /\ ~ GhostHit
     /\ l1Size + g1Size + Charge(r.size) > CacheSize
     /\ ~ g1Size > 0
    THEN TailOf(l1)
    ELSE ARC_to_replace

\* Case A of a miss on all lists: with r, L1 and its ghosts outgrow the cache.
CaseA(r) == ~ GhostHit /\ l1Size + g1Size + Charge(r.size) > CacheSize

\* Otherwise a full directory drops the oldest ghost of L2, if there is one.
DropL2Ghost(r) ==
  /\ ~ GhostHit /\ ~ CaseA(r)
  /\ l1Size + g1Size + l2Size + g2Size >= CacheSize * 2
  /\ g2Size > 0

\* evict for request r, called by cache_get_base ("room") or by anyone else
\* ("idle").  Case A drops the oldest ghost of L1 and replaces, or evicts from
\* L1 without leaving a ghost.
ARC_evict(r) ==
  LET noGhost == CaseA(r) /\ ~ g1Size > 0
      dropG1 == CaseA(r) /\ g1Size > 0
      dropG2 == DropL2Ghost(r)
      fromL1 == noGhost \/ ReplaceL1
      v == IF fromL1 THEN TailOf(l1) ELSE TailOf(l2)
      sz == Charge(objSize[v])
      keptG1 == IF dropG1 THEN DropTail(g1) ELSE g1
      keptG2 == IF dropG2 THEN DropTail(g2) ELSE g2
      dropped == (IF dropG1 THEN {TailOf(g1)} ELSE {}) \cup
                 (IF dropG2 THEN {TailOf(g2)} ELSE {})
  IN
  /\ GetEvict(v) \/ (pc = "idle" /\ EvictCall(v))
  /\ l1' = IF fromL1 THEN DropTail(l1) ELSE l1
  /\ l2' = IF fromL1 THEN l2 ELSE DropTail(l2)
  /\ g1' = IF fromL1 /\ ~ noGhost THEN prepend_obj_to_head(keptG1, v) ELSE keptG1
  /\ g2' = IF fromL1 THEN keptG2 ELSE prepend_obj_to_head(keptG2, v)
  /\ l1Size' = l1Size - (IF fromL1 THEN sz ELSE 0)
  /\ l2Size' = l2Size - (IF fromL1 THEN 0 ELSE sz)
  /\ g1Size' = g1Size - (IF dropG1 THEN Charge(ghostSize[TailOf(g1)]) ELSE 0)
                      + (IF fromL1 /\ ~ noGhost THEN sz ELSE 0)
  /\ g2Size' = g2Size - (IF dropG2 THEN Charge(ghostSize[TailOf(g2)]) ELSE 0)
                      + (IF fromL1 THEN 0 ELSE sz)
  /\ lruId' = [o \in Obj |-> IF o \in dropped \/ (o = v /\ noGhost) THEN 0 ELSE lruId[o]]
  /\ ghostSize' = [o \in Obj |->
                     IF o \in dropped THEN 0
                     ELSE IF o = v /\ ~ noGhost THEN objSize[v]
                     ELSE ghostSize[o]]
  /\ UNCHANGED hits

ARC_remove_data(o) ==
  LET sz == Charge(objSize[o])
      In(n, size) == IF lruId[o] = n THEN size - sz ELSE size
  IN
  /\ Remove(o)
  /\ l1' = Unlink(l1, o) /\ l1Size' = In(1, l1Size)
  /\ l2' = Unlink(l2, o) /\ l2Size' = In(2, l2Size)
  /\ lruId' = [lruId EXCEPT ![o] = 0]
  /\ UNCHANGED <<g1, g2, g1Size, g2Size, ghostSize, hits>>

\* The ghost leaves its list and stays in the hash table.
ARC_remove_ghost(o) ==
  LET sz == Charge(ghostSize[o]) IN
  /\ pc = "idle"
  /\ o \notin resident
  /\ \/ lruId[o] = 1 /\ g1' = Unlink(g1, o) /\ g1Size' = g1Size - sz /\ UNCHANGED <<g2, g2Size>>
     \/ lruId[o] = 2 /\ g2' = Unlink(g2, o) /\ g2Size' = g2Size - sz /\ UNCHANGED <<g1, g1Size>>
  /\ UNCHANGED <<baseVars, l1, l2, l1Size, l2Size, lruId, ghostSize, hits>>

ARC_get(r) == ARC_find_hit(r) \/ ARC_find_ghost(r) \/ ARC_find_miss(r)

\* A request that cache->evict is called with fits the cache.
EvictRequest ==
  IF pc = "room" THEN {req} ELSE {r \in Request : Charge(r.size) <= CacheSize}

NextNoGhostRemove ==
  \/ \E r \in Request : ARC_get(r)
  \/ ARC_insert
  \/ resident # {} /\ \E r \in EvictRequest : ARC_evict(r)
  \/ \E o \in resident : ARC_remove_data(o)

-----------------------------------------------------------------------------
\* What the properties of SegmentPolicies say of ARC.

BytesOf(q, size) == Cardinality(CellsOf(ObjsOf(q), size))

\* _ARC_sanity_check_full: each list holds the objects its lru_id and ghost
\* bit say, once, and the four sizes that find, insert, evict and remove move
\* bytes between add up to what the lists hold.
SanityCheck ==
  /\ ObjsOf(l1) = {o \in resident : lruId[o] = 1} /\ Cardinality(ObjsOf(l1)) = Len(l1)
  /\ ObjsOf(l2) = {o \in resident : lruId[o] = 2} /\ Cardinality(ObjsOf(l2)) = Len(l2)
  /\ ObjsOf(g1) = {o \in Obj \ resident : lruId[o] = 1} /\ Cardinality(ObjsOf(g1)) = Len(g1)
  /\ ObjsOf(g2) = {o \in Obj \ resident : lruId[o] = 2} /\ Cardinality(ObjsOf(g2)) = Len(g2)
  /\ l1Size = BytesOf(l1, objSize) /\ l2Size = BytesOf(l2, objSize)
  /\ g1Size = BytesOf(g1, ghostSize) /\ g2Size = BytesOf(g2, ghostSize)

ToEvictPredicts ==
  \A v \in resident : pc = "room" /\ v \notin resident' => v = ARC_to_evict(req)
==============================================================================
