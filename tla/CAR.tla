--------------------------------- MODULE CAR ---------------------------------
(***************************************************************************)
(* CAR.c: two clocks of cached objects (T1: seen once, T2: seen again),    *)
(* whose hand is the head of the list, the two lists of ghosts they left   *)
(* in the hash table, and the adaptive target p of T1.  A turn of the loop *)
(* of _CAR_replace is one action.                                          *)
(***************************************************************************)
EXTENDS CacheBase, ObjList

VARIABLES
  l1, l2, g1, g2,          \* L1_data, L2_data, L1_ghost, L2_ghost
  l1Size, l2Size, g1Size, g2Size,
  lruId,                   \* obj->CAR.lru_id of the ids in the hash table, else 0
  ghostSize,               \* obj->obj_size of the ghosts, else 0
  ref,                     \* obj->CAR.reference of the cached objects, else FALSE
  p,                       \* a whole number: the quotients below are integers
  inL1Ghost, inL2Ghost     \* curr_obj_in_L1_ghost, curr_obj_in_L2_ghost

lists == <<l1, l2, g1, g2>>
sizes == <<l1Size, l2Size, g1Size, g2Size>>
carVars == <<lists, sizes, lruId, ghostSize, ref, p, inL1Ghost, inL2Ghost>>
vars == <<baseVars, carVars>>

CAR_init ==
  /\ cache_struct_init
  /\ l1 = <<>> /\ l2 = <<>> /\ g1 = <<>> /\ g2 = <<>>
  /\ l1Size = 0 /\ l2Size = 0 /\ g1Size = 0 /\ g2Size = 0
  /\ lruId = [o \in Obj |-> 0]
  /\ ghostSize = [o \in Obj |-> 0]
  /\ ref = [o \in Obj |-> FALSE]
  /\ p = 0
  /\ inL1Ghost = FALSE /\ inL2Ghost = FALSE

MaxOf(a, b) == IF a > b THEN a ELSE b
MinOf(a, b) == IF a < b THEN a ELSE b

IsGhost(o) == ghostSize[o] > 0

\* remove_obj_from_list on an object that may be in no list.
Unlink(q, o) == IF o \in ObjsOf(q) THEN remove_obj_from_list(q, o) ELSE q

-----------------------------------------------------------------------------
CAR_find_hit(r) ==
  /\ GetHit(r)
  /\ ref' = [ref EXCEPT ![r.obj] = TRUE]
  /\ UNCHANGED <<lists, sizes, lruId, ghostSize, p, inL1Ghost, inL2Ghost>>

\* A ghost hit moves p and takes the ghost out of its list and out of the hash
\* table.  An integer division by a counter that is 0 ends the program.
CAR_find_ghost(r) ==
  LET o == r.obj
      own == IF lruId[o] = 1 THEN g1Size ELSE g2Size
  IN
  /\ IsGhost(o)
  /\ IF own = 0
       THEN /\ pc = "idle" /\ pc' = "crashed"
            /\ UNCHANGED <<resident, objSize, occupied, nObj, req, toDump, carVars>>
       ELSE /\ GetNoHit(r)
            /\ IF lruId[o] = 1
                 THEN /\ inL1Ghost' = TRUE
                      /\ p' = MinOf(p + MaxOf(1, g2Size \div g1Size), CacheSize)
                      /\ g1' = Unlink(g1, o)
                      /\ g1Size' = g1Size - Charge(ghostSize[o])
                      /\ UNCHANGED <<g2, g2Size, inL2Ghost>>
                 ELSE /\ inL2Ghost' = TRUE
                      /\ p' = MaxOf(p - MaxOf(1, g1Size \div g2Size), 0)
                      /\ g2' = Unlink(g2, o)
                      /\ g2Size' = g2Size - Charge(ghostSize[o])
                      /\ UNCHANGED <<g1, g1Size, inL1Ghost>>
            /\ lruId' = [lruId EXCEPT ![o] = 0]
            /\ ghostSize' = [ghostSize EXCEPT ![o] = 0]
            /\ UNCHANGED <<l1, l2, l1Size, l2Size, ref>>

\* cache_get_base up to its loop.
CAR_get(r) ==
  \/ CAR_find_hit(r)
  \/ CAR_find_ghost(r)
  \/ ~ IsGhost(r.obj) /\ GetNoHit(r) /\ UNCHANGED carVars

\* The flags are those of the last ghost hit that was not followed by an
\* insertion, perhaps of another request.
CAR_insert ==
  LET o == req.obj
      toL2 == inL1Ghost \/ inL2Ghost
  IN
  /\ GetInsert
  /\ IF toL2
       THEN /\ l2' = append_obj_to_tail(l2, o)
            /\ l2Size' = l2Size + Charge(req.size)
            /\ UNCHANGED <<l1, l1Size>>
       ELSE /\ l1' = append_obj_to_tail(l1, o)
            /\ l1Size' = l1Size + Charge(req.size)
            /\ UNCHANGED <<l2, l2Size>>
  /\ lruId' = [lruId EXCEPT ![o] = IF toL2 THEN 2 ELSE 1]
  /\ inL1Ghost' = FALSE /\ inL2Ghost' = FALSE
  /\ UNCHANGED <<g1, g2, g1Size, g2Size, ghostSize, ref, p>>

-----------------------------------------------------------------------------
\* The loops that call evict: cache_get_base's and dump_cached_obj_age's.
Evicting ==
  \/ pc = "room" /\ NeedEviction(req)
  \/ pc = "dump" /\ occupied > 0

\* Which clock gives the victim: the size test, unless its list is empty.
use_L1 == l1 # <<>> /\ (l2 = <<>> \/ l1Size >= MaxOf(1, p))

\* The hand passes a referenced object: _CAR_L1_move_to_tail_L2_data and
\* _CAR_move_to_tail_L2_data.
CAR_replace_L1_turn ==
  LET o == Head(l1) IN
  /\ Evicting /\ use_L1
  /\ ref[o]
  /\ ref' = [ref EXCEPT ![o] = FALSE]
  /\ l1' = Tail(l1)
  /\ l2' = append_obj_to_tail(l2, o)
  /\ l1Size' = l1Size - Charge(objSize[o])
  /\ l2Size' = l2Size + Charge(objSize[o])
  /\ lruId' = [lruId EXCEPT ![o] = 2]
  /\ UNCHANGED <<baseVars, g1, g2, g1Size, g2Size, ghostSize, p, inL1Ghost, inL2Ghost>>

CAR_replace_L2_turn ==
  LET o == Head(l2) IN
  /\ Evicting /\ ~ use_L1
  /\ ref[o]
  /\ ref' = [ref EXCEPT ![o] = FALSE]
  /\ l2' = move_obj_to_tail(l2, o)
  /\ UNCHANGED <<baseVars, l1, g1, g2, sizes, lruId, ghostSize, p, inL1Ghost, inL2Ghost>>

\* The victim becomes a ghost, and the oldest ghost of T1 is discarded when T1
\* and its ghosts fill the cache.  The branch that would discard a ghost of T2
\* asks for more than the failed test and is never taken.
CAR_evict ==
  LET o == Head(IF use_L1 THEN l1 ELSE l2)
      bytes == Charge(objSize[o])
      g1Now == IF use_L1 THEN prepend_obj_to_head(g1, o) ELSE g1
      g1Bytes == IF use_L1 THEN g1Size + bytes ELSE g1Size
      discard == ~ (inL1Ghost /\ inL2Ghost) /\ l1Size' + g1Bytes >= CacheSize
      d == TailOf(g1Now)
      dSize == IF d = o THEN objSize[o] ELSE ghostSize[d]
  IN
  /\ Evicting
  /\ ~ ref[o]
  /\ GetEvict(o) \/ DumpEvict(o)
  /\ IF use_L1
       THEN /\ l1' = Tail(l1)
            /\ l1Size' = l1Size - bytes
            /\ UNCHANGED <<l2, l2Size, g2, g2Size>>
       ELSE /\ l2' = Tail(l2)
            /\ l2Size' = l2Size - bytes
            /\ g2' = prepend_obj_to_head(g2, o)
            /\ g2Size' = g2Size + bytes
            /\ UNCHANGED <<l1, l1Size>>
  /\ g1' = IF discard THEN remove_obj_from_list(g1Now, d) ELSE g1Now
  /\ g1Size' = IF discard THEN g1Bytes - Charge(dSize) ELSE g1Bytes
  /\ lruId' = IF discard THEN [lruId EXCEPT ![d] = 0] ELSE lruId
  /\ ghostSize' = [x \in Obj |->
                    IF discard /\ x = d THEN 0
                    ELSE IF x = o THEN objSize[o] ELSE ghostSize[x]]
  /\ UNCHANGED <<ref, p, inL1Ghost, inL2Ghost>>

-----------------------------------------------------------------------------
CAR_remove(o) ==
  /\ Remove(o)
  /\ l1' = Unlink(l1, o)
  /\ l2' = Unlink(l2, o)
  /\ l1Size' = IF lruId[o] = 1 THEN l1Size - Charge(objSize[o]) ELSE l1Size
  /\ l2Size' = IF lruId[o] = 2 THEN l2Size - Charge(objSize[o]) ELSE l2Size
  /\ lruId' = [lruId EXCEPT ![o] = 0]
  /\ ref' = [ref EXCEPT ![o] = FALSE]
  /\ UNCHANGED <<g1, g2, g1Size, g2Size, ghostSize, p, inL1Ghost, inL2Ghost>>

\* CAR_remove on a ghost unlinks it and counts its bytes down, but leaves it in
\* the hash table.
CAR_remove_ghost(o) ==
  /\ pc = "idle"
  /\ IsGhost(o)
  /\ g1' = Unlink(g1, o)
  /\ g2' = Unlink(g2, o)
  /\ g1Size' = IF lruId[o] = 1 THEN g1Size - Charge(ghostSize[o]) ELSE g1Size
  /\ g2Size' = IF lruId[o] = 2 THEN g2Size - Charge(ghostSize[o]) ELSE g2Size
  /\ UNCHANGED <<baseVars, l1, l2, l1Size, l2Size, lruId, ghostSize, ref, p,
                 inL1Ghost, inL2Ghost>>

Dump == (DumpStart \/ DumpEnd) /\ UNCHANGED carVars

NextNoGhostRemove ==
  \/ \E r \in Request : CAR_get(r)
  \/ CAR_replace_L1_turn
  \/ CAR_replace_L2_turn
  \/ CAR_evict
  \/ CAR_insert
  \/ \E o \in resident : CAR_remove(o)
  \/ Dump

-----------------------------------------------------------------------------
\* What the properties of SegmentPolicies say of CAR.

ChargeOf(R, s) == Cardinality(CellsOf(R, s))

\* _CAR_sanity_check_full.
SanityCheck ==
  /\ ObjsOf(l1) = {o \in resident : lruId[o] = 1}
  /\ ObjsOf(l2) = {o \in resident : lruId[o] = 2}
  /\ ObjsOf(g1) = {o \in Obj \ resident : lruId[o] = 1}
  /\ ObjsOf(g2) = {o \in Obj \ resident : lruId[o] = 2}
  /\ Len(l1) + Len(l2) + Len(g1) + Len(g2) = Cardinality({o \in Obj : lruId[o] > 0})
  /\ l1Size = ChargeOf(ObjsOf(l1), objSize)
  /\ l2Size = ChargeOf(ObjsOf(l2), objSize)
  /\ g1Size = ChargeOf(ObjsOf(g1), ghostSize)
  /\ g2Size = ChargeOf(ObjsOf(g2), ghostSize)
  /\ p \in 0 .. CacheSize
==============================================================================
