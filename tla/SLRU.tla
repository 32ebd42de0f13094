-------------------------------- MODULE SLRU ---------------------------------
(***************************************************************************)
(* SLRU.c: n_seg LRU queues.  A hit promotes the object one segment up and *)
(* cools the segments below that overflow, which may end in an eviction.   *)
(* SLRU_cool is recursive; each of its moves is one action here, and lvl   *)
(* and top stand for its call stack.                                       *)
(***************************************************************************)
EXTENDS CacheBase, ObjList

CONSTANTS
  NSeg,         \* params->n_seg
  SegChoices,   \* the values of lru_max_n_bytes a user may ask for (seg-size)
  None          \* no object

Seg == 0 .. NSeg - 1

VARIABLES
  lru,         \* lru_heads[i] .. lru_tails[i]
  lruBytes,    \* lru_n_bytes
  lruObjs,     \* lru_n_objs
  lruMax,      \* lru_max_n_bytes
  hit,         \* obj of the running SLRU_find, None outside it
  lvl, top     \* the segments of the innermost and outermost cooling loop

segVars == <<lru, lruBytes, lruObjs, lruMax>>
vars == <<baseVars, segVars, hit, lvl, top>>

\* The segment sizes when the user gives none: the full budget, the upper
\* segments at least as large as the lower ones.
EvenSegments ==
  [i \in Seg |-> CacheSize \div NSeg
                   + IF i >= NSeg - (CacheSize % NSeg) THEN 1 ELSE 0]

\* obj->SLRU.lru_id.
lru_id(o) == CHOOSE i \in Seg : o \in ObjsOf(lru[i])

SLRU_init ==
  /\ cache_struct_init
  /\ lru = [i \in Seg |-> <<>>]
  /\ lruBytes = [i \in Seg |-> 0]
  /\ lruObjs = [i \in Seg |-> 0]
  /\ lruMax \in SegChoices \cup {EvenSegments}
  /\ hit = None /\ lvl = 0 /\ top = 0

SLRU_can_insert(r, admit) ==
  /\ cache_can_insert_default(r, admit)
  /\ Charge(r.size) <= lruMax[0]

Overfull(i) == lruBytes[i] > lruMax[i]

SLRU_promote_to_next_seg(o) ==
  LET i == lru_id(o) IN
  /\ lru' = [lru EXCEPT ![i] = remove_obj_from_list(@, o),
                        ![i + 1] = prepend_obj_to_head(@, o)]
  /\ lruBytes' = [lruBytes EXCEPT ![i] = @ - Charge(objSize[o]),
                                  ![i + 1] = @ + Charge(objSize[o])]
  /\ lruObjs' = [lruObjs EXCEPT ![i] = @ - 1, ![i + 1] = @ + 1]

\* A hit: the top segment only reorders; below it the object is promoted and
\* the loop that cools its new segment begins.
SLRU_find(r) ==
  /\ hit = None
  /\ GetHit(r)
  /\ IF lru_id(r.obj) = NSeg - 1
       THEN /\ lru' = [lru EXCEPT ![NSeg - 1] = move_obj_to_head(@, r.obj)]
            /\ UNCHANGED <<lruBytes, lruObjs, hit, lvl, top>>
       ELSE /\ SLRU_promote_to_next_seg(r.obj)
            /\ hit' = r.obj
            /\ lvl' = lru_id(r.obj) + 1
            /\ top' = lru_id(r.obj) + 1
  /\ UNCHANGED lruMax

Mutant_cool_moves_nothing ==
  /\ hit # None
  /\ Overfull(lvl)
  /\ lvl > 0
  /\ lru' = [lru EXCEPT ![lvl] = move_obj_to_head(@, TailOf(@))]
  /\ UNCHANGED <<baseVars, lruBytes, lruObjs, lruMax, hit, lvl, top>>

\* SLRU_cool(id), id > 0: the tail of the segment goes one segment down, whose
\* own loop runs next.  It moves the object's size without its metadata.  Without
\* a tail the code reads through NULL: the program ends there.
SLRU_cool ==
  LET o == TailOf(lru[lvl]) IN
  /\ hit # None
  /\ Overfull(lvl)
  /\ lvl > 0
  /\ lru[lvl] # <<>>
  /\ lru' = [lru EXCEPT ![lvl] = remove_obj_from_list(@, o),
                        ![lvl - 1] = prepend_obj_to_head(@, o)]
  /\ lruBytes' = [lruBytes EXCEPT ![lvl] = @ - objSize[o],
                                  ![lvl - 1] = @ + objSize[o]]
  /\ lruObjs' = [lruObjs EXCEPT ![lvl] = @ - 1, ![lvl - 1] = @ + 1]
  /\ lvl' = lvl - 1
  /\ UNCHANGED <<baseVars, lruMax, hit, top>>

\* The segments SLRU_to_evict looks into.  Without one it returns NULL, which
\* SLRU_evict reads through: the program ends there.
Open == {i \in Seg : lruBytes[i] > 0 /\ lru[i] # <<>>}

Mutant_to_evict_any_segment(P) ==
  TailOf(lru[CHOOSE i \in Open : \A j \in Open : i >= j])

\* Lowest segment first; a segment whose objects are all pinned is skipped,
\* unless that is so for every segment.
SLRU_to_evict(P) ==
  LET free == {i \in Open : ~ ObjsOf(lru[i]) \subseteq P}
      Lowest(S) == CHOOSE i \in S : \A j \in S : i <= j
  IN IF free # {} THEN cache_skip_pinned(lru[Lowest(free)], P)
                  ELSE TailOf(lru[Lowest(Open)])

\* What SLRU_evict does to the segments; its callers conjoin cache_evict_base.
SLRU_unlink(o) ==
  LET i == lru_id(o) IN
  /\ lru' = [lru EXCEPT ![i] = remove_obj_from_list(@, o)]
  /\ lruBytes' = [lruBytes EXCEPT ![i] = @ - Charge(objSize[o])]
  /\ lruObjs' = [lruObjs EXCEPT ![i] = @ - 1]

\* evict, called by the two loops of cache.c, by SLRU_cool(0) inside a hit, or
\* by prefixsim with its pins set.
SLRU_evict ==
  /\ hit = None
  /\ Open # {}
  /\ \/ (GetEvict(SLRU_to_evict({})) \/ DumpEvict(SLRU_to_evict({})))
        /\ SLRU_unlink(SLRU_to_evict({}))
     \/ \E P \in SUBSET Obj :
          /\ EvictCall(SLRU_to_evict(P))
          /\ SLRU_unlink(SLRU_to_evict(P))
  /\ UNCHANGED <<lruMax, hit, lvl, top>>

SLRU_cool_evict ==
  /\ hit # None
  /\ Overfull(lvl)
  /\ lvl = 0
  /\ Open # {}
  /\ EvictCall(SLRU_to_evict({}))
  /\ SLRU_unlink(SLRU_to_evict({}))
  /\ UNCHANGED <<lruMax, hit, lvl, top>>

Mutant_cool_not_repeated ==
  /\ hit # None
  /\ ~ Overfull(lvl) \/ lvl < top
  /\ hit' = None /\ lvl' = 0 /\ top' = 0
  /\ UNCHANGED <<baseVars, segVars>>

\* The loop on segment lvl ends: back to the loop one segment up, or, from the
\* outermost call of SLRU_cool, to the loop of SLRU_find.
SLRU_cool_return ==
  /\ hit # None
  /\ ~ Overfull(lvl)
  /\ IF lvl = top
       THEN hit' = None /\ lvl' = 0 /\ top' = 0
       ELSE /\ lvl' = IF lvl + 1 = top THEN lru_id(hit) ELSE lvl + 1
            /\ top' = IF lvl + 1 = top THEN lru_id(hit) ELSE top
            /\ UNCHANGED hit
  /\ UNCHANGED <<baseVars, segVars>>

\* The lowest segment with room; without one, the lowest segment.  The loop
\* that evicts before that never runs: cache_get_base has made the room.
SLRU_insert ==
  LET fits == {i \in Seg : lruBytes[i] + Charge(req.size) <= lruMax[i]}
      seg == IF fits = {} THEN 0 ELSE CHOOSE i \in fits : \A j \in fits : i <= j
  IN
  /\ GetInsert
  /\ lru' = [lru EXCEPT ![seg] = prepend_obj_to_head(@, req.obj)]
  /\ lruBytes' = [lruBytes EXCEPT ![seg] = @ + Charge(req.size)]
  /\ lruObjs' = [lruObjs EXCEPT ![seg] = @ + 1]
  /\ UNCHANGED <<lruMax, hit, lvl, top>>

\* SLRU_remove unlinks the object and leaves lru_n_bytes and lru_n_objs alone.
SLRU_remove(o) ==
  /\ hit = None
  /\ Remove(o)
  /\ lru' = [lru EXCEPT ![lru_id(o)] = remove_obj_from_list(@, o)]
  /\ UNCHANGED <<lruBytes, lruObjs, lruMax, hit, lvl, top>>

\* cache_get_base up to its loop.
SLRU_get(r) ==
  \/ SLRU_find(r)
  \/ /\ hit = None
     /\ \E admit \in BOOLEAN :
          \/ GetRefused(r, SLRU_can_insert(r, admit))
          \/ GetMiss(r, SLRU_can_insert(r, admit))
     /\ UNCHANGED <<segVars, hit, lvl, top>>

Dump ==
  /\ hit = None
  /\ DumpStart \/ DumpEnd
  /\ UNCHANGED <<segVars, hit, lvl, top>>

Cooling == SLRU_cool \/ SLRU_cool_evict \/ SLRU_cool_return

NextNoRemove ==
  \/ \E r \in Request : SLRU_get(r)
  \/ Cooling
  \/ SLRU_evict
  \/ SLRU_insert
  \/ Dump

-----------------------------------------------------------------------------
\* What the properties of SegmentPolicies say of SLRU.

\* The segments partition the hash table, whatever cascade moved the objects.
SegmentsPartition ==
  /\ UNION {ObjsOf(lru[i]) : i \in Seg} = resident
  /\ \A i, j \in Seg : i # j => ObjsOf(lru[i]) \cap ObjsOf(lru[j]) = {}
  /\ \A i \in Seg : Len(lru[i]) = Cardinality(ObjsOf(lru[i]))

\* lru_n_bytes and lru_n_objs of every segment are what its list holds.
SegmentAccounting ==
  \A i \in Seg :
    /\ lruObjs[i] = Len(lru[i])
    /\ lruBytes[i] = Cardinality(CellsOf(ObjsOf(lru[i]), objSize))

\* SLRU_cool and SLRU_evict find the object they read.
VictimFound ==
  /\ hit # None /\ Overfull(lvl) => IF lvl = 0 THEN Open # {} ELSE lru[lvl] # <<>>
  /\ (pc = "room" /\ NeedEviction(req)) \/ (pc = "dump" /\ occupied > 0) => Open # {}

UpperSegmentsBounded == hit = None => \A i \in Seg \ {0} : ~ Overfull(i)

HitSurvives == hit # None => hit \in resident

\* Objects weighed by the height of their segments.
Height == Cardinality(UNION {ObjsOf(lru[i]) \X (0 .. i) : i \in Seg})

\* Every step of the cascade lowers an object or returns from a loop.
CascadeSinks ==
  hit # None /\ hit' # None =>
    \/ Height' < Height
    \/ Height' = Height /\ top' - lvl' < top - lvl
==============================================================================
