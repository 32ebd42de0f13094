--------------------------------- MODULE LRU ---------------------------------
(***************************************************************************)
(* LRU.c: one queue in recency order.  A hit moves the object to the head, *)
(* the victim is the object nearest the tail that is not pinned.           *)
(***************************************************************************)
EXTENDS CacheBase, ObjList

VARIABLES
  q,       \* params->q_head .. params->q_tail
  pinned   \* ids the thread's pin predicate protects

vars == <<baseVars, q, pinned>>

LRU_init == cache_struct_init /\ q = <<>> /\ pinned = {}

Mutant_hit_keeps_place(r) == GetHit(r) /\ UNCHANGED <<q, pinned>>

LRU_find(r) ==
  /\ GetHit(r)
  /\ q' = move_obj_to_head(q, r.obj)
  /\ UNCHANGED pinned

LRU_insert ==
  /\ GetInsert
  /\ q' = prepend_obj_to_head(q, req.obj)
  /\ UNCHANGED pinned

LRU_to_evict == cache_skip_pinned(q, pinned)

Mutant_evict_swaps_pinned ==
  LET victim == cache_skip_pinned(q, pinned) IN
  /\ q # <<>>
  /\ GetEvict(victim) \/ DumpEvict(victim)
  /\ q' = IF TailOf(q) = victim
            THEN remove_obj_from_list(q, victim)
            ELSE [SubSeq(q, 1, Len(q) - 1) EXCEPT ![PosOf(q, victim)] = TailOf(q)]
  /\ UNCHANGED pinned

\* Without pins the code unlinks the tail by hand; the tail is what
\* cache_skip_pinned returns then.
LRU_evict ==
  LET victim == LRU_to_evict IN
  /\ q # <<>>
  /\ GetEvict(victim) \/ DumpEvict(victim)
  /\ q' = remove_obj_from_list(q, victim)
  /\ UNCHANGED pinned

LRU_remove(o) ==
  /\ Remove(o)
  /\ q' = remove_obj_from_list(q, o)
  /\ UNCHANGED pinned

\* cache_get_base up to its loop.
LRU_get(r) == LRU_find(r) \/ (GetNoHit(r) /\ UNCHANGED <<q, pinned>>)

\* The caller installs another pin predicate between two calls.
SetPins(P) ==
  /\ pc = "idle"
  /\ pinned' = P
  /\ UNCHANGED <<baseVars, q>>

Mutant_dump_leaves_one ==
  /\ UNCHANGED <<q, pinned>>
  /\ \/ DumpStart
     \/ pc = "dump" /\ nObj <= 1 /\ pc' = "idle" /\ toDump' = 0
        /\ UNCHANGED <<resident, objSize, occupied, nObj, req>>

Dump == (DumpStart \/ DumpEnd) /\ UNCHANGED <<q, pinned>>

Next ==
  \/ \E r \in Request : LRU_get(r)
  \/ LRU_evict
  \/ LRU_insert
  \/ \E o \in resident : LRU_remove(o)
  \/ \E P \in SUBSET Obj : SetPins(P)
  \/ Dump

Spec == LRU_init /\ [][Next]_vars

\* The steps of a call in progress.
Running == LRU_evict \/ LRU_insert \/ (Dump /\ pc = "dump")

-----------------------------------------------------------------------------
\* What the properties of QueuePolicies say of LRU.

QueueIsTable == ObjsOf(q) = resident /\ Len(q) = Cardinality(resident)

\* Two objects that stay keep their order unless the older one was hit.
OnlyHitsReorder ==
  \A i, j \in 1 .. Len(q) :
    /\ i < j /\ q[i] \in resident' /\ q[j] \in resident'
    /\ PosOf(q', q[i]) > PosOf(q', q[j])
    => pc = "idle" /\ resident' = resident /\ q'[1] = q[j]
==============================================================================
