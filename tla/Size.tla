-------------------------------- MODULE Size ---------------------------------
(***************************************************************************)
(* Size.c: a priority queue of the objects by size; the largest goes first. *)
(* A hit sets the priority to the size of the request, while the object    *)
(* keeps the size it was inserted with.                                    *)
(***************************************************************************)
EXTENDS CacheBase

VARIABLE heap   \* params->pq

PQ == INSTANCE PQueue WITH Node <- Obj, Pri <- ReqSize

Size_init == cache_struct_init /\ heap = PQ!pqueue_init

Size_find(r) == GetHit(r) /\ heap' = PQ!pqueue_change_priority(heap, r.size, r.obj)

Size_insert == GetInsert /\ heap' = PQ!pqueue_insert(heap, req.obj, req.size)

Size_to_evict == PQ!pqueue_peek(heap)

Size_evict ==
  /\ GetEvict(Size_to_evict) \/ DumpEvict(Size_to_evict)
  /\ heap' = PQ!pqueue_pop(heap)

Size_remove(o) == Remove(o) /\ heap' = PQ!pqueue_remove(heap, o)

Dump == (DumpStart \/ DumpEnd) /\ UNCHANGED heap

Next ==
  \/ \E r \in Request : Size_find(r) \/ (GetNoHit(r) /\ UNCHANGED heap)
  \/ Size_insert
  \/ Size_evict
  \/ \E o \in resident : Size_remove(o)
  \/ Dump

Running == Size_insert \/ Size_evict \/ (Dump /\ pc = "dump")

-----------------------------------------------------------------------------
\* What the properties of QueuePolicies say of Size.

\* Size_get's DEBUG_ASSERT, and Size_evict's: the queue has exactly the cached
\* objects, with their right places.
QueueIsTable == PQ!Queued = resident /\ PQ!HeapValid
==============================================================================
