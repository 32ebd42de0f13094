------------------------------- MODULE Belady --------------------------------
(***************************************************************************)
(* Belady.c: a priority queue of the objects by the time of their next     *)
(* access, which the trace gives with every request.  The time is read     *)
(* where the object is found or inserted, and chosen there.                *)
(***************************************************************************)
EXTENDS CacheBase, Sequences

CONSTANT NextAccess   \* values of next_access_vtime

VARIABLE heap   \* params->pq; the priority is also the object's next_access_vtime

PQ == INSTANCE PQueue WITH Node <- Obj, Pri <- NextAccess

Belady_init == cache_struct_init /\ heap = PQ!pqueue_init

Belady_find(r) ==
  /\ GetHit(r)
  /\ \E v \in NextAccess : heap' = PQ!pqueue_change_priority(heap, v, r.obj)

Belady_insert ==
  /\ GetInsert
  /\ \E v \in NextAccess : heap' = PQ!pqueue_insert(heap, req.obj, v)

Belady_to_evict == PQ!pqueue_peek(heap)

Belady_evict ==
  /\ GetEvict(Belady_to_evict) \/ DumpEvict(Belady_to_evict)
  /\ heap' = PQ!pqueue_pop(heap)

Belady_remove(o) == Remove(o) /\ heap' = PQ!pqueue_remove(heap, o)

Dump == (DumpStart \/ DumpEnd) /\ UNCHANGED heap

Next ==
  \/ \E r \in Request : Belady_find(r) \/ (GetNoHit(r) /\ UNCHANGED heap)
  \/ Belady_insert
  \/ Belady_evict
  \/ \E o \in resident : Belady_remove(o)
  \/ Dump

Running == Belady_insert \/ Belady_evict \/ (Dump /\ pc = "dump")

-----------------------------------------------------------------------------
\* What the properties of QueuePolicies say of Belady.

QueueIsTable == PQ!Queued = resident /\ PQ!HeapValid

\* What is evicted, past any sequence of hits and removes, has the furthest next
\* access among the cached objects.
EvictsFurthest ==
  \A o \in resident \ resident' :
    pc # "idle" => \A p \in resident : heap.pri[p] <= heap.pri[o]
==============================================================================
