-------------------------------- MODULE FIFO ---------------------------------
(***************************************************************************)
(* FIFO.c: one queue in insertion order, hits leave it alone, the victim   *)
(* is the oldest object that is not pinned.                                *)
(***************************************************************************)
EXTENDS CacheBase, ObjList

VARIABLES
  q,       \* params->q_head .. params->q_tail
  pinned   \* ids the thread's pin predicate protects

vars == <<baseVars, q, pinned>>

FIFO_init == cache_struct_init /\ q = <<>> /\ pinned = {}

FIFO_find(r) == GetHit(r) /\ UNCHANGED <<q, pinned>>

FIFO_insert ==
  /\ GetInsert
  /\ q' = prepend_obj_to_head(q, req.obj)
  /\ UNCHANGED pinned

FIFO_to_evict == cache_skip_pinned(q, pinned)

\* Without pins the code unlinks the tail by hand; the tail is what
\* cache_skip_pinned returns then.
FIFO_evict ==
  LET victim == FIFO_to_evict IN
  /\ q # <<>>
  /\ GetEvict(victim) \/ DumpEvict(victim)
  /\ q' = remove_obj_from_list(q, victim)
  /\ UNCHANGED pinned

FIFO_remove(o) ==
  /\ Remove(o)
  /\ q' = remove_obj_from_list(q, o)
  /\ UNCHANGED pinned

\* cache_get_base up to its loop.
FIFO_get(r) == FIFO_find(r) \/ (GetNoHit(r) /\ UNCHANGED <<q, pinned>>)

\* The caller installs another pin predicate between two calls.
SetPins(P) ==
  /\ pc = "idle"
  /\ pinned' = P
  /\ UNCHANGED <<baseVars, q>>

Dump == (DumpStart \/ DumpEnd) /\ UNCHANGED <<q, pinned>>

Next ==
  \/ \E r \in Request : FIFO_get(r)
  \/ FIFO_evict
  \/ FIFO_insert
  \/ \E o \in resident : FIFO_remove(o)
  \/ \E P \in SUBSET Obj : SetPins(P)
  \/ Dump

Spec == FIFO_init /\ [][Next]_vars

\* The steps of a call in progress.
Running == FIFO_evict \/ FIFO_insert \/ (Dump /\ pc = "dump")

-----------------------------------------------------------------------------
\* What the properties of QueuePolicies say of FIFO.

QueueIsTable == ObjsOf(q) = resident /\ Len(q) = Cardinality(resident)

\* Two objects that stay keep their order.
KeepsOrder ==
  \A i, j \in 1 .. Len(q) :
    i < j /\ q[i] \in resident' /\ q[j] \in resident' => PosOf(q', q[i]) < PosOf(q', q[j])
==============================================================================
