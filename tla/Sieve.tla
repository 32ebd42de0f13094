-------------------------------- MODULE Sieve --------------------------------
(***************************************************************************)
(* Sieve.c: a queue in insertion order with a visited mark per object and  *)
(* a hand that survives between evictions.  Eviction walks the hand from   *)
(* the tail towards the head, clearing marks, and takes the first object   *)
(* that has none; each turn of that walk is one action.                    *)
(***************************************************************************)
EXTENDS CacheBase, ObjList

CONSTANT None   \* the NULL pointer

VARIABLES
  q,       \* params->q_head .. params->q_tail
  freq,    \* obj->sieve.freq of the residents, 0 for the others
  hand,    \* params->pointer
  cur,     \* obj of the running Sieve_evict, None outside it
  budget,  \* budget of the running Sieve_evict
  pinned   \* ids the thread's pin predicate protects

vars == <<baseVars, q, freq, hand, cur, budget, pinned>>

\* obj->queue.prev.
PrevOf(o) == LET p == PosOf(q, o) IN IF p = 1 THEN None ELSE q[p - 1]

Sieve_init ==
  /\ cache_struct_init
  /\ q = <<>>
  /\ freq = [o \in Obj |-> 0]
  /\ hand = None
  /\ cur = None
  /\ budget = 0
  /\ pinned = {}

Sieve_find(r) ==
  /\ GetHit(r)
  /\ freq' = [freq EXCEPT ![r.obj] = 1]
  /\ UNCHANGED <<q, hand, cur, budget, pinned>>

Sieve_insert ==
  /\ GetInsert
  /\ q' = prepend_obj_to_head(q, req.obj)
  /\ freq' = [freq EXCEPT ![req.obj] = 0]
  /\ UNCHANGED <<hand, cur, budget, pinned>>

\* Sieve_to_evict_with_freq from pointer, repeated with a larger to_evict_freq
\* until it finds something: among the objects with the smallest mark, the
\* first met from pointer to the head and then from the tail on.
ToEvictFrom(pointer) ==
  LET start == IF pointer = None THEN Len(q) ELSE PosOf(q, pointer)
      Met(i) == IF i <= start THEN start - i ELSE start + Len(q) - i
  IN q[CHOOSE i \in 1 .. Len(q) :
         \A j \in 1 .. Len(q) :
           \/ freq[q[i]] < freq[q[j]]
           \/ freq[q[i]] = freq[q[j]] /\ Met(i) <= Met(j)]

Sieve_to_evict == ToEvictFrom(hand)

\* The loops that call evict: cache_get_base's and dump_cached_obj_age's.
Evicting ==
  \/ pc = "room" /\ NeedEviction(req)
  \/ pc = "dump" /\ occupied > 0

Sieve_evict_begin ==
  /\ Evicting
  /\ cur = None
  /\ cur' = IF hand = None THEN TailOf(q) ELSE hand
  /\ budget' = nObj + 1
  /\ UNCHANGED <<baseVars, q, freq, hand, pinned>>

Mutant_step_without_budget ==
  /\ cur # None
  /\ \/ cur \in pinned /\ UNCHANGED freq
     \/ /\ cur \notin pinned
        /\ freq[cur] > 0
        /\ freq' = [freq EXCEPT ![cur] = @ - 1]
  /\ cur' = IF PrevOf(cur) = None THEN TailOf(q) ELSE PrevOf(cur)
  /\ UNCHANGED <<baseVars, q, hand, budget, pinned>>

\* One turn of the while (true) loop that does not break.
Sieve_evict_step ==
  /\ cur # None
  /\ \/ /\ cur \in pinned
        /\ budget - 1 > 0
        /\ budget' = budget - 1
        /\ UNCHANGED freq
     \/ /\ cur \notin pinned
        /\ freq[cur] > 0
        /\ freq' = [freq EXCEPT ![cur] = @ - 1]
        /\ UNCHANGED budget
  /\ cur' = IF PrevOf(cur) = None THEN TailOf(q) ELSE PrevOf(cur)
  /\ UNCHANGED <<baseVars, q, hand, pinned>>

\* The loop breaks at cur: it is evicted and the hand rests before it.
Sieve_evict_end ==
  /\ cur # None
  /\ \/ cur \in pinned /\ budget - 1 <= 0
     \/ cur \notin pinned /\ freq[cur] = 0
  /\ GetEvict(cur) \/ DumpEvict(cur)
  /\ hand' = PrevOf(cur)
  /\ q' = remove_obj_from_list(q, cur)
  /\ freq' = [freq EXCEPT ![cur] = 0]
  /\ cur' = None
  /\ budget' = 0
  /\ UNCHANGED pinned

Mutant_remove_keeps_hand(o) ==
  /\ Remove(o)
  /\ q' = remove_obj_from_list(q, o)
  /\ freq' = [freq EXCEPT ![o] = 0]
  /\ UNCHANGED <<hand, cur, budget, pinned>>

Sieve_remove(o) ==
  /\ Remove(o)
  /\ hand' = IF o = hand THEN PrevOf(o) ELSE hand
  /\ q' = remove_obj_from_list(q, o)
  /\ freq' = [freq EXCEPT ![o] = 0]
  /\ UNCHANGED <<cur, budget, pinned>>

\* cache_get_base up to its loop.
Sieve_get(r) ==
  \/ Sieve_find(r)
  \/ GetNoHit(r) /\ UNCHANGED <<q, freq, hand, cur, budget, pinned>>

\* The caller installs another pin predicate between two calls.
SetPins(P) ==
  /\ pc = "idle"
  /\ pinned' = P
  /\ UNCHANGED <<baseVars, q, freq, hand, cur, budget>>

Dump ==
  (DumpStart \/ DumpEnd) /\ UNCHANGED <<q, freq, hand, cur, budget, pinned>>

Next ==
  \/ \E r \in Request : Sieve_get(r)
  \/ Sieve_evict_begin
  \/ Sieve_evict_step
  \/ Sieve_evict_end
  \/ Sieve_insert
  \/ \E o \in resident : Sieve_remove(o)
  \/ \E P \in SUBSET Obj : SetPins(P)
  \/ Dump

Spec == Sieve_init /\ [][Next]_vars

\* The steps of a call in progress.
Running ==
  \/ Sieve_evict_begin
  \/ Sieve_evict_step
  \/ Sieve_evict_end
  \/ Sieve_insert
  \/ Dump /\ pc = "dump"

-----------------------------------------------------------------------------
\* What the properties of QueuePolicies say of Sieve.

\* Sieve_verify, and the hand: a raw pointer kept between evictions.
QueueIsTable ==
  /\ ObjsOf(q) = resident
  /\ Len(q) = Cardinality(resident)
  /\ {hand, cur} \subseteq resident \cup {None}

\* No step of the walk changes what to_evict answers from where it is, and
\* that object is the one that leaves.
ToEvictPredicts ==
  LET target == IF cur = None THEN Sieve_to_evict ELSE ToEvictFrom(cur) IN
  pinned = {} /\ Evicting =>
    IF cur' = None THEN resident' = resident \ {target}
                   ELSE ToEvictFrom(cur)' = target

\* The walk steps over pinned objects without clearing their marks.
PinnedUntouched ==
  pc # "idle" => \A o \in pinned \cap resident \cap resident' : freq'[o] = freq[o]
==============================================================================
