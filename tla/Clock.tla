-------------------------------- MODULE Clock --------------------------------
(***************************************************************************)
(* Clock.c: a FIFO queue whose hits are remembered in a saturating         *)
(* counter.  Eviction takes the object nearest the tail that is not        *)
(* pinned; while its counter is positive the object is rewritten at the    *)
(* head with the counter decremented.  Each turn of that loop is one       *)
(* action.                                                                 *)
(***************************************************************************)
EXTENDS CacheBase, ObjList

CONSTANTS
  MaxFreq,    \* params->max_freq, 2^n_bit_counter - 1
  InitFreq    \* params->init_freq

VARIABLES
  q,       \* params->q_head .. params->q_tail
  freq,    \* obj->clock.freq of the residents, 0 for the others
  pinned   \* ids the thread's pin predicate protects

vars == <<baseVars, q, freq, pinned>>

Clock_init ==
  /\ cache_struct_init
  /\ q = <<>>
  /\ freq = [o \in Obj |-> 0]
  /\ pinned = {}

Clock_find(r) ==
  /\ GetHit(r)
  /\ freq' = [freq EXCEPT ![r.obj] = IF @ < MaxFreq THEN @ + 1 ELSE @]
  /\ UNCHANGED <<q, pinned>>

Clock_insert ==
  /\ GetInsert
  /\ q' = prepend_obj_to_head(q, req.obj)
  /\ freq' = [freq EXCEPT ![req.obj] = InitFreq]
  /\ UNCHANGED pinned

Mutant_to_evict_one_round ==
  q[CHOOSE i \in 1 .. Len(q) :
      \/ freq[q[i]] = 0 /\ \A j \in i + 1 .. Len(q) : freq[q[j]] > 0
      \/ (\A j \in 1 .. Len(q) : freq[q[j]] > 0) /\ i = Len(q)]

\* The scan from tail to head is repeated, with n_round one larger each time,
\* until freq - n_round < 1: it stops at the object nearest the tail among
\* those with the smallest counter.
Clock_to_evict ==
  q[CHOOSE i \in 1 .. Len(q) :
      /\ \A j \in 1 .. Len(q) : freq[q[i]] <= freq[q[j]]
      /\ \A j \in i + 1 .. Len(q) : freq[q[i]] < freq[q[j]]]

\* The loops that call evict: cache_get_base's and dump_cached_obj_age's.
Evicting ==
  \/ pc = "room" /\ NeedEviction(req)
  \/ pc = "dump" /\ occupied > 0

Clock_evict_rewrite ==
  LET o == cache_skip_pinned(q, pinned) IN
  /\ Evicting
  /\ freq[o] >= 1
  /\ freq' = [freq EXCEPT ![o] = @ - 1]
  /\ q' = move_obj_to_head(q, o)
  /\ UNCHANGED <<baseVars, pinned>>

Clock_evict ==
  LET o == cache_skip_pinned(q, pinned) IN
  /\ Evicting
  /\ freq[o] = 0
  /\ GetEvict(o) \/ DumpEvict(o)
  /\ q' = remove_obj_from_list(q, o)
  /\ UNCHANGED <<freq, pinned>>

Clock_remove(o) ==
  /\ Remove(o)
  /\ q' = remove_obj_from_list(q, o)
  /\ freq' = [freq EXCEPT ![o] = 0]
  /\ UNCHANGED pinned

\* cache_get_base up to its loop.
Clock_get(r) == Clock_find(r) \/ (GetNoHit(r) /\ UNCHANGED <<q, freq, pinned>>)

\* The caller installs another pin predicate between two calls.
SetPins(P) ==
  /\ pc = "idle"
  /\ pinned' = P
  /\ UNCHANGED <<baseVars, q, freq>>

Dump == (DumpStart \/ DumpEnd) /\ UNCHANGED <<q, freq, pinned>>

Next ==
  \/ \E r \in Request : Clock_get(r)
  \/ Clock_evict_rewrite
  \/ Clock_evict
  \/ Clock_insert
  \/ \E o \in resident : Clock_remove(o)
  \/ \E P \in SUBSET Obj : SetPins(P)
  \/ Dump

Spec == Clock_init /\ [][Next]_vars

\* The steps of a call in progress.
Running ==
  Clock_evict_rewrite \/ Clock_evict \/ Clock_insert \/ (Dump /\ pc = "dump")

-----------------------------------------------------------------------------
\* What the properties of QueuePolicies say of Clock.

QueueIsTable == ObjsOf(q) = resident /\ Len(q) = Cardinality(resident)

\* A rewrite leaves the answer of to_evict as it was; the eviction that ends
\* the rewriting takes that object.
ToEvictPredicts ==
  pinned = {} /\ Evicting =>
    IF Evicting' /\ resident' = resident
      THEN Clock_to_evict' = Clock_to_evict
      ELSE resident' = resident \ {Clock_to_evict}

\* The counter of a pinned object changes only when all objects are pinned.
PinnedUntouched ==
  pc # "idle" /\ ~ resident \subseteq pinned =>
    \A o \in pinned \cap resident : freq'[o] = freq[o]
==============================================================================
