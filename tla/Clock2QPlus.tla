----------------------------- MODULE Clock2QPlus -----------------------------
(***************************************************************************)
(* Clock2QPlus.c: S3FIFO's queues and evictions with three changes.  Hits  *)
(* in the small queue (params->fifo) count only after the correlation      *)
(* window, the main queue has a 1-bit counter, and can_insert asks neither *)
(* the admissioner nor the size of the whole cache.                        *)
(***************************************************************************)
EXTENDS S3FIFO

CONSTANT CorrWindow   \* corr_window_size, rounded up to a number of objects

VARIABLE
  age   \* n_obj_admit_to_fifo - insertion_time of the objects in the small
        \* queue, up to CorrWindow

Clock2QPlus_init == S3FIFO_init /\ age = [o \in Obj |-> 0]

Clock2QPlus_find(r) ==
  LET o == r.obj
      inGhost == o \in ObjsOf(ghost) \ ObjsOf(small)
      counts == IF o \in ObjsOf(small) THEN age[o] >= CorrWindow ELSE o \in ObjsOf(main)
  IN
  /\ freq' = [freq EXCEPT ![o] = IF counts /\ @ < FreqCap THEN @ + 1 ELSE @]
  /\ hitOnGhost' = inGhost
  /\ ghost' = IF inGhost THEN remove_obj_from_list(ghost, o) ELSE ghost
  /\ size' = [size EXCEPT ![o] = IF o \in Resident THEN @ ELSE 0]
  /\ UNCHANGED <<small, main, hasEvicted, mode, pinned, age>>

Clock2QPlus_can_insert(r) == r.size <= SmallSize

Clock2QPlus_get(r) ==
  /\ pc = "idle"
  /\ Clock2QPlus_find(r)
  /\ IF r.obj \notin Resident /\ Clock2QPlus_can_insert(r)
       THEN pc' = "room" /\ req' = r
       ELSE UNCHANGED <<pc, req>>

\* S3FIFO_insert, and an insertion into the small queue makes the others there
\* one older.
Clock2QPlus_insert ==
  /\ S3FIFO_insert
  /\ age' = [o \in Obj |->
              IF small' = small \/ o \notin ObjsOf(small) THEN age[o]
              ELSE IF age[o] < CorrWindow THEN age[o] + 1 ELSE age[o]]

\* What leaves the small queue has no age.
Forget == age' = [o \in Obj |-> IF o \in ObjsOf(small') THEN age[o] ELSE 0]

\* The 1-bit counter: what is reinserted has used its hit up.
Clock2QPlus_evict_main_reinsert ==
  LET o == cache_skip_pinned(main, pinned) IN
  /\ mode = "main"
  /\ freq[o] >= 1
  /\ main' = move_obj_to_head(main, o)
  /\ freq' = [freq EXCEPT ![o] = 0]
  /\ UNCHANGED <<small, ghost, size, flags, pc, req, mode, pinned, age>>

Clock2QPlus_evict_main == S3FIFO_evict_main /\ UNCHANGED age

\* A promoted object starts in the main queue with a zeroed counter: main->insert
\* allocates it.
Clock2QPlus_evict_fifo ==
  /\ \/ S3FIFO_evict_small_promote
     \/ S3FIFO_evict_small_ghost
     \/ ghost_fifo_evict
     \/ ghost_fifo_insert
     \/ S3FIFO_evict_small_empty
  /\ Forget

Clock2QPlus_evict == S3FIFO_evict /\ UNCHANGED age

Clock2QPlus_remove(o) == S3FIFO_remove(o) /\ Forget

Clock2QPlus_dump == dump_cached_obj_age /\ UNCHANGED age

\* The steps of a call in progress.
Clock2QPlus_Running ==
  \/ Clock2QPlus_insert
  \/ Clock2QPlus_evict
  \/ Clock2QPlus_evict_fifo
  \/ Clock2QPlus_evict_main_reinsert
  \/ Clock2QPlus_evict_main
  \/ pc = "dump" /\ Clock2QPlus_dump

Clock2QPlus_Next ==
  \/ \E r \in Request : Clock2QPlus_get(r)
  \/ Clock2QPlus_Running
  \/ pc = "idle" /\ Clock2QPlus_dump
  \/ \E o \in Obj : Clock2QPlus_remove(o)
  \/ \E P \in PinSets : SetPins(P) /\ UNCHANGED age
==============================================================================
