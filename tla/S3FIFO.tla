------------------------------- MODULE S3FIFO --------------------------------
(***************************************************************************)
(* S3FIFO.c: a small and a main FIFO that share cache_size, and a ghost    *)
(* FIFO of what the small one evicted.  The three are FIFO caches of their *)
(* own (FIFO.tla); here each is its queue, and its occupied bytes are      *)
(* those of the queue, as BaseAccounting proves.  One call of evict is     *)
(* several actions: mode says in which of its loops it is.                 *)
(***************************************************************************)
EXTENDS Integers, FiniteSets, ObjList

CONSTANTS
  Obj, ReqSize, NoReq,
  PinSets,                          \* bound: what a pin predicate may protect
  SmallSize, MainSize, GhostSize,   \* cache_size of the three FIFOs
  Threshold,                        \* move_to_main_threshold
  FreqCap       \* counters saturate here: the code compares them with
                \* Threshold and takes MIN(freq, 3)

CacheSize == SmallSize + MainSize

Request == [obj : Obj, size : ReqSize]

VARIABLES
  small, main, ghost,   \* the three queues
  size,                 \* obj_size of the objects in any queue, else 0
  freq,                 \* obj->S3FIFO.freq of the objects in small and main
  hitOnGhost, hasEvicted,
  pc, req,              \* as in CacheBase
  mode,                 \* "none", "small", "ghost" or "main"
  pinned                \* ids the thread's pin predicate protects

queues == <<small, main, ghost, size, freq>>
flags == <<hitOnGhost, hasEvicted>>
vars == <<queues, flags, pc, req, mode, pinned>>

Resident == ObjsOf(small) \cup ObjsOf(main)

\* get_occupied_byte of a queue: one cell per byte (obj_md_size is 0).
Bytes(q) == Cardinality(UNION {{o} \X (1 .. size[o]) : o \in ObjsOf(q)})

S3FIFO_get_occupied_byte == Bytes(small) + Bytes(main)

S3FIFO_get_n_obj == Len(small) + Len(main)

S3FIFO_init ==
  /\ small = <<>> /\ main = <<>> /\ ghost = <<>>
  /\ size = [o \in Obj |-> 0]
  /\ freq = [o \in Obj |-> 0]
  /\ hitOnGhost = FALSE /\ hasEvicted = FALSE
  /\ pc = "idle" /\ req = NoReq
  /\ mode = "none"
  /\ pinned = {}

S3FIFO_can_insert(r, admit) ==
  /\ r.size <= SmallSize
  /\ admit /\ r.size <= CacheSize

Mutant_room_forgets_main == Bytes(small) + req.size > CacheSize

\* The condition of cache_get_base's loop.
NeedEviction == S3FIFO_get_occupied_byte + req.size > CacheSize

-----------------------------------------------------------------------------
\* cache_get_base up to its loop.

Mutant_find_keeps_ghost(r) ==
  /\ freq' = [freq EXCEPT ![r.obj] =
               IF r.obj \in Resident /\ @ < FreqCap THEN @ + 1 ELSE @]
  /\ hitOnGhost' = (r.obj \in ObjsOf(ghost) \ ObjsOf(small))
  /\ UNCHANGED <<small, main, ghost, size, hasEvicted, mode, pinned>>

\* A hit counts.  Unless the small queue holds the object, its id is taken
\* out of the ghost, and that is remembered for the insertion.
S3FIFO_find(r) ==
  LET inGhost == r.obj \in ObjsOf(ghost) \ ObjsOf(small) IN
  /\ freq' = [freq EXCEPT ![r.obj] =
               IF r.obj \in Resident /\ @ < FreqCap THEN @ + 1 ELSE @]
  /\ hitOnGhost' = inGhost
  /\ ghost' = IF inGhost THEN remove_obj_from_list(ghost, r.obj) ELSE ghost
  /\ size' = [size EXCEPT ![r.obj] = IF r.obj \in Resident THEN @ ELSE 0]
  /\ UNCHANGED <<small, main, hasEvicted, mode, pinned>>

S3FIFO_get(r) ==
  /\ pc = "idle"
  /\ S3FIFO_find(r)
  /\ \E admit \in BOOLEAN :
       IF r.obj \notin Resident /\ S3FIFO_can_insert(r, admit)
         THEN pc' = "room" /\ req' = r
         ELSE UNCHANGED <<pc, req>>

\* An object as large as the small queue is dropped here, unless the ghost
\* knew it.
S3FIFO_insert ==
  LET o == req.obj
      toMain == hitOnGhost \/ (~ hasEvicted /\ Bytes(small) >= SmallSize)
  IN
  /\ pc = "room" /\ mode = "none"
  /\ ~ NeedEviction
  /\ IF ~ hitOnGhost /\ req.size >= SmallSize
       THEN UNCHANGED <<small, main, size, freq>>
       ELSE /\ small' = IF toMain THEN small ELSE prepend_obj_to_head(small, o)
            /\ main' = IF toMain THEN prepend_obj_to_head(main, o) ELSE main
            /\ size' = [size EXCEPT ![o] = req.size]
            /\ freq' = [freq EXCEPT ![o] = 0]
  /\ hitOnGhost' = FALSE
  /\ pc' = "idle" /\ req' = NoReq
  /\ UNCHANGED <<ghost, hasEvicted, mode, pinned>>

-----------------------------------------------------------------------------
\* evict, called by the loop of cache_get_base or of dump_cached_obj_age.

S3FIFO_evict ==
  /\ mode = "none"
  /\ \/ pc = "room" /\ NeedEviction
     \/ pc = "dump" /\ S3FIFO_get_occupied_byte > 0
  /\ hasEvicted' = TRUE
  /\ mode' = IF Bytes(main) > MainSize \/ Bytes(small) = 0 THEN "main" ELSE "small"
  /\ UNCHANGED <<queues, hitOnGhost, pc, req, pinned>>

\* evict has returned.
Return == mode' = "none"

Mutant_promote_keeps_place ==
  LET o == cache_skip_pinned(small, pinned) IN
  /\ mode = "small"
  /\ small # <<>>
  /\ freq[o] >= Threshold
  /\ small' = move_obj_to_head(small, o)
  /\ UNCHANGED <<main, ghost, size, freq, flags, pc, req, mode, pinned>>

\* The turns of S3FIFO_evict_small's loop: the oldest object moves to the
\* main queue, or its id to the ghost.
S3FIFO_evict_small_promote ==
  LET o == cache_skip_pinned(small, pinned) IN
  /\ mode = "small"
  /\ small # <<>>
  /\ freq[o] >= Threshold
  /\ small' = remove_obj_from_list(small, o)
  /\ main' = prepend_obj_to_head(main, o)
  /\ freq' = [freq EXCEPT ![o] = 0]
  /\ UNCHANGED <<ghost, size, flags, pc, req, mode, pinned>>

S3FIFO_evict_small_ghost ==
  /\ mode = "small"
  /\ small # <<>>
  /\ freq[cache_skip_pinned(small, pinned)] < Threshold
  /\ mode' = "ghost"
  /\ UNCHANGED <<queues, flags, pc, req, pinned>>

GhostNeedsEviction(o) == size[o] <= GhostSize /\ Bytes(ghost) + size[o] > GhostSize

\* ghost_fifo->get: make room in the ghost, insert the id there if it fits,
\* and then take the object out of the small queue.
ghost_fifo_evict ==
  LET v == cache_skip_pinned(ghost, pinned) IN
  /\ mode = "ghost"
  /\ GhostNeedsEviction(cache_skip_pinned(small, pinned))
  /\ ghost' = remove_obj_from_list(ghost, v)
  /\ size' = [size EXCEPT ![v] = 0]
  /\ UNCHANGED <<small, main, freq, flags, pc, req, mode, pinned>>

ghost_fifo_insert ==
  LET o == cache_skip_pinned(small, pinned)
      fits == size[o] <= GhostSize
  IN
  /\ mode = "ghost"
  /\ ~ GhostNeedsEviction(o)
  /\ small' = remove_obj_from_list(small, o)
  /\ ghost' = IF fits THEN prepend_obj_to_head(ghost, o) ELSE ghost
  /\ size' = IF fits THEN size ELSE [size EXCEPT ![o] = 0]
  /\ freq' = [freq EXCEPT ![o] = 0]
  /\ Return
  /\ UNCHANGED <<main, flags, pc, req, pinned>>

\* S3FIFO_evict_small's loop ends because everything was promoted: this call
\* of evict has evicted nothing.
S3FIFO_evict_small_empty ==
  /\ mode = "small"
  /\ small = <<>>
  /\ Return
  /\ UNCHANGED <<queues, flags, pc, req, pinned>>

\* The turns of S3FIFO_evict_main's loop.
S3FIFO_evict_main_reinsert ==
  LET o == cache_skip_pinned(main, pinned) IN
  /\ mode = "main"
  /\ freq[o] >= 1
  /\ main' = move_obj_to_head(main, o)
  /\ freq' = [freq EXCEPT ![o] = (IF @ < 3 THEN @ ELSE 3) - 1]
  /\ UNCHANGED <<small, ghost, size, flags, pc, req, mode, pinned>>

S3FIFO_evict_main ==
  LET o == cache_skip_pinned(main, pinned) IN
  /\ mode = "main"
  /\ freq[o] = 0
  /\ main' = remove_obj_from_list(main, o)
  /\ size' = [size EXCEPT ![o] = 0]
  /\ Return
  /\ UNCHANGED <<small, ghost, freq, flags, pc, req, pinned>>

-----------------------------------------------------------------------------
\* The first of the three queues that knows the id gives it up.
S3FIFO_remove(o) ==
  LET In(q) == o \in ObjsOf(q)
      Without(q) == remove_obj_from_list(q, o)
  IN
  /\ pc = "idle"
  /\ \/ In(small) /\ small' = Without(small) /\ UNCHANGED <<ghost, main>>
     \/ ~ In(small) /\ In(ghost) /\ ghost' = Without(ghost) /\ UNCHANGED <<small, main>>
     \/ ~ In(small) /\ ~ In(ghost) /\ In(main) /\ main' = Without(main)
        /\ UNCHANGED <<small, ghost>>
  /\ size' = [size EXCEPT ![o] = 0]
  /\ freq' = [freq EXCEPT ![o] = 0]
  /\ UNCHANGED <<flags, pc, req, mode, pinned>>

\* The caller installs another pin predicate between two calls.
SetPins(P) ==
  /\ pc = "idle"
  /\ pinned' = P
  /\ UNCHANGED <<queues, flags, pc, req, mode>>

\* Evict until no byte is occupied.  The count of the calls, which its assertion
\* compares with the objects there were, is left out: a call that only promotes
\* evicts nothing.
dump_cached_obj_age ==
  /\ \/ pc = "idle" /\ pc' = "dump"
     \/ /\ pc = "dump" /\ mode = "none"
        /\ ~ S3FIFO_get_occupied_byte > 0
        /\ pc' = "idle"
  /\ UNCHANGED <<queues, flags, req, mode, pinned>>

Evicting ==
  \/ S3FIFO_evict
  \/ S3FIFO_evict_small_promote
  \/ S3FIFO_evict_small_ghost
  \/ ghost_fifo_evict
  \/ ghost_fifo_insert
  \/ S3FIFO_evict_small_empty
  \/ S3FIFO_evict_main_reinsert
  \/ S3FIFO_evict_main

\* The steps of a call in progress.
Running == Evicting \/ S3FIFO_insert \/ (pc = "dump" /\ dump_cached_obj_age)

Next ==
  \/ \E r \in Request : S3FIFO_get(r)
  \/ Running
  \/ pc = "idle" /\ dump_cached_obj_age
  \/ \E o \in Obj : S3FIFO_remove(o)
  \/ \E P \in PinSets : SetPins(P)
==============================================================================
