-------------------------------- MODULE QDLP ---------------------------------
(***************************************************************************)
(* QDLP.c with its default main cache, a Clock with a 2-bit counter: the   *)
(* queues, lookups and the ghost of S3FIFO, but the main cache is entered  *)
(* with main_cache->get, which makes room for itself.  One call of insert  *)
(* or evict therefore runs Clock's eviction loop: mode says for whom.      *)
(* freq is obj->freq in the small queue and obj->clock.freq in the main.   *)
(***************************************************************************)
EXTENDS S3FIFO

MaxFreq == 3    \* n-bit-counter=2

QDLP_find(r) ==
  LET inGhost == r.obj \in ObjsOf(ghost) \ ObjsOf(small)
      cap == IF r.obj \in ObjsOf(small) THEN FreqCap ELSE MaxFreq
  IN
  /\ freq' = [freq EXCEPT ![r.obj] = IF r.obj \in Resident /\ @ < cap THEN @ + 1 ELSE @]
  /\ hitOnGhost' = inGhost
  /\ ghost' = IF inGhost THEN remove_obj_from_list(ghost, r.obj) ELSE ghost
  /\ size' = [size EXCEPT ![r.obj] = IF r.obj \in Resident THEN @ ELSE 0]
  /\ UNCHANGED <<small, main, hasEvicted, mode, pinned>>

\* The same two conditions as S3FIFO's.
QDLP_can_insert(r, admit) == S3FIFO_can_insert(r, admit)

QDLP_get(r) ==
  /\ pc = "idle"
  /\ QDLP_find(r)
  /\ \E admit \in BOOLEAN :
       IF r.obj \notin Resident /\ QDLP_can_insert(r, admit)
         THEN pc' = "room" /\ req' = r
         ELSE UNCHANGED <<pc, req>>

\* What the ghost knew goes through main_cache->get; the rest enters the small
\* queue, or is dropped when it is as large as that.
QDLP_insert ==
  LET o == req.obj IN
  /\ pc = "room" /\ mode = "none"
  /\ ~ NeedEviction
  /\ \/ /\ hitOnGhost
        /\ mode' = "insert"
        /\ UNCHANGED <<small, size, freq, pc, req>>
     \/ /\ ~ hitOnGhost
        /\ IF req.size >= SmallSize
             THEN UNCHANGED <<small, size, freq>>
             ELSE /\ small' = prepend_obj_to_head(small, o)
                  /\ size' = [size EXCEPT ![o] = req.size]
                  /\ freq' = [freq EXCEPT ![o] = 0]
        /\ pc' = "idle" /\ req' = NoReq
        /\ UNCHANGED mode
  /\ hitOnGhost' = FALSE
  /\ UNCHANGED <<main, ghost, hasEvicted, pinned>>

-----------------------------------------------------------------------------
\* main_cache->get, for the request ("insert") or for the oldest object of the
\* small queue ("promote"), and main_cache->evict ("main").

Victim == cache_skip_pinned(small, pinned)

Incoming == IF mode = "insert" THEN req ELSE [obj |-> Victim, size |-> size[Victim]]

MainCanInsert == Incoming.size <= MainSize

MainNeedsEviction ==
  \/ mode = "main"
  \/ /\ mode \in {"insert", "promote"}
     /\ MainCanInsert
     /\ Bytes(main) + Incoming.size > MainSize

\* The turns of Clock_evict's loop.
main_cache_evict_rewrite ==
  LET o == cache_skip_pinned(main, pinned) IN
  /\ MainNeedsEviction
  /\ freq[o] >= 1
  /\ main' = move_obj_to_head(main, o)
  /\ freq' = [freq EXCEPT ![o] = @ - 1]
  /\ UNCHANGED <<small, ghost, size, flags, pc, req, mode, pinned>>

main_cache_evict ==
  LET o == cache_skip_pinned(main, pinned) IN
  /\ MainNeedsEviction
  /\ freq[o] = 0
  /\ main' = remove_obj_from_list(main, o)
  /\ size' = [size EXCEPT ![o] = 0]
  /\ IF mode = "main" THEN Return ELSE UNCHANGED mode
  /\ UNCHANGED <<small, ghost, freq, flags, pc, req, pinned>>

\* The end of QDLP_insert.  It reads the object main_cache->get should have
\* inserted: without one the program crashes.
main_cache_get_insert ==
  /\ mode = "insert"
  /\ ~ MainNeedsEviction
  /\ IF MainCanInsert
       THEN /\ main' = prepend_obj_to_head(main, req.obj)
            /\ size' = [size EXCEPT ![req.obj] = req.size]
            /\ freq' = [freq EXCEPT ![req.obj] = 0]
            /\ pc' = "idle" /\ req' = NoReq
       ELSE /\ pc' = "crashed"
            /\ UNCHANGED <<main, size, freq, req>>
  /\ mode' = "none"
  /\ UNCHANGED <<small, ghost, flags, pinned>>

-----------------------------------------------------------------------------
\* evict, called by the loop of cache_get_base or of dump_cached_obj_age.
QDLP_evict ==
  /\ mode = "none"
  /\ \/ pc = "room" /\ NeedEviction
     \/ pc = "dump" /\ S3FIFO_get_occupied_byte > 0
  /\ mode' = IF Bytes(small) = 0 THEN "main"
             ELSE IF freq[Victim] >= Threshold THEN "promote" ELSE "ghost"
  /\ UNCHANGED <<queues, flags, pc, req, pinned>>

\* main_cache->get has made room: it inserts the object if it can, and
\* small_cache->evict takes it out of the small queue.
QDLP_evict_promote ==
  LET o == Victim IN
  /\ mode = "promote"
  /\ ~ MainNeedsEviction
  /\ small' = remove_obj_from_list(small, o)
  /\ main' = IF MainCanInsert THEN prepend_obj_to_head(main, o) ELSE main
  /\ size' = IF MainCanInsert THEN size ELSE [size EXCEPT ![o] = 0]
  /\ freq' = [freq EXCEPT ![o] = 0]
  /\ Return
  /\ UNCHANGED <<ghost, flags, pc, req, pinned>>

\* The steps of a call in progress; ghost_cache->get is S3FIFO's.
QDLP_Running ==
  \/ QDLP_insert
  \/ main_cache_evict_rewrite
  \/ main_cache_evict
  \/ main_cache_get_insert
  \/ QDLP_evict
  \/ QDLP_evict_promote
  \/ ghost_fifo_evict
  \/ ghost_fifo_insert
  \/ pc = "dump" /\ dump_cached_obj_age

\* The first of the three caches that knows the id gives it up.
QDLP_remove(o) == S3FIFO_remove(o)

QDLP_Next ==
  \/ \E r \in Request : QDLP_get(r)
  \/ QDLP_Running
  \/ pc = "idle" /\ dump_cached_obj_age
  \/ \E o \in Obj : QDLP_remove(o)
  \/ \E P \in PinSets : SetPins(P)
==============================================================================
