------------------------------- MODULE S3FIFOd -------------------------------
(***************************************************************************)
(* S3FIFOd.c with its default main cache, a Clock with a 2-bit counter:    *)
(* S3FIFO whose three sizes move with the hits on two logs, FIFO caches of *)
(* the ids that the small and the main queue evicted last.  The size of an *)
(* object is the same in all its requests.  One call of insert or evict is *)
(* several actions: mode says in which nested call it is.                  *)
(***************************************************************************)
EXTENDS Integers, FiniteSets, ObjList

CONSTANTS
  Obj, NoReq, NoObj,
  PinSets,            \* as in S3FIFO
  Sizes,              \* bound: the sizes the objects may have, [Obj -> ReqSize]
  SmallSize, MainSize,
  LogSize,            \* cache_size / 10
  MinSize,            \* cache_size / 100
  AdaptAfter          \* 100

CacheSize == SmallSize + MainSize

VARIABLES
  small, main, ghost,    \* the queues
  smallLog, mainLog,     \* small_eviction, main_eviction
  size,                  \* obj_size
  freq,                  \* obj->clock.freq of the objects in main, else 0
  cap,                   \* the three cache_size fields that move
  hits,                  \* small_eviction_hit, main_eviction_hit
  hitOnGhost,
  local,                 \* params->req_local->obj_id during a call
  pc, req,               \* as in CacheBase
  mode, pinned           \* as in S3FIFO

queues == <<small, main, ghost, smallLog, mainLog, size, freq>>
vars == <<queues, cap, hits, hitOnGhost, local, pc, req, mode, pinned>>

Resident == ObjsOf(small) \cup ObjsOf(main)

\* get_occupied_byte of a queue (obj_md_size is 0).
Bytes(q) == Cardinality(UNION {{o} \X (1 .. size[o]) : o \in ObjsOf(q)})

S3FIFOd_get_occupied_byte == Bytes(small) + Bytes(main)

S3FIFOd_init ==
  /\ small = <<>> /\ main = <<>> /\ ghost = <<>>
  /\ smallLog = <<>> /\ mainLog = <<>>
  /\ size \in Sizes
  /\ freq = [o \in Obj |-> 0]
  /\ cap = [small |-> SmallSize, main |-> MainSize, ghost |-> MainSize]
  /\ hits = [small |-> 0, main |-> 0]
  /\ hitOnGhost = FALSE
  /\ local = NoObj
  /\ pc = "idle" /\ req = NoReq
  /\ mode = "none"
  /\ pinned = {}

\* The condition of cache_get_base's loop.
NeedEviction == S3FIFOd_get_occupied_byte + req.size > CacheSize

-----------------------------------------------------------------------------
\* S3FIFOd_update_fifo_size: Step bytes change sides when one log is hit more
\* than twice as often as the other.
Step ==
  LET part == (IF cap.small < cap.main THEN cap.small ELSE cap.main) \div 1000 IN
  IF part > 1 THEN part ELSE 1

LogInUse == Bytes(mainLog) > 0

Adapting == hits.small + hits.main > AdaptAfter /\ LogInUse

S3FIFOd_update_fifo_size ==
  CASE Adapting /\ hits.small > 2 * hits.main /\ cap.main > MinSize ->
         [small |-> cap.small + Step, main |-> cap.main - Step, ghost |-> cap.ghost + Step]
    [] Adapting /\ hits.main > 2 * hits.small /\ cap.small > MinSize ->
         [small |-> cap.small - Step, main |-> cap.main + Step, ghost |-> cap.ghost - Step]
    [] OTHER -> cap

\* An int times 0.8, truncated.
AdaptedHits ==
  CASE ~ LogInUse -> [small |-> 0, main |-> 0]
    [] Adapting -> [small |-> (hits.small * 4) \div 5, main |-> (hits.main * 4) \div 5]
    [] OTHER -> hits

\* A hit in the small queue ends the lookup; otherwise ghost and logs forget the
\* id, and a hit on a log is counted.
S3FIFOd_find(o) ==
  LET inSmall == o \in ObjsOf(small)
      Known(q) == o \in ObjsOf(q) /\ ~ inSmall
      Forgot(q) == IF Known(q) THEN remove_obj_from_list(q, o) ELSE q
      One(q) == IF Known(q) THEN 1 ELSE 0
  IN
  /\ hitOnGhost' = Known(ghost)
  /\ ghost' = Forgot(ghost)
  /\ freq' = [freq EXCEPT ![o] = IF Known(main) /\ @ < 3 THEN @ + 1 ELSE @]
  /\ smallLog' = Forgot(smallLog)
  /\ mainLog' = Forgot(mainLog)
  /\ hits' = [small |-> AdaptedHits.small + One(smallLog),
              main |-> AdaptedHits.main + One(mainLog)]
  /\ UNCHANGED <<small, main, size, local, mode, pinned>>

S3FIFOd_can_insert(r, admit) == r.size <= cap'.small /\ admit /\ r.size <= CacheSize

S3FIFOd_get(o) ==
  LET r == [obj |-> o, size |-> size[o]] IN
  /\ pc = "idle"
  /\ cap' = S3FIFOd_update_fifo_size
  /\ S3FIFOd_find(o)
  /\ \E admit \in BOOLEAN :
       IF o \notin Resident /\ S3FIFOd_can_insert(r, admit)
         THEN pc' = "room" /\ req' = r
         ELSE UNCHANGED <<pc, req>>

S3FIFOd_insert ==
  /\ pc = "room" /\ mode = "none"
  /\ ~ NeedEviction
  /\ \/ /\ hitOnGhost
        /\ mode' = "insert"
        /\ UNCHANGED <<small, pc, req>>
     \/ /\ ~ hitOnGhost
        /\ small' = prepend_obj_to_head(small, req.obj)
        /\ pc' = "idle" /\ req' = NoReq
        /\ UNCHANGED mode
  /\ hitOnGhost' = FALSE
  /\ UNCHANGED <<main, ghost, smallLog, mainLog, size, freq, cap, hits, local, pinned>>
-----------------------------------------------------------------------------
\* get of one of the FIFOs of ids, for an object o and a cache_size c.
FifoNeedsEviction(q, o, c) ==
  o \notin ObjsOf(q) /\ size[o] <= c /\ Bytes(q) + size[o] > c

FifoEvicted(q) == remove_obj_from_list(q, cache_skip_pinned(q, pinned))

FifoInserted(q, o, c) ==
  IF o \in ObjsOf(q) \/ size[o] > c THEN q ELSE prepend_obj_to_head(q, o)

\* evict has returned.
Return ==
  /\ mode' = "none"
  /\ local' = NoObj

Mutant_to_evict_newest_of_ties ==
  main[CHOOSE i \in 1 .. Len(main) :
         /\ \A j \in 1 .. Len(main) : freq[main[i]] <= freq[main[j]]
         /\ \A j \in 1 .. i - 1 : freq[main[i]] < freq[main[j]]]

\* main_fifo->to_evict, Clock's, which ignores pins.
main_fifo_to_evict ==
  main[CHOOSE i \in 1 .. Len(main) :
         /\ \A j \in 1 .. Len(main) : freq[main[i]] <= freq[main[j]]
         /\ \A j \in i + 1 .. Len(main) : freq[main[i]] < freq[main[j]]]

\* evict, called by the loop of cache_get_base or of dump_cached_obj_age.
Evicting ==
  /\ mode = "none"
  /\ \/ pc = "room" /\ NeedEviction
     \/ pc = "dump" /\ S3FIFOd_get_occupied_byte > 0

S3FIFOd_evict_main ==
  /\ Evicting
  /\ Bytes(small) = 0
  /\ local' = main_fifo_to_evict
  /\ mode' = "log"
  /\ UNCHANGED <<queues, cap, hits, hitOnGhost, pc, req, pinned>>

\* obj->freq is read after small_fifo->remove has freed obj: it may be anything,
\* so the object is promoted or not whatever its hits were.
S3FIFOd_evict_small ==
  LET o == cache_skip_pinned(small, pinned) IN
  /\ Evicting
  /\ Bytes(small) > 0
  /\ small' = remove_obj_from_list(small, o)
  /\ \/ /\ main' = prepend_obj_to_head(main, o)
        /\ mode' = "shrink"
        /\ UNCHANGED local
     \/ /\ local' = o
        /\ mode' = "ghost"
        /\ UNCHANGED main
  /\ UNCHANGED <<ghost, smallLog, mainLog, size, freq, cap, hits, hitOnGhost, pc, req,
                 pinned>>

\* The loop after a promotion: main_fifo is brought back to its size.
S3FIFOd_shrink_main ==
  /\ mode = "shrink"
  /\ IF Bytes(main) > cap.main
       THEN /\ local' = main_fifo_to_evict
            /\ mode' = "shrinkLog"
       ELSE Return
  /\ UNCHANGED <<queues, cap, hits, hitOnGhost, pc, req, pinned>>

\* ghost->get and then small_eviction->get.
ghost_get ==
  /\ mode = "ghost"
  /\ IF FifoNeedsEviction(ghost, local, cap.ghost)
       THEN ghost' = FifoEvicted(ghost) /\ UNCHANGED mode
       ELSE ghost' = FifoInserted(ghost, local, cap.ghost) /\ mode' = "smallLog"
  /\ UNCHANGED <<small, main, smallLog, mainLog, size, freq, cap, hits, hitOnGhost, local,
                 pc, req, pinned>>

small_eviction_get ==
  /\ mode = "smallLog"
  /\ IF FifoNeedsEviction(smallLog, local, LogSize)
       THEN smallLog' = FifoEvicted(smallLog) /\ UNCHANGED <<mode, local>>
       ELSE smallLog' = FifoInserted(smallLog, local, LogSize) /\ Return
  /\ UNCHANGED <<small, main, ghost, mainLog, size, freq, cap, hits, hitOnGhost,
                 pc, req, pinned>>

main_eviction_get ==
  /\ mode \in {"log", "shrinkLog"}
  /\ IF FifoNeedsEviction(mainLog, local, LogSize)
       THEN mainLog' = FifoEvicted(mainLog) /\ UNCHANGED mode
       ELSE /\ mainLog' = FifoInserted(mainLog, local, LogSize)
            /\ mode' = IF mode = "log" THEN "evict" ELSE "shrinkEvict"
  /\ UNCHANGED <<small, main, ghost, smallLog, size, freq, cap, hits, hitOnGhost, local,
                 pc, req, pinned>>

-----------------------------------------------------------------------------
\* main_fifo->evict: the turns of Clock_evict's loop.  It is called by evict, by
\* the loop after a promotion, and by main_fifo->get for S3FIFOd_insert.
InsertNeedsEviction ==
  mode = "insert" /\ req.size <= cap.main /\ Bytes(main) + req.size > cap.main

main_fifo_evict_rewrite ==
  LET o == cache_skip_pinned(main, pinned) IN
  /\ mode \in {"evict", "shrinkEvict"} \/ InsertNeedsEviction
  /\ freq[o] >= 1
  /\ main' = move_obj_to_head(main, o)
  /\ freq' = [freq EXCEPT ![o] = @ - 1]
  /\ UNCHANGED <<small, ghost, smallLog, mainLog, size, cap, hits, hitOnGhost, local, pc,
                 req, mode, pinned>>

main_fifo_evict ==
  LET o == cache_skip_pinned(main, pinned) IN
  /\ mode \in {"evict", "shrinkEvict"} \/ InsertNeedsEviction
  /\ freq[o] = 0
  /\ main' = remove_obj_from_list(main, o)
  /\ \/ mode = "evict" /\ Return
     \/ mode = "shrinkEvict" /\ mode' = "shrink" /\ local' = NoObj
     \/ mode = "insert" /\ UNCHANGED <<mode, local>>
  /\ UNCHANGED <<small, ghost, smallLog, mainLog, size, freq, cap, hits, hitOnGhost, pc,
                 req, pinned>>

\* The end of S3FIFOd_insert.  It reads the object main_fifo->get should have
\* inserted: without one the program crashes.
main_fifo_get_insert ==
  /\ mode = "insert"
  /\ ~ InsertNeedsEviction
  /\ IF req.size <= cap.main
       THEN /\ main' = prepend_obj_to_head(main, req.obj)
            /\ pc' = "idle" /\ req' = NoReq
       ELSE pc' = "crashed" /\ UNCHANGED <<main, req>>
  /\ mode' = "none"
  /\ UNCHANGED <<small, ghost, smallLog, mainLog, size, freq, cap, hits, hitOnGhost, local,
                 pinned>>

-----------------------------------------------------------------------------
\* The first of small, ghost and main that knows the id gives it up; the logs
\* are not told.
S3FIFOd_remove(o) ==
  LET In(q) == o \in ObjsOf(q)
      Without(q) == remove_obj_from_list(q, o)
  IN
  /\ pc = "idle"
  /\ \/ In(small) /\ small' = Without(small) /\ UNCHANGED <<ghost, main>>
     \/ ~ In(small) /\ In(ghost) /\ ghost' = Without(ghost) /\ UNCHANGED <<small, main>>
     \/ ~ In(small) /\ ~ In(ghost) /\ In(main) /\ main' = Without(main)
        /\ UNCHANGED <<small, ghost>>
  /\ freq' = [freq EXCEPT ![o] = 0]
  /\ UNCHANGED <<smallLog, mainLog, size, cap, hits, hitOnGhost, local, pc, req, mode,
                 pinned>>

\* The caller installs another pin predicate between two calls.
SetPins(P) ==
  /\ pc = "idle"
  /\ pinned' = P
  /\ UNCHANGED <<queues, cap, hits, hitOnGhost, local, pc, req, mode>>

\* As in S3FIFO.
dump_cached_obj_age ==
  /\ \/ pc = "idle" /\ pc' = "dump"
     \/ /\ pc = "dump" /\ mode = "none"
        /\ ~ S3FIFOd_get_occupied_byte > 0
        /\ pc' = "idle"
  /\ UNCHANGED <<queues, cap, hits, hitOnGhost, local, req, mode, pinned>>

\* The steps of a call in progress.
Running ==
  \/ S3FIFOd_insert
  \/ S3FIFOd_evict_main
  \/ S3FIFOd_evict_small
  \/ S3FIFOd_shrink_main
  \/ ghost_get
  \/ small_eviction_get
  \/ main_eviction_get
  \/ main_fifo_evict_rewrite
  \/ main_fifo_evict
  \/ main_fifo_get_insert
  \/ pc = "dump" /\ dump_cached_obj_age

Next ==
  \/ \E o \in Obj : S3FIFOd_get(o)
  \/ Running
  \/ pc = "idle" /\ dump_cached_obj_age
  \/ \E o \in Obj : S3FIFOd_remove(o)
  \/ \E P \in PinSets : SetPins(P)
==============================================================================
