------------------------------- MODULE WTinyLFU ------------------------------
(***************************************************************************)
(* WTinyLFU.c with main-cache=LRU: new objects enter a window LRU, and     *)
(* what the window gives up enters the main LRU, freely while that has     *)
(* room and else in exchange for a less frequent victim.  The frequencies  *)
(* are the estimates of a sketch (minimalIncrementCBF.c) in which any two  *)
(* ids may share counters: a comparison of two of them has either outcome. *)
(***************************************************************************)
EXTENDS Integers, FiniteSets, ObjList

CONSTANTS
  Obj, ReqSize, NoReq,
  PinSets,               \* as in S3FIFO
  WindowSize, MainSize   \* cache_size of the two LRUs

CacheSize == WindowSize + MainSize

Request == [obj : Obj, size : ReqSize]

VARIABLES
  window, main,        \* the two queues
  size,                \* obj_size of the objects in either, else 0
  pc, req, toDump,     \* as in CacheBase
  mode,                \* "none" or "evict"
  pinned               \* ids the thread's pin predicate protects

queues == <<window, main, size>>
vars == <<queues, pc, req, toDump, mode, pinned>>

Resident == ObjsOf(window) \cup ObjsOf(main)

\* get_occupied_byte of a queue (obj_md_size is 0).
Bytes(q) == Cardinality(UNION {{o} \X (1 .. size[o]) : o \in ObjsOf(q)})

WTinyLFU_get_occupied_byte == Bytes(window) + Bytes(main)

WTinyLFU_get_n_obj == Len(window) + Len(main)

WTinyLFU_init ==
  /\ window = <<>> /\ main = <<>>
  /\ size = [o \in Obj |-> 0]
  /\ pc = "idle" /\ req = NoReq /\ toDump = 0
  /\ mode = "none"
  /\ pinned = {}

\* An object must fit the window, which it enters, and the main cache.
WTinyLFU_can_insert(r, admit) ==
  /\ admit /\ r.size <= CacheSize
  /\ r.size <= WindowSize
  /\ r.size <= MainSize

\* The condition of cache_get_base's loop.
NeedEviction == WTinyLFU_get_occupied_byte + req.size > CacheSize

\* Both LRUs look the object up and promote it.
WTinyLFU_find(r) ==
  LET Touched(q) == IF r.obj \in ObjsOf(q) THEN move_obj_to_head(q, r.obj) ELSE q IN
  /\ window' = Touched(window)
  /\ main' = Touched(main)
  /\ UNCHANGED <<size, toDump, mode, pinned>>

WTinyLFU_get(r) ==
  /\ pc = "idle"
  /\ WTinyLFU_find(r)
  /\ \E admit \in BOOLEAN :
       IF r.obj \notin Resident /\ WTinyLFU_can_insert(r, admit)
         THEN pc' = "room" /\ req' = r
         ELSE UNCHANGED <<pc, req>>

\* Only the two LRUs together are known to have room.
WTinyLFU_insert ==
  /\ pc = "room" /\ mode = "none"
  /\ ~ NeedEviction
  /\ window' = prepend_obj_to_head(window, req.obj)
  /\ size' = [size EXCEPT ![req.obj] = req.size]
  /\ pc' = "idle" /\ req' = NoReq
  /\ UNCHANGED <<main, toDump, mode, pinned>>

-----------------------------------------------------------------------------
\* evict, called by the loop of cache_get_base or of dump_cached_obj_age, and
\* the turns of its own loop.
WTinyLFU_evict ==
  /\ mode = "none"
  /\ \/ pc = "room" /\ NeedEviction
     \/ pc = "dump" /\ WTinyLFU_get_occupied_byte > 0
  /\ mode' = "evict"
  /\ UNCHANGED <<queues, pc, req, toDump, pinned>>

\* evict has returned; dump_cached_obj_age counts its calls.
Return ==
  /\ mode' = "none"
  /\ toDump' = IF pc = "dump" THEN toDump - 1 ELSE toDump

WindowVictim == cache_skip_pinned(window, pinned)

MainVictim == cache_skip_pinned(main, pinned)

FitsMain == Bytes(main) + size[WindowVictim] <= MainSize

\* The main cache has room: the object moves, and nothing is evicted yet.
WTinyLFU_evict_admit ==
  /\ mode = "evict" /\ window # <<>>
  /\ FitsMain
  /\ window' = remove_obj_from_list(window, WindowVictim)
  /\ main' = prepend_obj_to_head(main, WindowVictim)
  /\ UNCHANGED <<size, pc, req, toDump, mode, pinned>>

\* The window's victim is more frequent: it takes the place of the main
\* cache's, whether or not that leaves the main cache within its size.
WTinyLFU_evict_exchange ==
  /\ mode = "evict" /\ window # <<>>
  /\ ~ FitsMain
  /\ window' = remove_obj_from_list(window, WindowVictim)
  /\ main' = prepend_obj_to_head(remove_obj_from_list(main, MainVictim), WindowVictim)
  /\ size' = [size EXCEPT ![MainVictim] = 0]
  /\ Return
  /\ UNCHANGED <<pc, req, pinned>>

WTinyLFU_evict_window ==
  /\ mode = "evict" /\ window # <<>>
  /\ ~ FitsMain
  /\ window' = remove_obj_from_list(window, WindowVictim)
  /\ size' = [size EXCEPT ![WindowVictim] = 0]
  /\ Return
  /\ UNCHANGED <<main, pc, req, pinned>>

\* The window is empty, perhaps because everything in it was admitted.
WTinyLFU_evict_main ==
  /\ mode = "evict" /\ window = <<>>
  /\ main' = remove_obj_from_list(main, MainVictim)
  /\ size' = [size EXCEPT ![MainVictim] = 0]
  /\ Return
  /\ UNCHANGED <<window, pc, req, pinned>>

-----------------------------------------------------------------------------
WTinyLFU_remove(o) ==
  /\ pc = "idle"
  /\ \/ /\ o \in ObjsOf(window)
        /\ window' = remove_obj_from_list(window, o)
        /\ UNCHANGED main
     \/ /\ o \in ObjsOf(main) \ ObjsOf(window)
        /\ main' = remove_obj_from_list(main, o)
        /\ UNCHANGED window
  /\ size' = [size EXCEPT ![o] = 0]
  /\ UNCHANGED <<pc, req, toDump, mode, pinned>>

\* The caller installs another pin predicate between two calls.
SetPins(P) ==
  /\ pc = "idle"
  /\ pinned' = P
  /\ UNCHANGED <<queues, pc, req, toDump, mode>>

dump_cached_obj_age ==
  /\ \/ pc = "idle" /\ pc' = "dump" /\ toDump' = WTinyLFU_get_n_obj
     \/ /\ pc = "dump" /\ mode = "none"
        /\ ~ WTinyLFU_get_occupied_byte > 0
        /\ pc' = "idle" /\ toDump' = 0
  /\ UNCHANGED <<queues, req, mode, pinned>>

\* The steps of a call in progress.
Running ==
  \/ WTinyLFU_insert
  \/ WTinyLFU_evict
  \/ WTinyLFU_evict_admit
  \/ WTinyLFU_evict_exchange
  \/ WTinyLFU_evict_window
  \/ WTinyLFU_evict_main
  \/ pc = "dump" /\ dump_cached_obj_age

Next ==
  \/ \E r \in Request : WTinyLFU_get(r)
  \/ Running
  \/ pc = "idle" /\ dump_cached_obj_age
  \/ \E o \in Obj : WTinyLFU_remove(o)
  \/ \E P \in PinSets : SetPins(P)
==============================================================================
