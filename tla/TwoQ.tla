-------------------------------- MODULE TwoQ ---------------------------------
(***************************************************************************)
(* TwoQ.c: new objects enter the FIFO Ain, what Ain evicts is remembered   *)
(* in the FIFO Aout, and an object requested while Aout remembers it       *)
(* enters the LRU Am.  As in S3FIFO.tla the three caches are their queues. *)
(* Am and Aout make room for themselves inside one call of TwoQ_insert or  *)
(* TwoQ_evict: mode says in which of them the thread is.                   *)
(***************************************************************************)
EXTENDS Integers, FiniteSets, ObjList

CONSTANTS
  Obj, ReqSize, NoReq,
  PinSets,                     \* as in S3FIFO
  AinSize, AmSize, AoutSize,   \* cache_size of the three caches
  AmMd    \* obj_md_size of Am: 16 bytes with consider_obj_metadata, else 0

CacheSize == AinSize + AmSize

Request == [obj : Obj, size : ReqSize]

VARIABLES
  ain, am, aout,       \* the three queues
  size,                \* obj_size of the objects in any queue, else 0
  hitOnGhost,
  pc, req, toDump,     \* as in CacheBase
  mode,                \* "none", "Am" or "Aout"
  pinned               \* ids the thread's pin predicate protects

queues == <<ain, am, aout, size>>
vars == <<queues, hitOnGhost, pc, req, toDump, mode, pinned>>

Resident == ObjsOf(ain) \cup ObjsOf(am)

\* get_occupied_byte of a queue with md bytes of metadata per object.
Bytes(q, md) == Cardinality(UNION {{o} \X (1 .. size[o] + md) : o \in ObjsOf(q)})

TwoQ_get_occupied_byte == Bytes(ain, 0) + Bytes(am, AmMd)

TwoQ_get_n_obj == Len(ain) + Len(am)

TwoQ_init ==
  /\ ain = <<>> /\ am = <<>> /\ aout = <<>>
  /\ size = [o \in Obj |-> 0]
  /\ hitOnGhost = FALSE
  /\ pc = "idle" /\ req = NoReq /\ toDump = 0
  /\ mode = "none"
  /\ pinned = {}

TwoQ_can_insert(r, admit) ==
  /\ r.size <= AinSize
  /\ admit /\ r.size <= CacheSize

\* The condition of cache_get_base's loop.
NeedEviction == TwoQ_get_occupied_byte + req.size > CacheSize

-----------------------------------------------------------------------------
\* A hit in Ain changes nothing, a hit in Am promotes.  Unless Ain holds the
\* object, Aout forgets it, and that is remembered for the insertion.
TwoQ_find(r) ==
  LET inAout == r.obj \in ObjsOf(aout) \ ObjsOf(ain) IN
  /\ am' = IF r.obj \in ObjsOf(am) \ ObjsOf(ain) THEN move_obj_to_head(am, r.obj) ELSE am
  /\ hitOnGhost' = inAout
  /\ aout' = IF inAout THEN remove_obj_from_list(aout, r.obj) ELSE aout
  /\ size' = [size EXCEPT ![r.obj] = IF r.obj \in Resident THEN @ ELSE 0]
  /\ UNCHANGED <<ain, toDump, mode, pinned>>

TwoQ_get(r) ==
  /\ pc = "idle"
  /\ TwoQ_find(r)
  /\ \E admit \in BOOLEAN :
       IF r.obj \notin Resident /\ TwoQ_can_insert(r, admit)
         THEN pc' = "room" /\ req' = r
         ELSE UNCHANGED <<pc, req>>

TwoQ_insert ==
  /\ pc = "room" /\ mode = "none"
  /\ ~ NeedEviction
  /\ \/ /\ hitOnGhost
        /\ mode' = "Am"
        /\ UNCHANGED <<ain, size, pc, req>>
     \/ /\ ~ hitOnGhost
        /\ ain' = prepend_obj_to_head(ain, req.obj)
        /\ size' = [size EXCEPT ![req.obj] = req.size]
        /\ pc' = "idle" /\ req' = NoReq
        /\ UNCHANGED mode
  /\ hitOnGhost' = FALSE
  /\ UNCHANGED <<am, aout, toDump, pinned>>

\* Am->get(req), a miss: Am makes room within its own size and inserts the
\* object, unless it is too large for Am.
AmCanInsert == req.size + AmMd <= AmSize

AmNeedsEviction == AmCanInsert /\ Bytes(am, AmMd) + req.size + AmMd > AmSize

Am_get_evict ==
  LET v == cache_skip_pinned(am, pinned) IN
  /\ mode = "Am"
  /\ AmNeedsEviction
  /\ am' = remove_obj_from_list(am, v)
  /\ size' = [size EXCEPT ![v] = 0]
  /\ UNCHANGED <<ain, aout, hitOnGhost, pc, req, toDump, mode, pinned>>

Am_get_insert ==
  /\ mode = "Am"
  /\ ~ AmNeedsEviction
  /\ IF AmCanInsert
       THEN /\ am' = prepend_obj_to_head(am, req.obj)
            /\ size' = [size EXCEPT ![req.obj] = req.size]
       ELSE UNCHANGED <<am, size>>
  /\ mode' = "none" /\ pc' = "idle" /\ req' = NoReq
  /\ UNCHANGED <<ain, aout, hitOnGhost, toDump, pinned>>

-----------------------------------------------------------------------------
\* evict, called by the loop of cache_get_base or of dump_cached_obj_age.

\* evict has returned; dump_cached_obj_age counts its calls.
Return ==
  /\ mode' = "none"
  /\ toDump' = IF pc = "dump" THEN toDump - 1 ELSE toDump

Evicting ==
  /\ mode = "none"
  /\ \/ pc = "room" /\ NeedEviction
     \/ pc = "dump" /\ TwoQ_get_occupied_byte > 0

VictimInAm == Bytes(am, AmMd) > 0 /\ Bytes(ain, 0) <= AinSize

TwoQ_evict_Am ==
  LET v == cache_skip_pinned(am, pinned) IN
  /\ Evicting
  /\ VictimInAm
  /\ am' = remove_obj_from_list(am, v)
  /\ size' = [size EXCEPT ![v] = 0]
  /\ Return
  /\ UNCHANGED <<ain, aout, hitOnGhost, pc, req, pinned>>

TwoQ_evict_Ain ==
  /\ Evicting
  /\ ~ VictimInAm
  /\ mode' = "Aout"
  /\ UNCHANGED <<queues, hitOnGhost, pc, req, toDump, pinned>>

AoutNeedsEviction(o) == size[o] <= AoutSize /\ Bytes(aout, 0) + size[o] > AoutSize

\* Aout->get: make room in Aout, insert the id there if it fits, and then let
\* Ain evict the object.
Aout_get_evict ==
  LET v == cache_skip_pinned(aout, pinned) IN
  /\ mode = "Aout"
  /\ AoutNeedsEviction(cache_skip_pinned(ain, pinned))
  /\ aout' = remove_obj_from_list(aout, v)
  /\ size' = [size EXCEPT ![v] = 0]
  /\ UNCHANGED <<ain, am, hitOnGhost, pc, req, toDump, mode, pinned>>

Mutant_Aout_grows ==
  LET o == cache_skip_pinned(ain, pinned) IN
  /\ mode = "Aout"
  /\ ain' = remove_obj_from_list(ain, o)
  /\ aout' = prepend_obj_to_head(aout, o)
  /\ Return
  /\ UNCHANGED <<am, size, hitOnGhost, pc, req, pinned>>

Aout_get_insert ==
  LET o == cache_skip_pinned(ain, pinned)
      fits == size[o] <= AoutSize
  IN
  /\ mode = "Aout"
  /\ ~ AoutNeedsEviction(o)
  /\ ain' = remove_obj_from_list(ain, o)
  /\ aout' = IF fits THEN prepend_obj_to_head(aout, o) ELSE aout
  /\ size' = IF fits THEN size ELSE [size EXCEPT ![o] = 0]
  /\ Return
  /\ UNCHANGED <<am, hitOnGhost, pc, req, pinned>>

-----------------------------------------------------------------------------
\* The first of the three queues that knows the id gives it up.
TwoQ_remove(o) ==
  LET In(q) == o \in ObjsOf(q)
      Without(q) == remove_obj_from_list(q, o)
  IN
  /\ pc = "idle"
  /\ \/ In(ain) /\ ain' = Without(ain) /\ UNCHANGED <<aout, am>>
     \/ ~ In(ain) /\ In(aout) /\ aout' = Without(aout) /\ UNCHANGED <<ain, am>>
     \/ ~ In(ain) /\ ~ In(aout) /\ In(am) /\ am' = Without(am) /\ UNCHANGED <<ain, aout>>
  /\ size' = [size EXCEPT ![o] = 0]
  /\ UNCHANGED <<hitOnGhost, pc, req, toDump, mode, pinned>>

\* The caller installs another pin predicate between two calls.
SetPins(P) ==
  /\ pc = "idle"
  /\ pinned' = P
  /\ UNCHANGED <<queues, hitOnGhost, pc, req, toDump, mode>>

dump_cached_obj_age ==
  /\ \/ pc = "idle" /\ pc' = "dump" /\ toDump' = TwoQ_get_n_obj
     \/ /\ pc = "dump" /\ mode = "none"
        /\ ~ TwoQ_get_occupied_byte > 0
        /\ pc' = "idle" /\ toDump' = 0
  /\ UNCHANGED <<queues, hitOnGhost, req, mode, pinned>>

\* The steps of a call in progress.
Running ==
  \/ TwoQ_insert
  \/ Am_get_evict
  \/ Am_get_insert
  \/ TwoQ_evict_Am
  \/ TwoQ_evict_Ain
  \/ Aout_get_evict
  \/ Aout_get_insert
  \/ pc = "dump" /\ dump_cached_obj_age

Next ==
  \/ \E r \in Request : TwoQ_get(r)
  \/ Running
  \/ pc = "idle" /\ dump_cached_obj_age
  \/ \E o \in Obj : TwoQ_remove(o)
  \/ \E P \in PinSets : SetPins(P)
==============================================================================
