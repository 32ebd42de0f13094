------------------------------ MODULE CacheBase ------------------------------
(***************************************************************************)
(* The part of libCacheSim that every eviction algorithm shares: the       *)
(* bookkeeping of cache.c (hash table membership, occupied_byte, n_obj)    *)
(* and the control of its two loops that evict, cache_get_base and         *)
(* dump_cached_obj_age.                                                    *)
(*                                                                         *)
(* The module plays two roles.  An eviction algorithm EXTENDS it and       *)
(* conjoins its own queues to the actions below, as the C algorithms call  *)
(* the *_base functions.  Taken alone it is the abstract specification of  *)
(* a cache: the victim is any resident object.                             *)
(*                                                                         *)
(* An operator named Mutant_... is the definition that follows it with a   *)
(* plausible slip; no specification uses it.                               *)
(***************************************************************************)
EXTENDS Integers, FiniteSets

CONSTANTS
  Obj,        \* object ids
  CacheSize,  \* cache->cache_size, in bytes
  MdSize,     \* cache->obj_md_size, bytes of metadata charged per object
  ReqSize,    \* the sizes a request may carry
  NoReq       \* no request is being served

Request == [obj : Obj, size : ReqSize]

\* A request may carry size 0: ignore_size_zero_req, on by default, is an option,
\* and not every reader looks at it.
ASSUME BaseAssumption ==
  /\ CacheSize \in Nat
  /\ MdSize \in Nat
  /\ ReqSize \subseteq Nat
  /\ NoReq \notin Request

VARIABLES
  resident,   \* ids in the hash table whose bytes are charged to the cache
  objSize,    \* cache_obj->obj_size of the residents, 0 for the others
  occupied,   \* cache->occupied_byte
  nObj,       \* cache->n_obj
  pc,         \* "idle", "room" (cache_get_base's loop) or "dump"
  req,        \* the request being served while pc = "room"
  toDump      \* n_cached_obj - n_evicted_obj of dump_cached_obj_age

baseVars == <<resident, objSize, occupied, nObj, pc, req, toDump>>

Charge(s) == s + MdSize

-----------------------------------------------------------------------------
\* The *_base functions: what they do to the shared state.

cache_struct_init ==
  /\ resident = {}
  /\ objSize = [o \in Obj |-> 0]
  /\ occupied = 0
  /\ nObj = 0
  /\ pc = "idle"
  /\ req = NoReq
  /\ toDump = 0

cache_insert_base(r) ==
  /\ resident' = resident \cup {r.obj}
  /\ objSize' = [objSize EXCEPT ![r.obj] = r.size]
  /\ occupied' = occupied + Charge(r.size)
  /\ nObj' = nObj + 1

Mutant_remove_forgets_metadata(o) ==
  /\ resident' = resident \ {o}
  /\ objSize' = [objSize EXCEPT ![o] = 0]
  /\ occupied' = occupied - objSize[o]
  /\ nObj' = nObj - 1

cache_remove_obj_base(o) ==
  /\ resident' = resident \ {o}
  /\ objSize' = [objSize EXCEPT ![o] = 0]
  /\ occupied' = occupied - Charge(objSize[o])
  /\ nObj' = nObj - 1

cache_evict_base(o) == cache_remove_obj_base(o)

Mutant_can_insert_forgets_metadata(r, admit) ==
  /\ admit
  /\ ~ r.size > CacheSize

\* admit is the answer of the admissioner, TRUE when there is none.
cache_can_insert_default(r, admit) ==
  /\ admit
  /\ ~ Charge(r.size) > CacheSize

Mutant_room_forgets_metadata(r) == occupied + r.size > CacheSize

\* The condition of cache_get_base's "evict until there is room" loop.
NeedEviction(r) == occupied + Charge(r.size) > CacheSize

-----------------------------------------------------------------------------
\* cache_get_base, one action per step.  Hits and refused requests leave the
\* shared state alone: cache_find_base stores the request's next_access_vtime and
\* cost in the object and counts the access, and it does not touch obj_size, which
\* its doc comment says it updates (HitTakesSize in QueuePolicies).

GetHit(r) ==
  /\ pc = "idle"
  /\ r.obj \in resident
  /\ UNCHANGED baseVars

GetRefused(r, can_insert) ==
  /\ pc = "idle"
  /\ r.obj \notin resident
  /\ ~ can_insert
  /\ UNCHANGED baseVars

GetMiss(r, can_insert) ==
  /\ pc = "idle"
  /\ r.obj \notin resident
  /\ can_insert
  /\ pc' = "room"
  /\ req' = r
  /\ UNCHANGED <<resident, objSize, occupied, nObj, toDump>>

\* The lookup missed; can_insert is cache_can_insert_default.
GetNoHit(r) ==
  \E admit \in BOOLEAN :
    LET can_insert == cache_can_insert_default(r, admit) IN
    GetRefused(r, can_insert) \/ GetMiss(r, can_insert)

GetEvict(v) ==
  /\ pc = "room"
  /\ NeedEviction(req)
  /\ cache_evict_base(v)
  /\ UNCHANGED <<pc, req, toDump>>

GetInsert ==
  /\ pc = "room"
  /\ ~ NeedEviction(req)
  /\ cache_insert_base(req)
  /\ pc' = "idle"
  /\ req' = NoReq
  /\ UNCHANGED toDump

\* cache->insert may decline the object although can_insert agreed.
GetDropped ==
  /\ pc = "room"
  /\ ~ NeedEviction(req)
  /\ pc' = "idle"
  /\ req' = NoReq
  /\ UNCHANGED <<resident, objSize, occupied, nObj, toDump>>

\* cache->remove on an object the hash table holds.
Remove(o) ==
  /\ pc = "idle"
  /\ o \in resident
  /\ cache_remove_obj_base(o)
  /\ UNCHANGED <<pc, req, toDump>>

\* cache->evict called from anywhere else: by prefixsim's allocate, or by an
\* algorithm that makes room in one of its queues on a hit or an insertion.
EvictCall(v) ==
  /\ pc # "dump"
  /\ cache_evict_base(v)
  /\ UNCHANGED <<pc, req, toDump>>

\* dump_cached_obj_age: evict until no byte is occupied, counting.
DumpStart ==
  /\ pc = "idle"
  /\ pc' = "dump"
  /\ toDump' = nObj
  /\ UNCHANGED <<resident, objSize, occupied, nObj, req>>

DumpEvict(v) ==
  /\ pc = "dump"
  /\ occupied > 0
  /\ cache_evict_base(v)
  /\ toDump' = toDump - 1
  /\ UNCHANGED <<pc, req>>

DumpEnd ==
  /\ pc = "dump"
  /\ ~ occupied > 0
  /\ pc' = "idle"
  /\ toDump' = 0
  /\ UNCHANGED <<resident, objSize, occupied, nObj, req>>

-----------------------------------------------------------------------------
\* The abstract cache: any resident object may be the victim.

BaseNext ==
  \/ \E r \in Request : GetHit(r) \/ GetNoHit(r)
  \/ \E v \in resident : GetEvict(v) \/ DumpEvict(v) \/ Remove(v) \/ EvictCall(v)
  \/ GetInsert
  \/ GetDropped
  \/ DumpStart
  \/ DumpEnd

BaseSpec == cache_struct_init /\ [][BaseNext]_baseVars

-----------------------------------------------------------------------------
\* Properties.

\* The bytes the residents are charged, one cell <<o, i>> per byte.
CellsOf(R, size) == UNION {{o} \X (1 .. Charge(size[o])) : o \in R}

Cells == CellsOf(resident, objSize)

\* Every variable of the shared bookkeeping stays in its range, and a request
\* is pending exactly inside cache_get_base's loop.
BaseTypeOK ==
  /\ resident \subseteq Obj
  /\ objSize \in [Obj -> Nat]
  /\ occupied \in Int
  /\ nObj \in Int
  /\ pc \in {"idle", "room", "dump"}
  /\ req \in Request \cup {NoReq}
  /\ (pc = "room") <=> (req # NoReq)
  /\ toDump \in Int

\* occupied_byte and n_obj are maintained incrementally by insert, evict and
\* remove; they agree at all times with what the hash table really holds.
Accounting ==
  /\ occupied = Cardinality(Cells)
  /\ nObj = Cardinality(resident)

\* The cache never holds more bytes than cache_size, whatever the order of
\* gets, removes and evictions (the assertion SLRU, ARC, TwoQ and S3FIFO
\* repeat in their debug checks).
Capacity == occupied <= CacheSize

\* evict is never called on an empty cache (the DEBUG_ASSERT(q_tail != NULL)
\* of the algorithms): the loops of cache_get_base and dump_cached_obj_age
\* only ask for a victim while one exists.
EvictHasVictim ==
  (\/ pc = "room" /\ NeedEviction(req)
   \/ pc = "dump" /\ occupied > 0)
  => resident # {}

\* When dump_cached_obj_age's loop ends, all it has not evicted and counted are
\* objects that no byte is charged for (size 0, without metadata).
DumpLeavesUncharged ==
  (pc = "dump" /\ ~ occupied > 0) =>
    /\ toDump = Cardinality(resident)
    /\ \A o \in resident : Charge(objSize[o]) = 0

\* dump_cached_obj_age's assert(n_cached_obj == n_evicted_obj) holds when every
\* object is charged something: with metadata, or from a trace without size 0.
DumpCountsAll ==
  (\A s \in ReqSize : Charge(s) > 0) => ((pc = "dump" /\ ~ occupied > 0) => toDump = 0)

\* The inductive strengthening of the properties above: a pending request is a
\* miss that fits an empty cache, a resident has a size some request carried,
\* and the dump still has to evict exactly what the cache holds.
BaseInv ==
  /\ BaseTypeOK
  /\ IsFiniteSet(resident)
  /\ IsFiniteSet(Cells)
  /\ Accounting
  /\ Capacity
  /\ \A o \in resident : objSize[o] \in ReqSize
  /\ pc = "room" => req.obj \notin resident /\ Charge(req.size) <= CacheSize
  /\ pc = "dump" => toDump = nObj

\* A get that has to make room finishes, and so does dump_cached_obj_age: their
\* loops, which have no bound of their own, run out of bytes to evict.
CallsTerminate == (pc # "idle") ~> (pc = "idle")
==============================================================================
