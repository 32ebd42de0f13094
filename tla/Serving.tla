------------------------------- MODULE Serving -------------------------------
(***************************************************************************)
(* prefixsim's simulator with the eviction algorithm it drives:            *)
(*  - the abstract one of PrefixSim;                                       *)
(*  - LIRS, whose own limit on the resident HIR blocks evicts during the   *)
(*    replay and which therefore protects the blocks of the request        *)
(*    (record_request and set_request_ctx);                                *)
(*  - a partial-node algorithm, which learns the paths of the requests     *)
(*    from record_request.                                                 *)
(* CachesimSpec is LIRS under cachesim, which calls neither hook.          *)
(***************************************************************************)
EXTENDS PrefixSim, LIRS, PartialNode

CONSTANTS
  Algos,   \* the algorithms of this instance: "any", "LIRS", "PartialNode"
  Paths,   \* the requests with prefix-unique ids, which PartialNode requires
  Library, \* the parameters with which calls other than prefixsim's are explored
  LIRSMaxLen \* bound: blocks in a request that LIRS serves (see Modest)

ASSUME ServingAssumption == Paths \subseteq Seq(PNBlocks) /\ Library \subseteq PNParams

VARIABLE algo

servingVars == <<vars, lirsVars, pnVars, algo>>

\* LIRS is not pin_safe, reports no victim and has no evict_n.
LIRSConfig ==
  [size |-> cache_size, pin |-> FALSE, honours |-> FALSE, observed |-> FALSE,
   unit |-> "block"]

\* The partial-node algorithms are pin_safe but do not look at the pins, evict
\* through cache_evict_base and have evict_n.
PNConfig ==
  [size : {PNSize}, pin : BOOLEAN, honours : {FALSE}, observed : {TRUE},
   unit : {"batch"}]

ServingInit ==
  /\ algo \in Algos
  /\ CASE algo = "any" -> config \in Config
       [] algo = "LIRS" -> config = LIRSConfig
       [] algo = "PartialNode" -> config \in PNConfig
  /\ Started
  /\ LIRS_init
  /\ PN_init
  /\ algo # "PartialNode" => pnParams = CHOOSE c \in PNParams : TRUE
  /\ algo = "PartialNode" /\ config.pin => small_enabled   \* only the ghost sees the pins

\* record_request, which serve calls between phases 2 and 3.
LIRS_record_request == inflight' = IF phase' = "access" THEN alpha' ELSE inflight

\* Requests that cannot turn over every LIR block of S.  From LirsLimit blocks on
\* phase 2 may demote them all; LIRS_prune leaves the head of S even when that is
\* a non-resident block, which ends up at the bottom, and evictLIR then takes it
\* for an LIR block and makes it resident again: LIRSConsistent does not hold.
Modest(blocks) == Len(blocks) <= LIRSMaxLen

Skipped(blocks) == Cardinality(BlocksOf(blocks)) > config.size

\* set_request_ctx empties the set before phase 1, unless the request is skipped.
ServeLIRS(blocks) ==
  /\ serve(blocks)
  /\ inflight' = IF phase' = "access" THEN alpha'
                 ELSE IF phase' = "allocate" THEN {}
                 ELSE inflight
  /\ UNCHANGED <<S, Q, NH, isLIR, inCache, counts, getting, crashed>>

\* The request evict is called with: the first block that phase 1 missed.
FirstMissing ==
  todo[CHOOSE i \in 1 .. Len(todo) :
         /\ todo[i] \notin alphaResident \cup selfEvicted
         /\ \A j \in 1 .. i - 1 : todo[j] \in alphaResident \cup selfEvicted]

AllocateLIRS ==
  /\ phase = "allocate" /\ ~ crashed
  /\ LET t == LIRS_evict(FirstMissing)
         victims == resident \ Found(t)
     IN /\ Become(t)
        /\ IF victims = {} THEN AllocateNothing ELSE AllocateUnobserved(victims)
  /\ LIRS_record_request
  /\ UNCHANGED getting

AccessLIRS ==
  /\ phase = "access" /\ todo # <<>>
  /\ LIRS_get_find(CurrentBlock) \/ LIRS_get_room
  /\ resident' = Found(Now)'
  /\ todo' = IF getting' = {} THEN SubSeq(todo, 1, Len(todo) - 1) ELSE todo
  /\ UNCHANGED <<config, phase, alpha, needed, progress, freed, attempts,
                 alphaResident, nEvict, nSelf, nUnexpected, selfEvicted>>

ServingLIRS == AllocateLIRS \/ AccessLIRS \/ (Verify /\ UNCHANGED lirsVars)

-----------------------------------------------------------------------------
\* The pins are installed for phase 2 alone.
Pins == IF config.pin THEN alpha ELSE {}

\* The path is recorded between phases 2 and 3.
PN_record_request(p, ids) == pn' = IF phase' = "access" THEN pn_record_request(p, ids) ELSE p

ServePN(ids) == serve(ids) /\ PN_record_request(pn, ids)

AllocatePN ==
  /\ phase = "allocate"
  /\ \E p \in pn_evict_n(pn, needed - progress, Pins) :
       /\ IF p.cached = resident THEN AllocateNothing ELSE AllocateObserved(resident \ p.cached)
       /\ PN_record_request(p, todo)

AccessPN ==
  /\ phase = "access" /\ todo # <<>>
  /\ pn' \in pn_get(pn, CurrentBlock)
  /\ resident' = pn'.cached
  /\ nUnexpected' = nUnexpected + Cardinality(resident \ resident')
  /\ todo' = SubSeq(todo, 1, Len(todo) - 1)
  /\ UNCHANGED <<config, phase, alpha, needed, progress, freed, attempts,
                 alphaResident, nEvict, nSelf, selfEvicted>>

ServingPN == AllocatePN \/ AccessPN \/ (Verify /\ UNCHANGED pn)

\* Between two requests the owner of the cache may ask for a block whose path
\* was not recorded, or remove one.
LibraryPN ==
  /\ phase = "idle" /\ pnParams \in Library
  /\ \E b \in PNBlocks :
       \/ pn' \in pn_get(pn, b)
       \/ b \in pn.cached /\ pn' = pn_remove(pn, b)
  /\ resident' = pn'.cached
  /\ UNCHANGED <<config, phase, alpha, todo, needed, progress, freed, attempts,
                 alphaResident, nEvict, nSelf, nUnexpected, selfEvicted>>

-----------------------------------------------------------------------------
\* A step of an algorithm that serves a request.
StepAny == algo = "any" /\ Serving /\ UNCHANGED <<algo, lirsVars, pnVars>>
StepLIRS == algo = "LIRS" /\ ServingLIRS /\ UNCHANGED <<algo, pnVars>>
StepPN == algo = "PartialNode" /\ ServingPN /\ UNCHANGED <<algo, lirsVars, pnParams>>

ServingNext ==
  \/ \E blocks \in Requests :
       \/ algo = "any" /\ serve(blocks) /\ UNCHANGED <<algo, lirsVars, pnVars>>
       \/ /\ algo = "LIRS" /\ (Modest(blocks) \/ Skipped(blocks)) /\ ServeLIRS(blocks)
          /\ UNCHANGED <<algo, pnVars>>
  \/ /\ algo = "PartialNode"
     /\ (\E ids \in Paths : ServePN(ids)) \/ LibraryPN
     /\ UNCHANGED <<algo, lirsVars, pnParams>>
  \/ StepAny
  \/ StepLIRS
  \/ StepPN

\* The simulator's only thread runs on.  That LIRS makes progress is a property
\* of its steps, LIRSProgress, and needs no fairness.
ServingSpec == ServingInit /\ [][ServingNext]_servingVars /\ WF_servingVars(StepAny)

\* cachesim asks for one object after the other.
CachesimNext ==
  /\ (\E o \in Block : LIRS_get_find(o)) \/ LIRS_get_room
  /\ resident' = Found(Now)'
  /\ UNCHANGED <<config, phase, alpha, todo, needed, progress, freed, attempts,
                 alphaResident, nEvict, nSelf, nUnexpected, selfEvicted, pnVars, algo>>

CachesimSpec == ServingInit /\ [][CachesimNext]_servingVars

-----------------------------------------------------------------------------
\* Properties, beside those of PrefixSim.

\* Nor does phase 2 evict more than it has to: when it had to evict at all, the
\* request exactly fills the cache.  The deficit is computed from two probes, and
\* again whenever blocks of the request were sacrificed; pn_evict_n, which drains
\* orphans, the small queue and then nodes, keeps to "a hard cap, not a hint"
\* (doc/advanced_lib.md:188).  It does not hold of the session_* algorithms, whose
\* evict_n ends with a whole session (sessionCache.cpp:169), nor of LIRS, where
\* one call of evict may free two blocks.
EvictsExactlyEnough ==
  (algo # "LIRS" /\ config.unit # "session" /\ phase = "access" /\ nEvict > 0) =>
    Cardinality(resident \cup alpha) = config.size

\* LIRS keeps a block in up to two lists and counts it in up to three counters,
\* and a hit, a demotion or an eviction in the middle of a replay moves it
\* between them: what find reports is at all times what occupied_byte and n_obj
\* count, and evictLIR finds an LIR block at the bottom of S.
LIRSConsistent == algo = "LIRS" => Counted /\ BottomIsLIR /\ ~ crashed

\* The prefix tree and the cache stay in step whatever is split, pruned, promoted
\* or adopted.  Without a small queue a call of evict_n therefore takes as many
\* blocks as it is asked for.
TreeTracksCache ==
  algo = "PartialNode" =>
    /\ Tracked(pn) /\ pn.cached = resident
    /\ ~ small_enabled =>
         \A n \in 1 .. Cardinality(resident) :
           \A p \in pn_evict_n(pn, n, Pins) : Cardinality(resident \ p.cached) = n

\* "If the small queue still holds something, fall back to it rather than
\* reporting no progress" (partialNodeCache.cpp:279): prefixsim never finds that
\* a partial-node algorithm evicted nothing.
PartialNodeProgress == algo = "PartialNode" => phase # "failed"

\* What find reports is what is counted.
LIRSCounts == occupied = Cardinality(Found(Now))

\* Every request is served, or given up as the code does: evicting blocks of
\* the request itself cannot go on for ever.
AnyTerminates == (algo = "any" /\ phase # "idle") ~> (phase \in {"idle", "failed"})

\* LIRS_evict "never returns without making progress" although several of its
\* steps only demote a block, and no call of get in a replay loops: what LIRS
\* does for a request either frees a block, or brings the next block in.
LIRSProgress ==
  [][algo = "LIRS" =>
       /\ phase = "allocate" => resident' # resident
       /\ phase = "access" /\ phase' = "access" =>
            Len(todo') < Len(todo) \/ (getting = {} /\ getting' # {})]_servingVars
==============================================================================
