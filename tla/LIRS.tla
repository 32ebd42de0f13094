-------------------------------- MODULE LIRS --------------------------------
(***************************************************************************)
(* LIRS.c: the recency stack S of LIR and HIR blocks, some of the latter   *)
(* no longer resident, the queue Q of the resident HIR blocks, and the     *)
(* list NH of the non-resident ones, all three LRU caches, with the        *)
(* counters kept beside them.  A block has size 1, as under prefixsim or   *)
(* with sizes ignored, and metadata is not charged.                        *)
(*                                                                         *)
(* A function of the C code is an operator on the record Now of the whole  *)
(* state; an action is a call that the driver of the cache makes.          *)
(***************************************************************************)
EXTENDS Integers, FiniteSets, ObjList

CONSTANTS
  LirsLimit,   \* lirs_limit = cache_size - hirs_limit
  HirsLimit    \* hirs_limit = MAX(1, 0.01 * cache_size)

\* With cache_size = 1 nothing fits the LIR blocks and can_insert refuses all.
ASSUME LIRSAssumption == LirsLimit \in Nat \ {0} /\ HirsLimit \in Nat \ {0}

cache_size == LirsLimit + HirsLimit

VARIABLES
  S, Q, NH,        \* the lists of LRU_s, LRU_q and LRU_nh, head first
  isLIR,           \* the blocks of S with LIRS.is_LIR
  inCache,         \* the blocks of S with LIRS.in_cache
  lirsCount, hirsCount, nonresident, occupied, nObj,
  inflight,        \* the blocks of the request being replayed
  getting,         \* the block for which cache_get_base makes room, as a set
  crashed          \* a NULL pointer was read

counts == <<lirsCount, hirsCount, nonresident, occupied, nObj>>
lirsVars == <<S, Q, NH, isLIR, inCache, counts, inflight, getting, crashed>>

LIRS_init ==
  /\ S = <<>> /\ Q = <<>> /\ NH = <<>>
  /\ isLIR = {} /\ inCache = {}
  /\ lirsCount = 0 /\ hirsCount = 0 /\ nonresident = 0 /\ occupied = 0 /\ nObj = 0
  /\ inflight = {} /\ getting = {} /\ crashed = FALSE

Now ==
  [s |-> S, q |-> Q, nh |-> NH, lir |-> isLIR, in |-> inCache, lirs |-> lirsCount,
   hirs |-> hirsCount, non |-> nonresident, occ |-> occupied, n |-> nObj, ok |-> ~ crashed]

Become(t) ==
  /\ S' = t.s /\ Q' = t.q /\ NH' = t.nh
  /\ isLIR' = t.lir /\ inCache' = t.in
  /\ lirsCount' = t.lirs /\ hirsCount' = t.hirs /\ nonresident' = t.non
  /\ occupied' = t.occ /\ nObj' = t.n
  /\ crashed' = ~ t.ok

\* LRU_remove: nothing happens to a block that is not there.
Drop(q, o) == IF o \in ObjsOf(q) THEN remove_obj_from_list(q, o) ELSE q

\* LRU_find with update_cache.
Touch(q, o) == IF o \in ObjsOf(q) THEN move_obj_to_head(q, o) ELSE q

\* LIRS_find without update_cache: what the cache says it holds.
Found(t) == t.in \cup (ObjsOf(t.q) \ ObjsOf(t.s))

NonResidentInS(t, o) == o \in ObjsOf(t.s) /\ o \notin t.in

-----------------------------------------------------------------------------
lirs_is_inflight(o) == o \in inflight

Mutant_evict_leaves_in_cache(t) ==
  LET v == TailOf(t.q)
      inS == v \in ObjsOf(t.s)
  IN
  IF t.q = <<>> THEN [t EXCEPT !.ok = FALSE]
  ELSE IF lirs_is_inflight(v) THEN t
  ELSE [t EXCEPT !.q = Drop(@, v), !.hirs = @ - 1,
                 !.nh = IF inS THEN prepend_obj_to_head(@, v) ELSE @,
                 !.non = IF inS THEN @ + 1 ELSE @,
                 !.occ = @ - 1, !.n = @ - 1]

\* The least recent block of Q leaves the cache, and stays in S, if it is
\* there, as a non-resident one.  Nothing happens if it is in flight.
evictHIR(t) ==
  LET v == TailOf(t.q)
      inS == v \in ObjsOf(t.s)
  IN
  IF t.q = <<>> THEN [t EXCEPT !.ok = FALSE]
  ELSE IF lirs_is_inflight(v) THEN t
  ELSE [t EXCEPT !.q = Drop(@, v), !.hirs = @ - 1, !.in = @ \ {v},
                 !.nh = IF inS THEN prepend_obj_to_head(@, v) ELSE @,
                 !.non = IF inS THEN @ + 1 ELSE @,
                 !.occ = @ - 1, !.n = @ - 1]

\* The loops "while (hirs_count + 1 > hirs_limit) if (!evictHIR) break".
RECURSIVE ShrinkHIR(_)
ShrinkHIR(t) ==
  LET u == evictHIR(t) IN
  IF t.hirs + 1 > HirsLimit /\ u # t THEN ShrinkHIR(u) ELSE t

\* S is cut below its deepest LIR block; its head always stays.
LIRS_prune(t) ==
  LET keep == CHOOSE k \in 0 .. Len(t.s) :
                /\ k >= (IF t.s = <<>> THEN 0 ELSE 1)
                /\ \A i \in k + 1 .. Len(t.s) : t.s[i] \notin t.lir
                /\ k > 1 => t.s[k] \in t.lir
      cut == {t.s[i] : i \in keep + 1 .. Len(t.s)}
      gone == (cut \ t.in) \cap ObjsOf(t.nh)
  IN [t EXCEPT !.s = SubSeq(@, 1, keep), !.in = @ \ cut,
               !.nh = SelectSeq(@, LAMBDA o : o \notin gone),
               !.non = @ - Cardinality(gone)]

\* The bottom of S, taken for an LIR block, becomes a resident HIR block.
evictLIR(t) ==
  LET v == TailOf(t.s)
      out == [t EXCEPT !.s = Drop(@, v), !.lir = @ \ {v}, !.in = @ \ {v},
                       !.lirs = @ - 1, !.occ = @ - 1, !.n = @ - 1]
      u == ShrinkHIR(out)
  IN
  IF t.s = <<>> THEN [t EXCEPT !.ok = FALSE]
  ELSE LIRS_prune([u EXCEPT !.q = prepend_obj_to_head(@, v), !.hirs = @ + 1,
                            !.occ = @ + 1, !.n = @ + 1])

\* The loops "while (lirs_count + 1 > lirs_limit) evictLIR".
RECURSIVE ShrinkLIR(_)
ShrinkLIR(t) ==
  IF t.ok /\ t.lirs + 1 > LirsLimit THEN ShrinkLIR(evictLIR(t)) ELSE t

-----------------------------------------------------------------------------
hit_RD_HIRinS(t, o) ==
  LET out == IF o \in ObjsOf(t.q)
               THEN [t EXCEPT !.q = Drop(@, o), !.hirs = @ - 1, !.occ = @ - 1, !.n = @ - 1]
               ELSE t
  IN [ShrinkLIR(out) EXCEPT !.lir = @ \cup {o}, !.lirs = @ + 1, !.occ = @ + 1, !.n = @ + 1]

\* The demotions may evict o itself from Q; the size read afterwards from the
\* freed object is that of a block all the same.
hit_RD_HIRinQ(t, o) ==
  [ShrinkLIR(t) EXCEPT !.s = prepend_obj_to_head(@, o), !.in = @ \cup {o}]

\* LIRS_find with update_cache; S and Q have moved o to their heads.
LIRS_find(o) ==
  LET t == [Now EXCEPT !.s = Touch(@, o), !.q = Touch(@, o)] IN
  CASE o \in isLIR -> LIRS_prune(t)
    [] o \in inCache \ isLIR -> hit_RD_HIRinS(t, o)
    [] o \in ObjsOf(Q) \ ObjsOf(S) -> hit_RD_HIRinQ(t, o)
    [] OTHER -> t

\* LIRS_can_insert makes room in the sets of blocks before it agrees.
LIRS_can_insert(t, o) ==
  IF NonResidentInS(t, o)
    THEN LET u == ShrinkLIR(t) IN
         [u EXCEPT !.nh = Drop(@, o),
                   !.non = IF o \in ObjsOf(u.nh) THEN @ - 1 ELSE @]
    ELSE IF t.lirs + 1 > LirsLimit THEN ShrinkHIR(t) ELSE t

LIRS_insert(t, o) ==
  LET in == [t EXCEPT !.in = @ \cup {o}, !.occ = @ + 1, !.n = @ + 1]
      new == [in EXCEPT !.s = prepend_obj_to_head(@, o)]
  IN
  IF NonResidentInS(t, o) THEN [in EXCEPT !.lir = @ \cup {o}, !.lirs = @ + 1]
  ELSE IF t.lirs + 1 <= LirsLimit THEN [new EXCEPT !.lir = @ \cup {o}, !.lirs = @ + 1]
  ELSE [new EXCEPT !.q = prepend_obj_to_head(@, o), !.hirs = @ + 1]

\* S holds at most 2 * cache_size blocks, as long as some are not resident.
RECURSIVE limitStack(_)
limitStack(t) ==
  LET v == TailOf(t.nh) IN
  IF Len(t.s) > 2 * cache_size /\ t.nh # <<>>
    THEN limitStack([t EXCEPT !.s = Drop(@, v), !.nh = Drop(@, v), !.non = @ - 1])
    ELSE t

-----------------------------------------------------------------------------
\* One step of the eviction state machine, by the status of o.
LIRS_evict_once(t, o) ==
  IF NonResidentInS(t, o) THEN evictLIR(ShrinkHIR(t))
  ELSE IF /\ o \notin ObjsOf(t.s) \cup ObjsOf(t.q)
          /\ t.lirs + 1 > LirsLimit /\ t.hirs + 1 > HirsLimit
         THEN evictHIR(t)
  ELSE t

Mutant_force_only_demotes(t) ==
  IF t.q # <<>> THEN evictHIR(t) ELSE IF t.lirs > 0 THEN evictLIR(t) ELSE t

\* A demoted block lands in Q, so that the loop of the source ends at once.
LIRS_force_evict_one(t) ==
  IF t.q # <<>> THEN evictHIR(t)
  ELSE IF t.lirs > 0 THEN evictHIR(evictLIR(t))
  ELSE t

\* Steps are repeated until the cache shrinks; one that leaves every counter
\* alone is followed by a forced eviction.
RECURSIVE EvictFrom(_, _, _)
EvictFrom(t, o, before) ==
  LET u == LIRS_evict_once(t, o) IN
  IF ~ u.ok \/ u.occ < before THEN u
  ELSE IF <<u.occ, u.lirs, u.hirs>> = <<t.occ, t.lirs, t.hirs>>
         THEN LIRS_force_evict_one(u)
  ELSE EvictFrom(u, o, before)

LIRS_evict(o) == EvictFrom(Now, o, occupied)

-----------------------------------------------------------------------------
\* LIRS_get: cache_get_base, then limitStack.  A miss may loop over LIRS_evict.

LIRS_get_find(o) ==
  LET hit == o \in Found(Now)
      t == LIRS_find(o)
  IN
  /\ getting = {} /\ ~ crashed
  /\ Become(IF hit THEN limitStack(t) ELSE LIRS_can_insert(t, o))
  /\ getting' = IF hit THEN {} ELSE {o}
  /\ UNCHANGED inflight

LIRS_get_room ==
  /\ ~ crashed
  /\ \E o \in getting :
       IF occupied + 1 > cache_size
         THEN Become(LIRS_evict(o)) /\ UNCHANGED getting
         ELSE Become(limitStack(LIRS_insert(Now, o))) /\ getting' = {}
  /\ UNCHANGED inflight

-----------------------------------------------------------------------------
\* What the properties of the modules that drive LIRS say of it.

\* The four counters are those of the lists, find reports exactly the blocks
\* that occupied_byte and n_obj count, a resident HIR block is in Q and a
\* non-resident one in NH.
Counted ==
  /\ lirsCount = Cardinality(isLIR)
  /\ hirsCount = Len(Q) /\ Len(Q) = Cardinality(ObjsOf(Q))
  /\ nonresident = Len(NH) /\ ObjsOf(NH) = (ObjsOf(S) \ inCache) \ getting
  /\ isLIR \subseteq inCache /\ inCache \subseteq ObjsOf(S)
  /\ inCache \ isLIR = ObjsOf(Q) \cap ObjsOf(S)
  /\ occupied = Cardinality(Found(Now)) /\ nObj = occupied

\* evictLIR is never asked to demote a block that is not LIR.
BottomIsLIR == Len(S) > 1 => TailOf(S) \in isLIR
==============================================================================
