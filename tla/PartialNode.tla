----------------------------- MODULE PartialNode -----------------------------
(***************************************************************************)
(* cpp/partialNodeCache.cpp: eviction of part of a node of the prefix      *)
(* tree, with or without a small admission queue in front of the tree.     *)
(* Blocks have size 1, so that small_bytes is the length of the queue.     *)
(*                                                                         *)
(* The scores of the derived classes are abstract: of the nodes that have  *)
(* one any may be the lowest, whether the pool is scanned or sampled.      *)
(***************************************************************************)
EXTENDS PrefixRadixTree

CONSTANTS
  PNBlocks,      \* the block ids
  PNSize,        \* cache_size
  PNParams,      \* the parameter records of this instance
  Threshold      \* move_to_main_threshold

\* tail: evict_from_tail; batch: micro_batch, 0 for the drain mode; small:
\* small_capacity, 0 without a small queue; ghost: the ghost's capacity.
ASSUME PNAssumption ==
  /\ PNSize \in Nat \ {0} /\ Threshold \in Nat
  /\ PNParams \subseteq [tail : BOOLEAN, batch : Nat, small : Nat, ghost : Nat]

VARIABLES
  pn,        \* the cache, as the record of PN_init
  pnParams

pnVars == <<pn, pnParams>>

\* used: freq of the blocks in the small queue, the only ones whose freq is read.
PN_init ==
  /\ pnParams \in PNParams
  /\ pn = [cached |-> {}, tree |-> EmptyTree, small |-> <<>>, ghost |-> <<>>,
           used |-> [b \in PNBlocks |-> 0], has_evicted |-> FALSE]

small_enabled == pnParams.small > 0

\* The ghost is a FIFO cache, which steps over pinned blocks like every other.
ghost_get(ghost, b, pinned) ==
  LET full == Len(ghost) + 1 > pnParams.ghost
      room == IF full THEN remove_obj_from_list(ghost, cache_skip_pinned(ghost, pinned))
                      ELSE ghost
  IN
  IF pnParams.ghost = 0 \/ b \in ObjsOf(ghost) THEN ghost
  ELSE prepend_obj_to_head(room, b)

\* Promotes from the small queue until a block is dropped or none is left.
RECURSIVE evict_small(_, _)
evict_small(p, pinned) ==
  LET b == Head(p.small)
      out == [p EXCEPT !.small = Tail(@), !.used[b] = 0]
  IN
  IF p.small = <<>> THEN p
  ELSE IF p.used[b] >= Threshold
    THEN evict_small([out EXCEPT !.tree = mark_resident(@, b)], pinned)
  ELSE [out EXCEPT !.ghost = ghost_get(@, b, pinned), !.cached = @ \ {b}]

main_occupied(p) == Cardinality(p.cached) - Len(p.small)

\* The set of caches that evict_orphans may leave: any_orphan is the first of an
\* unordered set.
RECURSIVE evict_orphans(_, _)
evict_orphans(p, n) ==
  IF n = 0 \/ p.tree.orphans = {} THEN {p}
  ELSE UNION {evict_orphans([p EXCEPT !.tree = mark_evicted(@, b), !.cached = @ \ {b}],
                            IF b \in p.cached THEN n - 1 ELSE n) : b \in p.tree.orphans}

\* The small queue is drained while the main set is within its share.
RECURSIVE DrainSmall(_, _, _)
DrainSmall(p, n, pinned) ==
  LET q == evict_small(p, pinned) IN
  IF /\ small_enabled /\ n > 0 /\ p.small # <<>>
     /\ main_occupied(p) <= PNSize - pnParams.small
    THEN IF q.cached = p.cached THEN q ELSE DrainSmall(q, n - 1, pinned)
    ELSE p

\* Whether the node gets a score: its canonical block is in the cache.
node_chunk_score(p, m, chunk) ==
  LET t == p.tree
      total == Len(t.blocks[m])
      first == first_resident_rank(t, m, pnParams.tail)
      rep == IF pnParams.batch > 0
               THEN canonical_resident(t, m, pnParams.tail, first + chunk \div 2, first)
               ELSE canonical_resident(t, m, pnParams.tail,
                                       (IF chunk < total THEN chunk ELSE total) \div 2, 0)
  IN t.n_resident[m] > 0 /\ rep # {} /\ rep \subseteq p.cached

\* The ids are collected before the first one goes: the last may prune the node.
RECURSIVE Take(_, _)
Take(p, ids) ==
  IF ids = <<>> THEN p
  ELSE Take(IF ids[1] \in p.cached
              THEN [p EXCEPT !.tree = mark_evicted(@, ids[1]), !.cached = @ \ {ids[1]}]
              ELSE p, Tail(ids))

take_from_node(p, m, max) == Take(p, collect_resident(p.tree, m, pnParams.tail, max))

\* The rounds of pn_evict_n, again as the set of their outcomes.
RECURSIVE Rounds(_, _, _)
Rounds(p, n, pinned) ==
  LET chunk == IF pnParams.batch > 0 /\ pnParams.batch < n THEN pnParams.batch ELSE n
      scored == {m \in ObjsOf(p.tree.sampleable) : node_chunk_score(p, m, chunk)}
      Goes(q) == IF q.cached = p.cached THEN {q}
                 ELSE Rounds(q, n - Cardinality(p.cached \ q.cached), pinned)
  IN
  IF n = 0 THEN {p}
  ELSE IF p.tree.sampleable = <<>> THEN Goes(evict_small(p, pinned))
  ELSE IF scored = {} THEN {p}
  ELSE UNION {Goes(take_from_node(p, m, chunk)) : m \in scored}

pn_evict_n(p, n, pinned) ==
  LET Left(q) == n - Cardinality(p.cached \ q.cached) IN
  UNION {LET r == DrainSmall(q, Left(q), pinned) IN Rounds(r, Left(r), pinned) :
           q \in evict_orphans([p EXCEPT !.has_evicted = TRUE], n)}

-----------------------------------------------------------------------------
\* pn_find with update_cache, on a hit and on a miss.

Hit(p, b) ==
  IF b \in ObjsOf(p.small) /\ p.used[b] < Threshold THEN [p EXCEPT !.used[b] = @ + 1] ELSE p

pn_insert(p, b, hit_on_ghost) ==
  LET in == [p EXCEPT !.cached = @ \cup {b}]
      to_main == \/ ~ small_enabled
                 \/ hit_on_ghost
                 \/ ~ p.has_evicted /\ Len(p.small) >= pnParams.small
  IN
  IF to_main THEN [in EXCEPT !.tree = mark_resident(@, b)]
  ELSE [in EXCEPT !.small = append_obj_to_tail(@, b)]

\* cache_get_base makes room until the block fits.
RECURSIVE MakeRoom(_)
MakeRoom(p) ==
  IF Cardinality(p.cached) + 1 <= PNSize THEN {p}
  ELSE UNION {MakeRoom(q) : q \in pn_evict_n(p, 1, {})}

\* pn_get as the set of its outcomes.  A ghost that knows the block forgets it.
pn_get(p, b) ==
  LET known == small_enabled /\ b \in ObjsOf(p.ghost)
      found == IF known THEN [p EXCEPT !.ghost = remove_obj_from_list(@, b)] ELSE p
  IN
  IF b \in p.cached THEN {Hit(p, b)} ELSE {pn_insert(q, b, known) : q \in MakeRoom(found)}

pn_remove(p, b) ==
  [p EXCEPT !.small = IF small_enabled /\ ~ is_resident(p.tree, b)
                        THEN remove_obj_from_list(@, b) ELSE @,
            !.used[b] = 0,
            !.tree = mark_evicted(@, b),
            !.cached = @ \ {b}]

pn_record_request(p, ids) == [p EXCEPT !.tree = add_sequence(@, ids)]

-----------------------------------------------------------------------------
\* What the properties of the modules that drive this cache say of it.

\* "The tree is told about every insert and every eviction, so it always knows":
\* a cached block is resident in the tree, an orphan, or in the small queue,
\* and in one of these only.
Tracked(p) ==
  /\ WellFormed(p.tree)
  /\ p.tree.resident \cup p.tree.orphans \cup ObjsOf(p.small) = p.cached
  /\ ObjsOf(p.small) \cap (p.tree.resident \cup p.tree.orphans) = {}
  /\ Len(p.small) = Cardinality(ObjsOf(p.small))
==============================================================================
