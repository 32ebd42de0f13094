--------------------------- MODULE PrefixRadixTree ---------------------------
(***************************************************************************)
(* cpp/prefixRadixTree.cpp: the path-compressed prefix tree over block     *)
(* ids.  A tree is a record; a method is an operator from trees to trees.  *)
(*                                                                         *)
(* Ids are prefix-unique, as the tree demands: the blocks before a block   *)
(* on a path are always the same.  A block then lies in at most one node,  *)
(* so that a node is named by its first block, under which its parent      *)
(* lists it, and the residency flags are a set of blocks.                  *)
(***************************************************************************)
EXTENDS Integers, FiniteSets, Sequences, TLC, ObjList

Root == "root_"

EmptyTree ==
  [blocks |-> <<>>,            \* node -> its run of blocks
   resident |-> {},            \* the blocks whose flag is set
   n_resident |-> <<>>,        \* node -> how many of its flags are set
   parent |-> <<>>,            \* node -> node
   children |-> Root :> {},    \* node -> nodes
   sample_idx |-> <<>>,        \* node -> its place in sampleable, or -1
   index |-> <<>>,             \* block -> its node and its position there
   sampleable |-> <<>>,        \* the nodes with a resident block
   orphans |-> {}]             \* resident blocks that have no node

Without(f, S) == [x \in DOMAIN f \ S |-> f[x]]

\* A node enters sampleable at the end; the last one fills the hole of a node
\* that leaves.
refresh_sampleable(t, n) ==
  LET hole == t.sample_idx[n]
      last == TailOf(t.sampleable)
      filled == [t.sampleable EXCEPT ![hole + 1] = last]
  IN
  CASE t.n_resident[n] > 0 /\ t.sample_idx[n] < 0 ->
         [t EXCEPT !.sample_idx[n] = Len(t.sampleable), !.sampleable = Append(@, n)]
    [] t.n_resident[n] = 0 /\ t.sample_idx[n] >= 0 ->
         [t EXCEPT !.sampleable = SubSeq(filled, 1, Len(filled) - 1),
                   !.sample_idx = [@ EXCEPT ![last] = hole, ![n] = -1]]
    [] OTHER -> t

\* A block that is indexed already keeps its old place (n_ambiguous_); an orphan
\* is adopted.
new_node(t, up, ids) ==
  LET n == ids[1]
      fresh == ObjsOf(ids) \ DOMAIN t.index
      adopted == fresh \cap t.orphans
  IN refresh_sampleable(
       [t EXCEPT !.blocks = n :> ids @@ @,
                 !.resident = @ \cup adopted,
                 !.n_resident = n :> Cardinality(adopted) @@ @,
                 !.parent = n :> up @@ @,
                 !.children = n :> {} @@ @,
                 !.sample_idx = n :> -1 @@ @,
                 !.index = [b \in fresh |-> [node |-> n, pos |-> PosOf(ids, b)]] @@ @,
                 !.orphans = @ \ adopted], n)

\* A plausible slip: the blocks below the split are not re-homed.
Mutant_split_keeps_homes(t, n, at) ==
  LET head == SubSeq(t.blocks[n], 1, at)
      rest == SubSeq(t.blocks[n], at + 1, Len(t.blocks[n]))
      s == rest[1]
      split ==
        [t EXCEPT
           !.blocks = s :> rest @@ [@ EXCEPT ![n] = head],
           !.n_resident = s :> Cardinality(ObjsOf(rest) \cap t.resident)
                          @@ [@ EXCEPT ![n] = Cardinality(ObjsOf(head) \cap t.resident)],
           !.parent = s :> n @@ [m \in DOMAIN @ |-> IF m \in t.children[n] THEN s ELSE @[m]],
           !.children = s :> t.children[n] @@ [@ EXCEPT ![n] = {s}],
           !.sample_idx = s :> -1 @@ @]
  IN refresh_sampleable(refresh_sampleable(split, n), s)

\* n keeps its first at blocks; a new node below it takes the others, with the
\* children of n.
split_node(t, n, at) ==
  LET head == SubSeq(t.blocks[n], 1, at)
      rest == SubSeq(t.blocks[n], at + 1, Len(t.blocks[n]))
      s == rest[1]
      InNode(b) == b \in ObjsOf(rest) /\ t.index[b].node = n
      split ==
        [t EXCEPT
           !.blocks = s :> rest @@ [@ EXCEPT ![n] = head],
           !.n_resident = s :> Cardinality(ObjsOf(rest) \cap t.resident)
                          @@ [@ EXCEPT ![n] = Cardinality(ObjsOf(head) \cap t.resident)],
           !.parent = s :> n @@ [m \in DOMAIN @ |-> IF m \in t.children[n] THEN s ELSE @[m]],
           !.children = s :> t.children[n] @@ [@ EXCEPT ![n] = {s}],
           !.sample_idx = s :> -1 @@ @,
           !.index = [b \in DOMAIN @ |->
                        IF InNode(b) THEN [node |-> s, pos |-> PosOf(rest, b)] ELSE @[b]]]
  IN refresh_sampleable(refresh_sampleable(split, n), s)

\* How far two sequences agree.
Shared(a, b) ==
  Cardinality({k \in 1 .. Len(a) : k <= Len(b) /\ SubSeq(a, 1, k) = SubSeq(b, 1, k)})

RECURSIVE AddBelow(_, _, _)
AddBelow(t, cur, ids) ==
  IF ids = <<>> THEN t
  ELSE IF ids[1] \notin t.children[cur]
    THEN [new_node(t, cur, ids) EXCEPT !.children[cur] = @ \cup {ids[1]}]
  ELSE LET child == ids[1]
           j == Shared(t.blocks[child], ids)
           u == IF j < Len(t.blocks[child]) THEN split_node(t, child, j) ELSE t
       IN AddBelow(u, child, SubSeq(ids, j + 1, Len(ids)))

add_sequence(t, ids) == AddBelow(t, Root, ids)

mark_resident(t, b) ==
  IF b \notin DOMAIN t.index THEN [t EXCEPT !.orphans = @ \cup {b}]
  ELSE IF b \in t.resident THEN t
  ELSE LET n == t.index[b].node IN
       refresh_sampleable([t EXCEPT !.resident = @ \cup {b}, !.n_resident[n] = @ + 1], n)

\* A leaf without a resident block goes, and then its parent if it is one now.
RECURSIVE prune_if_empty_leaf(_, _)
prune_if_empty_leaf(t, n) ==
  IF n = Root \/ t.children[n] # {} THEN t
  ELSE IF t.n_resident[n] > 0 THEN t
  ELSE LET up == t.parent[n]
           own == {b \in ObjsOf(t.blocks[n]) \cap DOMAIN t.index : t.index[b].node = n}
       IN prune_if_empty_leaf(
            [t EXCEPT !.blocks = Without(@, {n}),
                      !.n_resident = Without(@, {n}),
                      !.parent = Without(@, {n}),
                      !.children = [Without(@, {n}) EXCEPT ![up] = @ \ {n}],
                      !.sample_idx = Without(@, {n}),
                      !.index = Without(@, own)], up)

mark_evicted(t, b) ==
  LET u == [t EXCEPT !.orphans = @ \ {b}] IN
  IF b \notin t.resident THEN u
  ELSE LET n == t.index[b].node IN
       prune_if_empty_leaf(
         refresh_sampleable([u EXCEPT !.resident = @ \ {b}, !.n_resident[n] = @ - 1], n), n)

is_resident(t, b) == b \in t.resident \cup t.orphans

-----------------------------------------------------------------------------
\* A node in the order in which eviction takes its blocks.

TakeOrder(t, n, tail) ==
  LET run == t.blocks[n] IN
  IF tail THEN [k \in 1 .. Len(run) |-> run[Len(run) + 1 - k]] ELSE run

\* The resident block nearest rank start and not below rank lo, the lower one of
\* two; as a set, empty if there is none.  Ranks count from 0.
canonical_resident(t, n, tail, start, lo) ==
  LET run == TakeOrder(t, n, tail)
      ranks == {r \in lo .. Len(run) - 1 : run[r + 1] \in t.resident}
      from == IF start < lo THEN lo ELSE IF start > Len(run) - 1 THEN Len(run) - 1 ELSE start
      Away(r) == IF r < from THEN from - r ELSE r - from
      Nearer(r, q) == Away(r) < Away(q) \/ (Away(r) = Away(q) /\ r <= q)
  IN {run[r + 1] : r \in {x \in ranks : \A y \in ranks : Nearer(x, y)}}

\* The rank of the first resident block of a node that has one.
first_resident_rank(t, n, tail) ==
  LET run == TakeOrder(t, n, tail) IN
  CHOOSE r \in 0 .. Len(run) - 1 :
    run[r + 1] \in t.resident /\ \A q \in 0 .. r - 1 : run[q + 1] \notin t.resident

collect_resident(t, n, tail, max) ==
  LET taken == SelectSeq(TakeOrder(t, n, tail), LAMBDA b : b \in t.resident)
  IN SubSeq(taken, 1, IF max < Len(taken) THEN max ELSE Len(taken))

-----------------------------------------------------------------------------
\* The tree is well formed: parents and children agree, every path runs from
\* the root through blocks that are indexed where they lie, the counters count
\* the flags, and sampleable lists the nodes with a resident block, each once
\* and at the place it remembers.
WellFormed(t) ==
  LET Nodes == DOMAIN t.blocks IN
  /\ \A n \in Nodes : /\ t.blocks[n] # <<>> /\ t.blocks[n][1] = n
                      /\ n \in t.children[t.parent[n]]
  /\ DOMAIN t.children = Nodes \cup {Root}
  /\ \A n \in Nodes \cup {Root} : \A m \in t.children[n] : m \in Nodes /\ t.parent[m] = n
  /\ \A n \in Nodes : \A i \in 1 .. Len(t.blocks[n]) :
       t.blocks[n][i] \in DOMAIN t.index /\ t.index[t.blocks[n][i]] = [node |-> n, pos |-> i]
  /\ \A b \in DOMAIN t.index : b \in ObjsOf(t.blocks[t.index[b].node])
  /\ \A n \in Nodes : t.n_resident[n] = Cardinality(ObjsOf(t.blocks[n]) \cap t.resident)
  /\ t.resident \subseteq DOMAIN t.index /\ t.orphans \cap DOMAIN t.index = {}
  /\ ObjsOf(t.sampleable) = {n \in Nodes : t.n_resident[n] > 0}
  /\ \A n \in Nodes : IF t.n_resident[n] > 0
                        THEN /\ t.sample_idx[n] + 1 \in DOMAIN t.sampleable
                             /\ t.sampleable[t.sample_idx[n] + 1] = n
                        ELSE t.sample_idx[n] = -1
  /\ Len(t.sampleable) = Cardinality(ObjsOf(t.sampleable))
==============================================================================
