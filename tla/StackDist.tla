------------------------------ MODULE StackDist ------------------------------
(***************************************************************************)
(* The trace profilers of dist.c and profilerLRU.c: one pass over a trace  *)
(* with a hash table of last access times and, for stack distances, the    *)
(* splay tree of splay.c over those times, whose nodes carry the size of   *)
(* their subtree.                                                          *)
(***************************************************************************)
EXTENDS Integers, FiniteSets, FiniteSetsExt, SequencesExt

CONSTANTS
  Null,
  MaxIds,   \* bound: ids in a trace; ids are only compared for equality, so
            \* they are numbered in the order of their first requests
  MaxReq,   \* bound: requests in a trace
  MaxSize,  \* the size argument of get_lru_obj_miss_ratio
  Kinds     \* the profiles asked for, of those below

StackKinds == {"LRU_HIT_CNT", "STACK_DIST", "FUTURE_STACK_DIST"}
AccessKinds == {"DIST_SINCE_LAST_ACCESS", "DIST_SINCE_FIRST_ACCESS"}

VARIABLES
  kind,    \* the profile of the current, or last, call
  phase,   \* "idle" or "read"
  trace,   \* the ids read so far; the n-th has time n - 1
  last,    \* hash_table: GSIZE_TO_POINTER of a time, and NULL, which is the
           \* pointer of time 0 as well, for an id it does not hold
  tree,    \* splay_tree
  dist,    \* stack_dist_array, or dist_array
  hits     \* hit_count_array

distVars == <<kind, phase, trace, last, tree, dist, hits>>

-----------------------------------------------------------------------------
\* splay.c

node_value(t) == IF t = Null THEN 0 ELSE t.value

\* Every node a splay unlinks or rotates has its value set again before the
\* splay returns, from the sizes of what it then has below it.
Node(k, l, r) ==
  [key |-> k, left |-> l, right |-> r, value |-> node_value(l) + node_value(r) + 1]

RotateRight(t) == Node(t.left.key, t.left.left, Node(t.key, t.left.right, t.right))

RotateLeft(t) == Node(t.right.key, Node(t.key, t.left, t.right.left), t.right.right)

\* The loop of splay: t is the subtree reached, L and R are the nodes linked to
\* the left and the right tree on the way.
RECURSIVE Descend(_, _, _, _)
Descend(i, t, L, R) ==
  CASE i < t.key /\ t.left # Null ->
         LET y == IF i < t.left.key THEN RotateRight(t) ELSE t IN
         IF y.left = Null THEN <<y, L, R>> ELSE Descend(i, y.left, L, Append(R, y))
    [] i > t.key /\ t.right # Null ->
         LET y == IF i > t.right.key THEN RotateLeft(t) ELSE t IN
         IF y.right = Null THEN <<y, L, R>> ELSE Descend(i, y.right, Append(L, y), R)
    [] OTHER -> <<t, L, R>>

\* A plausible slip: the loop that corrects the sizes on the left path is missing.
Mutant_splay_left_path_keeps_sizes(i, t) ==
  IF t = Null THEN t
  ELSE LET d == Descend(i, t, <<>>, <<>>) IN
       Node(d[1].key,
            FoldRight(LAMBDA n, below : [n EXCEPT !.right = below], d[2], d[1].left),
            FoldRight(LAMBDA n, below : Node(n.key, below, n.right), d[3], d[1].right))

splay(i, t) ==
  IF t = Null THEN t
  ELSE LET d == Descend(i, t, <<>>, <<>>) IN
       Node(d[1].key,
            FoldRight(LAMBDA n, below : Node(n.key, n.left, below), d[2], d[1].left),
            FoldRight(LAMBDA n, below : Node(n.key, below, n.right), d[3], d[1].right))

insert(i, t) ==
  LET s == splay(i, t) IN
  IF t = Null THEN Node(i, Null, Null)
  ELSE IF i < s.key THEN Node(i, s.left, Node(s.key, Null, s.right))
  ELSE IF i > s.key THEN Node(i, Node(s.key, s.left, Null), s.right)
  ELSE s

splay_delete(i, t) ==
  LET s == splay(i, t)
      x == IF s.left = Null THEN s.right
           ELSE [splay(i, s.left) EXCEPT !.right = s.right] IN
  IF t = Null \/ s.key # i THEN s
  ELSE IF x = Null THEN Null
  ELSE [x EXCEPT !.value = t.value - 1]

-----------------------------------------------------------------------------
\* dist.c and profilerLRU.c

\* What get_stack_dist_add_req returns for id at time ts, the last access it
\* reports, and the tree it leaves.
get_stack_dist_add_req(id, ts) ==
  IF last[id] = 0
  THEN [dist |-> -1, lastTs |-> -1, tree |-> insert(ts, tree)]
  ELSE LET s == splay(last[id], tree) IN
       [dist |-> node_value(s.right), lastTs |-> last[id],
        tree |-> insert(ts, splay_delete(last[id], s))]

get_access_dist_add_req(id, ts) == IF last[id] = 0 THEN -1 ELSE ts - last[id]

DistInit ==
  /\ kind \in Kinds /\ phase = "idle" /\ trace = <<>>
  /\ last = [id \in 1 .. MaxIds |-> 0]
  /\ tree = Null /\ dist = <<>>
  /\ hits = [c \in 0 .. MaxSize |-> 0]

\* A call of _get_lru_hit_cnt, get_stack_dist or get_access_dist on some trace.
Profile ==
  /\ phase = "idle" /\ phase' = "read"
  /\ kind' \in Kinds /\ trace' = <<>>
  /\ last' = [id \in 1 .. MaxIds |-> 0]
  /\ tree' = Null /\ dist' = <<>>
  /\ hits' = [c \in 0 .. MaxSize |-> 0]

\* The next request of the trace.
Reads(id) ==
  /\ phase = "read" /\ Len(trace) < MaxReq
  /\ id <= Cardinality(ToSet(trace)) + 1
  /\ trace' = Append(trace, id)
  /\ UNCHANGED <<kind, phase>>

\* One turn of the loop in _get_lru_hit_cnt and get_stack_dist.
StackRequest(id) ==
  LET ts == Len(trace)
      r == get_stack_dist_add_req(id, ts) IN
  /\ kind \in StackKinds
  /\ Reads(id)
  /\ last' = [last EXCEPT ![id] = ts]
  /\ tree' = r.tree
  /\ hits' = IF kind = "LRU_HIT_CNT" /\ r.dist # -1 /\ r.dist + 1 <= MaxSize
             THEN [hits EXCEPT ![r.dist + 1] = @ + 1] ELSE hits
  /\ dist' = CASE kind = "LRU_HIT_CNT" -> dist
               [] kind = "STACK_DIST" -> Append(dist, r.dist)
               [] kind = "FUTURE_STACK_DIST" /\ r.lastTs = -1 -> Append(dist, -1)
               [] kind = "FUTURE_STACK_DIST" /\ r.lastTs # -1 ->
                    Append([dist EXCEPT ![r.lastTs + 1] = r.dist], -1)

\* One turn of the loop in get_access_dist.
AccessRequest(id) ==
  LET ts == Len(trace) IN
  /\ kind \in AccessKinds
  /\ Reads(id)
  /\ dist' = Append(dist, get_access_dist_add_req(id, ts))
  /\ last' = IF kind = "DIST_SINCE_LAST_ACCESS" THEN [last EXCEPT ![id] = ts] ELSE last
  /\ UNCHANGED <<tree, hits>>

\* The trace ends: the hit counts become cumulative, the table and the tree are
\* freed by the time the next call makes new ones.
TraceEnds ==
  /\ phase = "read" /\ trace # <<>> /\ phase' = "idle"
  /\ hits' = [c \in 0 .. MaxSize |-> MapThenSumSet(LAMBDA i : hits[i], 0 .. c)]
  /\ UNCHANGED <<kind, trace, last, tree, dist>>

DistNext ==
  \/ Profile
  \/ \E id \in 1 .. MaxIds : StackRequest(id) \/ AccessRequest(id)
  \/ TraceEnds

-----------------------------------------------------------------------------
\* The reference: what the distances mean, read off the trace.

Earlier(p) == {m \in 1 .. p - 1 : trace[m] = trace[p]}

Distinct(from, to) == Cardinality({trace[m] : m \in from .. to})

\* The distinct ids between the request at p and the one before it.
Reuse(p) == IF Earlier(p) = {} THEN -1 ELSE Distinct(Max(Earlier(p)) + 1, p - 1)

\* The one reuse the profilers do not see: the last access has time 0.
Unseen(p) == Earlier(p) = {1}

Later(p) == {m \in p + 1 .. Len(trace) : trace[m] = trace[p]}

\* LRU of c objects after the first p requests.
LRUQueue(c, p) ==
  FoldLeft(LAMBDA q, id : LET r == <<id>> \o SelectSeq(q, LAMBDA e : e # id)
                          IN SubSeq(r, 1, IF Len(r) < c THEN Len(r) ELSE c),
           <<>>, SubSeq(trace, 1, p))

LRUHits(c) == {p \in 1 .. Len(trace) : trace[p] \in ToSet(LRUQueue(c, p - 1))}

RECURSIVE Keys(_)
Keys(t) == IF t = Null THEN {} ELSE {t.key} \cup Keys(t.left) \cup Keys(t.right)

\* check_sTree, and the order of a search tree.
RECURSIVE check_sTree(_)
check_sTree(t) ==
  t # Null =>
    /\ t.value = node_value(t.left) + node_value(t.right) + 1
    /\ \A k \in Keys(t.left) : k < t.key
    /\ \A k \in Keys(t.right) : k > t.key
    /\ check_sTree(t.left) /\ check_sTree(t.right)

-----------------------------------------------------------------------------
\* Properties.

\* After every request the splay tree is a search tree with right sizes over the
\* last access times (and time 0, whose node is never deleted), every stack,
\* future and access distance stored so far is the one the trace defines, and
\* the hit count profilerLRU reports for each size is that of replaying the
\* trace through an LRU of that size; excepting, each time, the reuse of the
\* very first request, which ReuseIsSeen is about, and distances since the first
\* access, which are all -1 because that access is never recorded.
DistancesExact ==
  /\ kind \in StackKinds =>
       /\ check_sTree(tree)
       /\ Keys(tree) = {p - 1 : p \in {m \in 1 .. Len(trace) : Later(m) = {} \/ m = 1}}
  /\ \A p \in DOMAIN dist :
       dist[p] =
         CASE kind = "STACK_DIST" -> IF Unseen(p) THEN -1 ELSE Reuse(p)
           [] kind = "FUTURE_STACK_DIST" ->
                IF Later(p) = {} \/ p = 1 THEN -1 ELSE Reuse(Min(Later(p)))
           [] kind = "DIST_SINCE_LAST_ACCESS" ->
                IF Earlier(p) = {} \/ Unseen(p) THEN -1 ELSE p - Max(Earlier(p))
           [] OTHER -> -1
  /\ kind = "LRU_HIT_CNT" /\ phase = "idle" =>
       \A c \in 0 .. MaxSize :
         hits[c] = Cardinality({p \in LRUHits(c) : ~Unseen(p)})

\* A request of an id that was requested before has a distance.
ReuseIsSeen ==
  kind \in {"STACK_DIST", "DIST_SINCE_LAST_ACCESS"} =>
    \A p \in DOMAIN dist : Earlier(p) # {} => dist[p] # -1
==============================================================================
