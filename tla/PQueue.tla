------------------------------- MODULE PQueue --------------------------------
(***************************************************************************)
(* pqueue.c: a binary heap in an array, the largest priority at index 1.   *)
(* Every entry remembers its index, which is how remove and                *)
(* change_priority find it.  The array grows before an insertion that      *)
(* would not fit, or the process exits, so its capacity is left out.       *)
(***************************************************************************)
EXTENDS Integers, Sequences, FiniteSets

CONSTANTS Node, Pri

VARIABLE heap   \* d: the entries from index 1 on; pos and pri: of each entry

pqueue_init == [d |-> <<>>, pos |-> [n \in Node |-> 0], pri |-> [n \in Node |-> 0]]

\* q->d[i] = n; q->setpos(n, i)
Put(h, i, n) == [h EXCEPT !.d[i] = n, !.pos[n] = i]

\* bubble_up: n moves up from the hole at i.
RECURSIVE RiseFrom(_, _, _)
RiseFrom(h, i, n) ==
  IF i > 1 /\ h.pri[h.d[i \div 2]] < h.pri[n]
  THEN RiseFrom(Put(h, i, h.d[i \div 2]), i \div 2, n)
  ELSE Put(h, i, n)

bubble_up(h, i) == RiseFrom(h, i, h.d[i])

maxchild(h, i) ==
  LET l == 2 * i IN
  IF l > Len(h.d) THEN 0
  ELSE IF l + 1 <= Len(h.d) /\ h.pri[h.d[l]] < h.pri[h.d[l + 1]] THEN l + 1 ELSE l

\* percolate_down: n moves down from the hole at i.
RECURSIVE SinkFrom(_, _, _)
SinkFrom(h, i, n) ==
  LET c == maxchild(h, i) IN
  IF c # 0 /\ h.pri[n] < h.pri[h.d[c]]
  THEN SinkFrom(Put(h, i, h.d[c]), c, n)
  ELSE Put(h, i, n)

percolate_down(h, i) == SinkFrom(h, i, h.d[i])

pqueue_insert(h, n, p) ==
  bubble_up([h EXCEPT !.d = Append(@, n), !.pri[n] = p], Len(h.d) + 1)

pqueue_change_priority(h, p, n) ==
  LET g == [h EXCEPT !.pri[n] = p] IN
  IF h.pri[n] < p THEN bubble_up(g, h.pos[n]) ELSE percolate_down(g, h.pos[n])

\* --q->size; n, the entry that goes, is freed by the callers.
Shorter(h, n) == [h EXCEPT !.d = SubSeq(@, 1, Len(@) - 1), !.pos[n] = 0, !.pri[n] = 0]

Mutant_remove_never_rises(h, n) ==
  LET i == h.pos[n]
      last == h.d[Len(h.d)]
      short == Shorter(h, n) IN
  IF last = n THEN short ELSE percolate_down([short EXCEPT !.d[i] = last], i)

\* The last entry takes the place of n; when n is the last entry the code
\* rewrites an index beyond the end.
pqueue_remove(h, n) ==
  LET i == h.pos[n]
      last == h.d[Len(h.d)]
      short == Shorter(h, n)
      moved == [short EXCEPT !.d[i] = last] IN
  IF last = n THEN short
  ELSE IF h.pri[n] < h.pri[last] THEN bubble_up(moved, i)
  ELSE percolate_down(moved, i)

pqueue_peek(h) == h.d[1]

pqueue_pop(h) ==
  LET last == h.d[Len(h.d)]
      short == Shorter(h, h.d[1]) IN
  IF Len(h.d) = 1 THEN short ELSE percolate_down([short EXCEPT !.d[1] = last], 1)

-----------------------------------------------------------------------------
\* The heap alone, under any sequence of calls.

Queued == {heap.d[i] : i \in 1 .. Len(heap.d)}

HeapInit == heap = pqueue_init

HeapInsert(n, p) == n \notin Queued /\ heap' = pqueue_insert(heap, n, p)

HeapChange(n, p) == n \in Queued /\ heap' = pqueue_change_priority(heap, p, n)

HeapRemove(n) == n \in Queued /\ heap' = pqueue_remove(heap, n)

HeapPop == heap.d # <<>> /\ heap' = pqueue_pop(heap)

HeapNext ==
  \/ \E n \in Node, p \in Pri : HeapInsert(n, p) \/ HeapChange(n, p)
  \/ \E n \in Node : HeapRemove(n)
  \/ HeapPop

-----------------------------------------------------------------------------
\* Properties.

\* subtree_is_valid for every entry, and every entry knows its index, each is in
\* the array once: what lets the next remove or change_priority touch the right
\* entry, and pop return a largest one.
HeapValid ==
  /\ Cardinality(Queued) = Len(heap.d)
  /\ \A i \in 1 .. Len(heap.d) :
       /\ heap.pos[heap.d[i]] = i
       /\ heap.pri[heap.d[i]] <= heap.pri[pqueue_peek(heap)]
       /\ i > 1 => heap.pri[heap.d[i]] <= heap.pri[heap.d[i \div 2]]
==============================================================================
