------------------------------- MODULE ObjList -------------------------------
(***************************************************************************)
(* The doubly linked object lists of cacheObj.h as sequences: q[1] is the  *)
(* head (the newest end), q[Len(q)] the tail.  queue.prev leads towards    *)
(* the head.  LinkedList shows that the pointer code implements these      *)
(* operators.                                                              *)
(***************************************************************************)
EXTENDS Naturals, Sequences

ObjsOf(q) == {q[i] : i \in 1 .. Len(q)}

PosOf(q, o) == CHOOSE i \in 1 .. Len(q) : q[i] = o

TailOf(q) == q[Len(q)]

prepend_obj_to_head(q, o) == <<o>> \o q

append_obj_to_tail(q, o) == Append(q, o)

remove_obj_from_list(q, o) ==
  LET p == PosOf(q, o) IN
  [i \in 1 .. Len(q) - 1 |-> IF i < p THEN q[i] ELSE q[i + 1]]

move_obj_to_head(q, o) == prepend_obj_to_head(remove_obj_from_list(q, o), o)

move_obj_to_tail(q, o) == append_obj_to_tail(remove_obj_from_list(q, o), o)

Mutant_skip_one_pinned(q, pinned) ==
  IF TailOf(q) \in pinned /\ Len(q) > 1 THEN q[Len(q) - 1] ELSE TailOf(q)

\* The first object from the tail towards the head that is not pinned; the
\* tail itself when the whole list is pinned.
cache_skip_pinned(q, pinned) ==
  IF ObjsOf(q) \subseteq pinned
    THEN TailOf(q)
    ELSE q[CHOOSE i \in 1 .. Len(q) :
             /\ q[i] \notin pinned
             /\ \A j \in i + 1 .. Len(q) : q[j] \in pinned]
==============================================================================
