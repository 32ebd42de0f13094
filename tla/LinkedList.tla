------------------------------ MODULE LinkedList -----------------------------
(***************************************************************************)
(* The doubly linked list of cacheObj.h, pointer by pointer.  q is a       *)
(* history variable: the sequence that the operators of ObjList make of    *)
(* the same calls.  The invariant Represents says that the pointers always *)
(* spell q, which is what the modules of the eviction algorithms assume.   *)
(***************************************************************************)
EXTENDS ObjList

CONSTANTS Obj, Null

VARIABLES
  head, tail,   \* *head, *tail
  prev, next,   \* obj->queue.prev, obj->queue.next
  q

vars == <<head, tail, prev, next, q>>

Init ==
  /\ head = Null /\ tail = Null
  /\ prev = [o \in Obj |-> Null]
  /\ next = [o \in Obj |-> Null]
  /\ q = <<>>

Mutant_prepend_forgets_back_link(o) ==
  /\ next' = [next EXCEPT ![o] = head]
  /\ prev' = [prev EXCEPT ![o] = Null]
  /\ tail' = IF tail = Null THEN o ELSE tail
  /\ head' = o

\* prepend_obj_to_head: the old head, if any, points back at o.
PrependPointers(o) ==
  /\ next' = [next EXCEPT ![o] = head]
  /\ prev' = [x \in Obj |-> IF x = head THEN o ELSE IF x = o THEN Null ELSE prev[x]]
  /\ tail' = IF tail = Null THEN o ELSE tail
  /\ head' = o

\* append_obj_to_tail: the old tail, if any, points on to o.
AppendPointers(o) ==
  /\ prev' = [prev EXCEPT ![o] = tail]
  /\ next' = [x \in Obj |-> IF x = tail THEN o ELSE IF x = o THEN Null ELSE next[x]]
  /\ head' = IF head = Null THEN o ELSE head
  /\ tail' = o

\* remove_obj_from_list: head and tail step past o, and its neighbours are
\* linked to each other.
RemovePointers(o) ==
  /\ head' = IF o = head THEN next[o] ELSE head
  /\ tail' = IF o = tail THEN prev[o] ELSE tail
  /\ next' = [x \in Obj |-> IF x = o THEN Null ELSE IF x = prev[o] THEN next[o] ELSE next[x]]
  /\ prev' = [x \in Obj |-> IF x = o THEN Null ELSE IF x = next[o] THEN prev[o] ELSE prev[x]]

\* move_obj_to_head: nothing for a list of one element and for the head; the
\* tail hands over to its predecessor; any other object is bridged.
MoveToHeadPointers(o) ==
  IF head = tail \/ o = head THEN UNCHANGED <<head, tail, prev, next>>
  ELSE /\ tail' = IF o = tail THEN prev[o] ELSE tail
       /\ next' = [x \in Obj |-> IF x = o THEN head
                                 ELSE IF x = prev[o] THEN next[o] ELSE next[x]]
       /\ prev' = [x \in Obj |-> IF x = o THEN Null
                                 ELSE IF x = head THEN o
                                 ELSE IF x = next[o] /\ o # tail THEN prev[o] ELSE prev[x]]
       /\ head' = o

\* move_obj_to_tail, the same from the other end.
MoveToTailPointers(o) ==
  IF head = tail \/ o = tail THEN UNCHANGED <<head, tail, prev, next>>
  ELSE /\ head' = IF o = head THEN next[o] ELSE head
       /\ prev' = [x \in Obj |-> IF x = o THEN tail
                                 ELSE IF x = next[o] THEN (IF o = head THEN Null ELSE prev[o])
                                 ELSE prev[x]]
       /\ next' = [x \in Obj |-> IF x = o THEN Null
                                 ELSE IF x = tail THEN o
                                 ELSE IF x = prev[o] /\ o # head THEN next[o] ELSE next[x]]
       /\ tail' = o

\* prepend and append expect an object of no list, the others one of this list.
Prepend(o) == o \notin ObjsOf(q) /\ PrependPointers(o) /\ q' = prepend_obj_to_head(q, o)
AppendObj(o) == o \notin ObjsOf(q) /\ AppendPointers(o) /\ q' = append_obj_to_tail(q, o)
RemoveObj(o) == o \in ObjsOf(q) /\ RemovePointers(o) /\ q' = remove_obj_from_list(q, o)
MoveToHead(o) == o \in ObjsOf(q) /\ MoveToHeadPointers(o) /\ q' = move_obj_to_head(q, o)
MoveToTail(o) == o \in ObjsOf(q) /\ MoveToTailPointers(o) /\ q' = move_obj_to_tail(q, o)

Next ==
  \E o \in Obj :
    \/ Prepend(o)
    \/ AppendObj(o)
    \/ RemoveObj(o)
    \/ MoveToHead(o)
    \/ MoveToTail(o)

\* prev_obj_in_slist(head, o): walks next from the head, at most once over
\* each object.
prev_obj_in_slist(o) ==
  LET walk[n \in Nat] ==
        IF n = 0 THEN head
        ELSE IF walk[n - 1] = Null \/ next[walk[n - 1]] = o THEN walk[n - 1]
        ELSE next[walk[n - 1]]
  IN walk[Len(q)]

-----------------------------------------------------------------------------
\* Properties.

At(i) == IF i \in 1 .. Len(q) THEN q[i] ELSE Null

\* head, tail, next and prev spell the sequence q in both directions, no object
\* occurs twice, and an object outside the list points nowhere, so that it can
\* enter another list.
Represents ==
  /\ head = At(1)
  /\ tail = At(Len(q))
  /\ \A i \in 1 .. Len(q) : next[q[i]] = At(i + 1) /\ prev[q[i]] = At(i - 1)
  /\ \A o \in Obj \ ObjsOf(q) : next[o] = Null /\ prev[o] = Null
  /\ \A i, j \in 1 .. Len(q) : q[i] = q[j] => i = j

\* The forward walk of prev_obj_in_slist finds the object that prev names.
SlistPrevAgrees ==
  \A o \in ObjsOf(q) : o # head => prev_obj_in_slist(o) = prev[o]
==============================================================================
