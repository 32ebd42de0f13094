---------------------------- MODULE ObjList_proofs ----------------------------
(***************************************************************************)
(* What the list operations of cacheObj.h do to a list that holds every    *)
(* object of a set once, whatever its length.                              *)
(***************************************************************************)
EXTENDS ObjList, Integers, SequenceTheorems, WellFoundedInduction, TLAPS

\* q holds every object of R, each once, and nothing else.
Lists(q, R) ==
  /\ q \in Seq(R)
  /\ \A i, j \in 1 .. Len(q) : q[i] = q[j] => i = j
  /\ ObjsOf(q) = R

\* A set of natural numbers has a least element.
LEMMA LeastNatural ==
  ASSUME NEW T, T \subseteq Nat, T # {}
  PROVE  \E x \in T : \A y \in T : x <= y
<1>1. PICK x \in T : \A y \in T : ~ (<<y, x>> \in OpToRel(<, Nat))
  BY NatLessThanWellFounded, WFMin, Zenon
<1>2. \A y \in T : ~ (y < x)
  BY <1>1 DEF OpToRel
<1> QED
  BY <1>2

\* The empty list.
LEMMA EmptyLists == Lists(<<>>, {}) /\ Len(<<>>) = 0
  BY DEF Lists, ObjsOf

\* prepend_obj_to_head links one more object.
LEMMA PrependLists ==
  ASSUME NEW q, NEW R, Lists(q, R), NEW o, o \notin R
  PROVE  /\ Lists(prepend_obj_to_head(q, o), R \cup {o})
         /\ Len(prepend_obj_to_head(q, o)) = Len(q) + 1
<1> DEFINE p == prepend_obj_to_head(q, o)
<1>1. q \in Seq(R \cup {o}) /\ <<o>> \in Seq(R \cup {o}) /\ Len(q) \in Nat
  BY DEF Lists
<1>2. /\ p \in Seq(R \cup {o})
      /\ Len(p) = Len(q) + 1
      /\ \A i \in 1 .. Len(p) : p[i] = IF i = 1 THEN o ELSE q[i - 1]
  BY <1>1 DEF prepend_obj_to_head
<1> HIDE DEF p
<1>3. ASSUME NEW i \in 1 .. Len(p), NEW j \in 1 .. Len(p), p[i] = p[j] PROVE i = j
  <2>1. \A m \in 1 .. Len(p) : m # 1 => m - 1 \in 1 .. Len(q)
    BY <1>1, <1>2
  <2>2. \A m \in 1 .. Len(q) : q[m] # o
    BY DEF Lists, ObjsOf
  <2>3. CASE i = 1 \/ j = 1
    BY <1>2, <1>3, <2>1, <2>2, <2>3
  <2>4. CASE i # 1 /\ j # 1
    <3>1. q[i - 1] = q[j - 1]
      BY <1>2, <1>3, <2>4
    <3>2. i - 1 = j - 1
      BY <2>1, <2>4, <3>1 DEF Lists
    <3> QED
      BY <1>1, <1>2, <3>2
  <2> QED
    BY <2>3, <2>4
<1>4. ObjsOf(p) \subseteq R \cup {o}
  BY <1>2 DEF ObjsOf
<1>5. ASSUME NEW x \in R \cup {o} PROVE x \in ObjsOf(p)
  <2>1. CASE x = o
    BY <1>1, <1>2, <2>1 DEF ObjsOf
  <2>2. CASE x \in R
    <3>1. PICK i \in 1 .. Len(q) : q[i] = x
      BY <2>2 DEF Lists, ObjsOf
    <3>2. i + 1 \in 1 .. Len(p) /\ p[i + 1] = x
      BY <1>1, <1>2, <3>1
    <3> QED
      BY <3>2 DEF ObjsOf
  <2> QED
    BY <2>1, <2>2
<1> QED
  BY <1>2, <1>3, <1>4, <1>5 DEF Lists, p

\* remove_obj_from_list unlinks the object and no other.
LEMMA RemoveLists ==
  ASSUME NEW q, NEW R, Lists(q, R), NEW o \in R
  PROVE  /\ Lists(remove_obj_from_list(q, o), R \ {o})
         /\ Len(remove_obj_from_list(q, o)) = Len(q) - 1
<1> DEFINE k == PosOf(q, o)
           n == Len(q) - 1
           p == remove_obj_from_list(q, o)
<1>1. k \in 1 .. Len(q) /\ q[k] = o
  BY DEF Lists, ObjsOf, PosOf
<1>2. Len(q) \in Nat /\ n \in Nat /\ \A i \in 1 .. Len(q) : q[i] \in R
  BY <1>1 DEF Lists
<1>3. p = [i \in 1 .. n |-> IF i < k THEN q[i] ELSE q[i + 1]]
  BY DEF remove_obj_from_list
<1> HIDE DEF k, n, p
<1>4. \A i \in 1 .. n : /\ p[i] = q[IF i < k THEN i ELSE i + 1]
                        /\ (IF i < k THEN i ELSE i + 1) \in 1 .. Len(q) \ {k}
  BY <1>1, <1>2, <1>3 DEF n
<1>5. \A i \in 1 .. Len(q) \ {k} : q[i] \in R \ {o}
  BY <1>1, <1>2 DEF Lists
<1>6. p \in [1 .. n -> R \ {o}]
  BY <1>3, <1>4, <1>5
<1>7. p \in Seq(R \ {o}) /\ Len(p) = n
  BY <1>2, <1>6
<1>8. \A i, j \in 1 .. Len(p) : p[i] = p[j] => i = j
  BY <1>1, <1>2, <1>4, <1>7 DEF Lists
<1>9. ObjsOf(p) \subseteq R \ {o}
  BY <1>6, <1>7 DEF ObjsOf
<1>10. ASSUME NEW x \in R \ {o} PROVE x \in ObjsOf(p)
  <2>1. PICK i \in 1 .. Len(q) : q[i] = x
    BY DEF Lists, ObjsOf
  <2>2. i # k
    BY <1>1, <2>1
  <2>3. PICK j \in 1 .. n : i = IF j < k THEN j ELSE j + 1
    <3>1. CASE i < k
      <4>1. i \in 1 .. n /\ i = IF i < k THEN i ELSE i + 1
        BY <1>1, <1>2, <3>1 DEF n
      <4> QED
        BY <4>1
    <3>2. CASE i > k
      <4>1. i - 1 \in 1 .. n /\ i = IF i - 1 < k THEN i - 1 ELSE (i - 1) + 1
        BY <1>1, <1>2, <3>2 DEF n
      <4> QED
        BY <4>1
    <3> QED
      BY <1>1, <1>2, <2>2, <3>1, <3>2
  <2>4. p[j] = x
    BY <1>4, <2>1, <2>3
  <2> QED
    BY <1>7, <2>4 DEF ObjsOf
<1> QED
  BY <1>7, <1>8, <1>9, <1>10 DEF Lists, n, p

\* move_obj_to_head keeps the list's objects.
LEMMA MoveToHeadLists ==
  ASSUME NEW q, NEW R, Lists(q, R), NEW o \in R
  PROVE  /\ Lists(move_obj_to_head(q, o), R)
         /\ Len(move_obj_to_head(q, o)) = Len(q)
<1> DEFINE p == remove_obj_from_list(q, o)
<1>1. Lists(p, R \ {o}) /\ Len(p) = Len(q) - 1
  BY RemoveLists
<1>2. Len(q) \in Nat
  BY DEF Lists
<1>3. o \notin R \ {o} /\ (R \ {o}) \cup {o} = R
  OBVIOUS
<1> HIDE DEF p
<1>4. /\ Lists(prepend_obj_to_head(p, o), (R \ {o}) \cup {o})
      /\ Len(prepend_obj_to_head(p, o)) = Len(p) + 1
  BY <1>1, <1>3, PrependLists, Zenon
<1>5. Lists(prepend_obj_to_head(p, o), R)
  BY <1>3, <1>4, Zenon
<1>6. Len(prepend_obj_to_head(p, o)) = Len(q)
  BY <1>1, <1>2, <1>4
<1> QED
  BY <1>5, <1>6, Zenon DEF move_obj_to_head, p

\* cache_skip_pinned returns an object of the list, and a pinned one only when
\* all of them are pinned.
LEMMA SkipPinnedIsListed ==
  ASSUME NEW q, NEW R, Lists(q, R), R # {}, NEW pinned
  PROVE  /\ cache_skip_pinned(q, pinned) \in R
         /\ cache_skip_pinned(q, pinned) \in pinned => R \subseteq pinned
<1>1. Len(q) \in Nat /\ Len(q) > 0 /\ \A i \in 1 .. Len(q) : q[i] \in R
  BY DEF Lists, ObjsOf
<1>2. CASE R \subseteq pinned
  BY <1>1, <1>2 DEF Lists, cache_skip_pinned, TailOf
<1>3. CASE ~ (R \subseteq pinned)
  <2> DEFINE T == {Len(q) - i : i \in {j \in 1 .. Len(q) : q[j] \notin pinned}}
             Last(i) == q[i] \notin pinned /\ \A j \in i + 1 .. Len(q) : q[j] \in pinned
  <2>1. T \subseteq Nat /\ T # {}
    <3>1. PICK m \in 1 .. Len(q) : q[m] \notin pinned
      BY <1>3 DEF Lists, ObjsOf
    <3>2. Len(q) - m \in T
      BY <3>1
    <3> QED
      BY <1>1, <3>2
  <2>2. PICK x \in T : \A y \in T : x <= y
    BY <2>1, LeastNatural
  <2>3. PICK i \in 1 .. Len(q) : x = Len(q) - i /\ q[i] \notin pinned
    BY <2>2
  <2>4. ASSUME NEW j \in i + 1 .. Len(q), q[j] \notin pinned PROVE FALSE
    <3>1. Len(q) - j \in T
      BY <1>1, <2>3, <2>4
    <3> HIDE DEF T
    <3>2. x <= Len(q) - j
      BY <2>2, <3>1
    <3> QED
      BY <1>1, <2>3, <3>2
  <2>5. Last(i)
    BY <2>3, <2>4
  <2>6. /\ (CHOOSE m \in 1 .. Len(q) : Last(m)) \in 1 .. Len(q)
        /\ Last(CHOOSE m \in 1 .. Len(q) : Last(m))
    BY <2>5
  <2>7. cache_skip_pinned(q, pinned) = q[CHOOSE m \in 1 .. Len(q) : Last(m)]
    BY <1>3 DEF Lists, cache_skip_pinned
  <2> QED
    BY <1>1, <2>6, <2>7
<1> QED
  BY <1>2, <1>3
==============================================================================
