------------------------------ MODULE HashTable ------------------------------
(***************************************************************************)
(* chainedHashTableV2.c, pointer by pointer: buckets of chained objects,   *)
(* a table that doubles before an insertion and halves while rand_obj      *)
(* looks for a bucket that is not empty.  Rehashing is one action per      *)
(* object, since it rewrites the chains it walks.                          *)
(***************************************************************************)
EXTENDS Integers, FiniteSets

CONSTANTS
  Obj, Null,
  Hash,           \* get_hash_value_int_64 of the ids
  InitPower,      \* the hashpower the table is created with
  Threshold,      \* CHAINED_HASHTABLE_EXPAND_THRESHOLD
  MaxTries        \* 32 in chained_hashtable_rand_obj_v2

VARIABLES
  power,       \* hashpower
  bucket,      \* ptr_table
  hashNext,    \* obj->hash_next
  nObj,
  pc,          \* "idle", "copy" (in _copy_entries) or "rand" (in rand_obj)
  old, index, cur,   \* old_table, i and cur_obj of _copy_entries
  after,       \* what the rehashing is for: an object to insert, or Null
  tries,       \* n_tries of rand_obj
  members      \* history: the ids inserted and not deleted

vars == <<power, bucket, hashNext, nObj, pc, old, index, cur, after, tries, members>>

hashsize(p) == 2 ^ p

Init ==
  /\ power = InitPower
  /\ bucket = [i \in 0 .. hashsize(InitPower) - 1 |-> Null]
  /\ hashNext = [o \in Obj |-> Null]
  /\ nObj = 0
  /\ pc = "idle"
  /\ old = [i \in {} |-> Null] /\ index = 0 /\ cur = Null /\ after = Null
  /\ tries = 0
  /\ members = {}

\* hv & hashmask(hashpower)
Slot(o) == Hash[o] % hashsize(power)

\* The n-th pointer of the chain that starts with p.
Walk(p, link) ==
  LET at[n \in 0 .. Cardinality(Obj)] ==
        IF n = 0 THEN p ELSE IF at[n - 1] = Null THEN Null ELSE link[at[n - 1]]
  IN at

\* The objects of that chain.
Chain(p, link) == {Walk(p, link)[n] : n \in 0 .. Cardinality(Obj)} \ {Null}

chained_hashtable_find_obj_id(o) == o \in Chain(bucket[Slot(o)], hashNext)

\* add_to_table with the chains in link: o is the new head of its bucket.  An
\* object alone in its bucket keeps its own hash_next.
AddedLink(link, o) ==
  IF bucket[Slot(o)] = Null THEN link ELSE [link EXCEPT ![o] = bucket[Slot(o)]]

add_to_table(link, o) ==
  /\ bucket' = [bucket EXCEPT ![Slot(o)] = o]
  /\ hashNext' = AddedLink(link, o)

\* my_malloc_n and memset of a table of the given power, and the start of
\* _copy_entries.
Resize(p) ==
  /\ power' = p
  /\ bucket' = [i \in 0 .. hashsize(p) - 1 |-> Null]
  /\ old' = bucket
  /\ index' = 0
  /\ cur' = bucket[0]
  /\ pc' = "copy"

\* The new object is created with a hash_next of NULL.  The caller makes sure
\* that its id is not in the table.
chained_hashtable_insert(o) ==
  /\ pc = "idle"
  /\ o \notin members
  /\ IF nObj > hashsize(power) * Threshold
       THEN Resize(power + 1) /\ after' = o /\ UNCHANGED <<hashNext, nObj, members>>
       ELSE /\ add_to_table([hashNext EXCEPT ![o] = Null], o)
            /\ nObj' = nObj + 1
            /\ members' = members \cup {o}
            /\ UNCHANGED <<power, pc, old, index, cur, after>>
  /\ UNCHANGED tries

Mutant_copy_reads_next_late ==
  /\ pc = "copy"
  /\ cur # Null
  /\ add_to_table([hashNext EXCEPT ![cur] = Null], cur)
  /\ cur' = hashNext'[cur]
  /\ UNCHANGED <<power, nObj, pc, old, index, after, tries, members>>

\* One turn of the inner loop: next_obj is read before hash_next is cleared.
CopyEntry ==
  /\ pc = "copy"
  /\ cur # Null
  /\ add_to_table([hashNext EXCEPT ![cur] = Null], cur)
  /\ cur' = hashNext[cur]
  /\ UNCHANGED <<power, nObj, pc, old, index, after, tries, members>>

\* The end of a chain of the old table: the next bucket, or back to the
\* insertion or to the loop of rand_obj.
CopyBucket ==
  /\ pc = "copy"
  /\ cur = Null
  /\ \/ /\ index + 1 \in DOMAIN old
        /\ index' = index + 1
        /\ cur' = old[index + 1]
        /\ UNCHANGED <<bucket, hashNext, nObj, pc, old, after, members>>
     \/ /\ index + 1 \notin DOMAIN old
        /\ old' = [i \in {} |-> Null] /\ index' = 0 /\ cur' = Null
        /\ after' = Null
        /\ IF after = Null
             THEN pc' = "rand" /\ UNCHANGED <<bucket, hashNext, nObj, members>>
             ELSE /\ add_to_table([hashNext EXCEPT ![after] = Null], after)
                  /\ nObj' = nObj + 1
                  /\ members' = members \cup {after}
                  /\ pc' = "idle"
  /\ UNCHANGED <<power, tries>>

\* Unlinking o from its bucket, as the three delete functions do.
Unlink(o) ==
  LET head == bucket[Slot(o)] IN
  /\ IF head = o
       THEN bucket' = [bucket EXCEPT ![Slot(o)] = hashNext[o]] /\ UNCHANGED hashNext
       ELSE LET c == CHOOSE x \in Chain(head, hashNext) : hashNext[x] = o IN
            hashNext' = [hashNext EXCEPT ![c] = hashNext[o]] /\ UNCHANGED bucket
  /\ nObj' = nObj - 1
  /\ members' = members \ {o}
  /\ UNCHANGED <<power, pc, old, index, cur, after, tries>>

\* The caller holds an object of the table.
chained_hashtable_delete(o) ==
  /\ pc = "idle"
  /\ o \in members
  /\ Unlink(o)

\* try_delete and delete_obj_id search the bucket themselves and leave a table
\* that does not hold the object alone.
chained_hashtable_delete_obj_id(o) ==
  /\ pc = "idle"
  /\ IF chained_hashtable_find_obj_id(o) THEN Unlink(o) ELSE UNCHANGED vars

\* rand_obj is only asked for an object of a table that has one.
RandStart ==
  /\ pc = "idle"
  /\ members # {}
  /\ pc' = "rand"
  /\ tries' = 0
  /\ UNCHANGED <<power, bucket, hashNext, nObj, old, index, cur, after, members>>

Mutant_rand_never_shrinks(pos) ==
  /\ pc = "rand"
  /\ tries' = IF bucket[pos] # Null \/ tries >= MaxTries THEN 0 ELSE tries + 1
  /\ pc' = IF bucket[pos] # Null THEN "idle" ELSE "rand"
  /\ UNCHANGED <<power, bucket, hashNext, nObj, old, index, cur, after, members>>

\* The random bucket pos has an object, or it is empty; after MaxTries empty
\* ones every further one halves the table.  n_tries is not reset by that, and
\* counting stops to matter above MaxTries.
chained_hashtable_rand_obj(pos) ==
  /\ pc = "rand"
  /\ \/ /\ bucket[pos] # Null
        /\ pc' = "idle" /\ tries' = 0
        /\ UNCHANGED <<power, bucket, old, index, cur>>
     \/ /\ bucket[pos] = Null
        /\ tries < MaxTries
        /\ tries' = tries + 1
        /\ UNCHANGED <<power, bucket, pc, old, index, cur>>
     \/ /\ bucket[pos] = Null
        /\ tries >= MaxTries
        /\ tries' = MaxTries
        /\ Resize(power - 1)
  /\ UNCHANGED <<hashNext, nObj, after, members>>

Rand == \E pos \in DOMAIN bucket : chained_hashtable_rand_obj(pos)

Next ==
  \/ \E o \in Obj :
       \/ chained_hashtable_insert(o)
       \/ chained_hashtable_delete(o)
       \/ chained_hashtable_delete_obj_id(o)
  \/ CopyEntry
  \/ CopyBucket
  \/ RandStart
  \/ Rand

\* The steps of a call in progress; nothing is assumed of the random numbers.
Running == CopyEntry \/ CopyBucket \/ Rand

-----------------------------------------------------------------------------
\* What the properties of Structures say of the hash table.

\* What _copy_entries has still to move.
Pending ==
  Chain(cur, hashNext) \cup
  UNION {Chain(old[i], hashNext) : i \in {j \in DOMAIN old : j > index}}

InTable == UNION {Chain(bucket[i], hashNext) : i \in DOMAIN bucket}

\* Between calls a lookup finds exactly the ids that were inserted and not
\* deleted, and n_obj counts them, whatever resizing happened in between.
FindIsMembership ==
  /\ nObj = Cardinality(members)
  /\ pc # "copy" => \A o \in Obj : chained_hashtable_find_obj_id(o) <=> o \in members

\* While the table is rehashed every object is either in the new table, in its
\* own bucket (check_hashtable_integrity_v2), or still to be moved; none is in
\* both and none is lost.
RehashLosesNothing ==
  /\ \A i \in DOMAIN bucket : \A o \in Chain(bucket[i], hashNext) : Slot(o) = i
  /\ pc = "copy" => InTable \cup Pending = members /\ InTable \cap Pending = {}
==============================================================================
