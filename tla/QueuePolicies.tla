---------------------------- MODULE QueuePolicies ----------------------------
(***************************************************************************)
(* cache_t dispatches get, find, insert, evict and remove through function *)
(* pointers that a constructor installs.  Here the constructor is one of   *)
(* the policies with a single queue or heap; algo is the one that was      *)
(* called, and the variables another policy would use keep their initial   *)
(* value.                                                                  *)
(***************************************************************************)
EXTENDS CacheBase, ObjList

CONSTANTS
  Algos,               \* the policies of this instance
  MaxFreq, InitFreq,   \* Clock's parameters
  None,                \* the NULL pointer
  NextAccess           \* of Belady

VARIABLES
  algo,
  q, pinned,           \* as in every policy
  freq,                \* of Clock and Sieve
  hand, cur, budget,   \* of Sieve
  heap                 \* of Size and Belady

sieveVars == <<hand, cur, budget>>
vars == <<baseVars, algo, q, pinned, freq, sieveVars, heap>>

Fifo == INSTANCE FIFO
Lru == INSTANCE LRU
Clk == INSTANCE Clock
Sve == INSTANCE Sieve
Sz == INSTANCE Size
Bel == INSTANCE Belady

NoFreq == freq = [o \in Obj |-> 0]
NoHand == hand = None /\ cur = None /\ budget = 0
NoQueue == q = <<>> /\ pinned = {} /\ NoFreq /\ NoHand
queueVars == <<q, pinned, freq, sieveVars>>

Init ==
  /\ algo \in Algos
  /\ heap = Sz!PQ!pqueue_init
  /\ \/ algo = "FIFO" /\ Fifo!FIFO_init /\ NoFreq /\ NoHand
     \/ algo = "LRU" /\ Lru!LRU_init /\ NoFreq /\ NoHand
     \/ algo = "Clock" /\ Clk!Clock_init /\ NoHand
     \/ algo = "Sieve" /\ Sve!Sieve_init
     \/ algo = "Size" /\ Sz!Size_init /\ NoQueue
     \/ algo = "Belady" /\ Bel!Belady_init /\ NoQueue

Next ==
  /\ UNCHANGED algo
  /\ \/ algo = "FIFO" /\ Fifo!Next /\ UNCHANGED <<freq, sieveVars, heap>>
     \/ algo = "LRU" /\ Lru!Next /\ UNCHANGED <<freq, sieveVars, heap>>
     \/ algo = "Clock" /\ Clk!Next /\ UNCHANGED <<sieveVars, heap>>
     \/ algo = "Sieve" /\ Sve!Next /\ UNCHANGED heap
     \/ algo = "Size" /\ Sz!Next /\ UNCHANGED queueVars
     \/ algo = "Belady" /\ Bel!Next /\ UNCHANGED queueVars

\* The steps of a call in progress.
Running ==
  /\ UNCHANGED algo
  /\ \/ algo = "FIFO" /\ Fifo!Running /\ UNCHANGED <<freq, sieveVars, heap>>
     \/ algo = "LRU" /\ Lru!Running /\ UNCHANGED <<freq, sieveVars, heap>>
     \/ algo = "Clock" /\ Clk!Running /\ UNCHANGED <<sieveVars, heap>>
     \/ algo = "Sieve" /\ Sve!Running /\ UNCHANGED heap
     \/ algo = "Size" /\ Sz!Running /\ UNCHANGED queueVars
     \/ algo = "Belady" /\ Bel!Running /\ UNCHANGED queueVars

\* A thread inside cache_get_base or dump_cached_obj_age runs on.
Spec == Init /\ [][Next]_vars /\ WF_vars(Running)

-----------------------------------------------------------------------------
\* Properties, beside those of CacheBase.

\* What Sieve_verify asserts, of every policy: the queue threads through
\* exactly the objects of the hash table, each once, so that no object is lost
\* from the eviction order and none evicted twice; Sieve's hand, a raw pointer
\* kept between evictions, never points to an object that is gone; and the
\* queue of Size and Belady stays a heap whose entries know their places.
QueueIsTable ==
  /\ algo = "FIFO" => Fifo!QueueIsTable
  /\ algo = "LRU" => Lru!QueueIsTable
  /\ algo = "Clock" => Clk!QueueIsTable
  /\ algo = "Sieve" => Sve!QueueIsTable
  /\ algo = "Size" => Sz!QueueIsTable
  /\ algo = "Belady" => Bel!QueueIsTable

\* Pinning is best effort but not less: making room takes a pinned object only
\* when every object of the queue is pinned (cache_skip_pinned's comment; Sieve
\* bounds its walk by a budget instead).  Nor is being pinned an access or a
\* miss: making room leaves the counter of a pinned object alone (Clock, unless
\* all are pinned; Sieve).
PinsRespected ==
  [][/\ algo # "Sieve" =>
          \A o \in pinned :
            pc # "idle" /\ o \in resident \ resident' => resident \subseteq pinned
     /\ algo = "Clock" => Clk!PinnedUntouched
     /\ algo = "Sieve" => Sve!PinnedUntouched]_vars

\* Whatever is requested, pinned, evicted past pinned objects or removed in
\* between, FIFO's queue keeps the order of insertion, LRU's the order of the
\* last hit, and Belady evicts an object with the furthest next access.
OrderKept ==
  [][/\ algo = "FIFO" => Fifo!KeepsOrder
     /\ algo = "LRU" => Lru!OnlyHitsReorder
     /\ algo = "Belady" => Bel!EvictsFurthest]_vars

\* What to_evict promises (cache.h: the object returned from to_evict will be
\* evicted the next time eviction is called): without pins the loop of evict,
\* which changes counters, queue and hand, ends at the object that to_evict
\* finds without changing anything.
ToEvictPredicts ==
  [][/\ algo = "Clock" => Clk!ToEvictPredicts
     /\ algo = "Sieve" => Sve!ToEvictPredicts]_vars

\* What cache_find_base says of a hit (cache.c:209: "the object size will be
\* updated"), and what Size_find relies on when it moves the object to the place of
\* the request's size: Size evicts by the size the cache charges for.
\* cache_find_base leaves obj_size alone, so it does not hold once an object is
\* requested with another size.
HitTakesSize == algo = "Size" => \A o \in resident : heap.pri[o] = objSize[o]
==============================================================================
