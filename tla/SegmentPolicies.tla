--------------------------- MODULE SegmentPolicies ---------------------------
(***************************************************************************)
(* cache_t with one of the policies that sort their objects into several   *)
(* lists by hand: SLRU's segments, LFU's frequency nodes, the four lists   *)
(* of ARC and of CAR.  algo is the constructor that was called; the        *)
(* variables another policy would use keep their initial value.            *)
(***************************************************************************)
EXTENDS CacheBase, ObjList

CONSTANTS
  Algos,                    \* the policies of this instance
  NSeg, SegChoices, None,   \* of SLRU
  MaxFreq,                  \* of LFU
  Scale                     \* of ARC

VARIABLES
  algo,
  lru, lruBytes, lruObjs, lruMax, hit, lvl, top,   \* of SLRU
  freq, freqMap, minFreq, maxFreq,                 \* of LFU
  l1, l2, g1, g2, l1Size, l2Size, g1Size, g2Size, lruId, ghostSize, p,
  inL1Ghost, inL2Ghost,                            \* of ARC and CAR
  fresh,                                           \* of ARC
  ref                                              \* of CAR

slruVars == <<lru, lruBytes, lruObjs, lruMax, hit, lvl, top>>
lfuVars == <<freq, freqMap, minFreq, maxFreq>>
listVars == <<l1, l2, g1, g2, l1Size, l2Size, g1Size, g2Size, lruId, ghostSize, p,
              inL1Ghost, inL2Ghost>>
vars == <<baseVars, algo, slruVars, lfuVars, listVars, fresh, ref>>

Slru == INSTANCE SLRU
Lfu == INSTANCE LFU
Arc == INSTANCE ARC
Car == INSTANCE CAR

Init ==
  /\ algo \in Algos
  /\ Slru!SLRU_init
  /\ algo # "SLRU" => lruMax = Slru!EvenSegments
  /\ Lfu!LFU_init
  /\ Arc!ARC_init
  /\ Car!CAR_init

OfSLRU(A) == algo = "SLRU" /\ A /\ UNCHANGED <<algo, lfuVars, listVars, fresh, ref>>
OfLFU(A) == algo = "LFU" /\ A /\ UNCHANGED <<algo, slruVars, listVars, fresh, ref>>
OfARC(A) == algo = "ARC" /\ A /\ UNCHANGED <<algo, slruVars, lfuVars, ref>>
OfCAR(A) == algo = "CAR" /\ A /\ UNCHANGED <<algo, slruVars, lfuVars, fresh>>

\* The removals that leave a policy's own counters wrong: of an object by
\* SLRU_remove, of a ghost by ARC_remove and CAR_remove.
Removing ==
  \/ \E o \in resident : OfSLRU(Slru!SLRU_remove(o))
  \/ \E o \in Obj : OfARC(Arc!ARC_remove_ghost(o))
  \/ \E o \in Obj : OfCAR(Car!CAR_remove_ghost(o))

NextNoRemoving ==
  \/ OfSLRU(Slru!NextNoRemove)
  \/ OfLFU(Lfu!Next)
  \/ OfARC(Arc!NextNoGhostRemove)
  \/ OfCAR(Car!NextNoGhostRemove)

Next == NextNoRemoving \/ Removing

Spec == Init /\ [][Next]_vars

\* Histories without the removals above.
SpecNoRemoving == Init /\ [][NextNoRemoving]_vars

-----------------------------------------------------------------------------
\* Properties, beside those of CacheBase.

\* The lists of a policy partition what its hash table holds, each list holds
\* the objects whose own fields say so (segment, frequency, list and ghost
\* bit), and what a policy caches about its lists is true of them: the bytes
\* and objects of SLRU's segments (_SLRU_verify_lru_size), LFU's min_freq
\* unless it is unknown (0), ARC's byte counters, between which find, insert,
\* evict and remove move bytes (_ARC_sanity_check_full), and CAR's, whose hand
\* moves bytes from T1 to T2 in the middle of an eviction.  SLRU's bytes are right
\* only without per-object metadata, which SLRU_cool forgets (SLRU.c:548), and
\* min_freq only while LFU holds an object: when the last one goes it stays, where
\* update_min_freq asserts that it has grown (LFU.c:377).
ListsPartition ==
  /\ algo = "SLRU" => Slru!SegmentsPartition /\ Slru!SegmentAccounting
  /\ algo = "LFU" => Lfu!NodesPartition /\ Lfu!MinFreqRight
  /\ algo = "ARC" => Arc!SanityCheck
  /\ algo = "CAR" => Car!SanityCheck

\* Between two calls every segment above the lowest is within its budget, also
\* after a cascade in which objects of different sizes traded places: what
\* lru_n_bytes, which the loops of find and cool go by, is for.  With metadata those
\* counters drift (VictimFound), and so does what they bound.
UpperSegmentsBounded == algo = "SLRU" => Slru!UpperSegmentsBounded

\* The loop of SLRU_find reads obj->SLRU.lru_id after every round of cooling:
\* the object that was hit is never the victim of its own promotion.
HitSurvives == algo = "SLRU" => Slru!HitSurvives

\* The cascade of coolings that a hit starts comes to an end: each of its steps
\* takes an object further down or out, or leaves one of the nested loops.  Without
\* metadata: the counters that end the loops are then those of the lists.
CascadeSinks == [][algo = "SLRU" => Slru!CascadeSinks]_vars

\* An LFU eviction never takes an object while another one was used less often.
EvictsLeastFrequent == [][algo = "LFU" => Lfu!EvictsLeastFrequent]_vars

\* ARC's to_evict, which works the two cases of a miss out again, names the
\* object that evict then takes.
ToEvictPredicts == [][algo = "ARC" => Arc!ToEvictPredicts]_vars

\* While bytes are occupied SLRU_to_evict finds an object, from whatever segment
\* (its comment: the fallback is the lowest segment's tail), and a segment over
\* its budget has one to cool (SLRU_cool's DEBUG_ASSERT(obj != NULL)).  With
\* per-object metadata it does not hold: SLRU_cool moves obj_size between the
\* counters and insert, promote and evict obj_size + obj_md_size, until a segment
\* with an object in it counts 0 bytes and SLRU_to_evict passes it by.
VictimFound == algo = "SLRU" => Slru!VictimFound
==============================================================================
