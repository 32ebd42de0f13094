--------------------------------- MODULE LFU ---------------------------------
(***************************************************************************)
(* LFU.c: one list of objects per frequency, oldest first, in a map from   *)
(* frequencies to freq_node_t.  min_freq is a cached lower end of the map  *)
(* that is repaired lazily: 0 asks the next eviction to search for it.     *)
(***************************************************************************)
EXTENDS CacheBase, ObjList

CONSTANT MaxFreq   \* bound: an object is hit until it has this frequency

VARIABLES
  freq,      \* cache_obj->lfu.freq of the residents, 0 for the others
  freqMap,   \* params->freq_map: from frequencies to the lists of the nodes;
             \* node->n_obj is the length of the list
  minFreq, maxFreq

lfuVars == <<freq, freqMap, minFreq, maxFreq>>
vars == <<baseVars, lfuVars>>

LFU_init ==
  /\ cache_struct_init
  /\ freq = [o \in Obj |-> 0]
  /\ freqMap = [f \in {1} |-> <<>>]
  /\ minFreq = 1
  /\ maxFreq = 1

\* update_min_freq: the first frequency above m, up to top, whose node in map
\* holds an object; m itself when there is none, although the code asserts that
\* it has grown (DEBUG_ASSERT, off in a release build).
update_min_freq(map, m, top) ==
  LET found == {f \in DOMAIN map : f \in m + 1 .. top /\ map[f] # <<>>} IN
  IF found = {} THEN m ELSE CHOOSE f \in found : \A g \in found : f <= g

\* The list of frequency f with q in place of its list, created if missing.
WithNode(map, f, q) ==
  [g \in DOMAIN map \cup {f} |-> IF g = f THEN q ELSE map[g]]

NodeOf(map, f) == IF f \in DOMAIN map THEN map[f] ELSE <<>>

\* A hit moves the object to the next frequency, repairs min_freq if the old
\* node is left empty at that frequency, and drops the empty node (never that
\* of frequency 1).
LFU_find(r) ==
  LET o == r.obj
      f == freq[o]
      old == remove_obj_from_list(freqMap[f], o)
      new == WithNode(WithNode(freqMap, f, old), f + 1,
                      append_obj_to_tail(NodeOf(freqMap, f + 1), o))
      keep == DOMAIN new \ (IF old = <<>> /\ f # 1 THEN {f} ELSE {})
      top == IF maxFreq < f + 1 THEN f + 1 ELSE maxFreq
  IN
  /\ GetHit(r)
  /\ f < MaxFreq
  /\ freq' = [freq EXCEPT ![o] = f + 1]
  /\ maxFreq' = top
  /\ minFreq' = IF old = <<>> /\ minFreq = f THEN update_min_freq(new, minFreq, top) ELSE minFreq
  /\ freqMap' = [g \in keep |-> new[g]]

LFU_insert ==
  /\ GetInsert
  /\ minFreq' = 1
  /\ freq' = [freq EXCEPT ![req.obj] = 1]
  /\ freqMap' = [freqMap EXCEPT ![1] = append_obj_to_tail(@, req.obj)]
  /\ UNCHANGED maxFreq

\* The frequency get_min_freq_node looks up; it leaves it in min_freq.
get_min_freq_node ==
  IF minFreq = 0 THEN update_min_freq(freqMap, 0, maxFreq) ELSE minFreq

\* to_evict, called on its own: it changes nothing but min_freq.
LFU_to_evict ==
  /\ pc = "idle"
  /\ resident # {}
  /\ minFreq' = get_min_freq_node
  /\ UNCHANGED <<baseVars, freq, freqMap, maxFreq>>

Mutant_evict_next_node ==
  LET m == update_min_freq(freqMap, get_min_freq_node, maxFreq)
      victim == Head(freqMap[m])
  IN
  /\ GetEvict(victim) \/ DumpEvict(victim)
  /\ freq' = [freq EXCEPT ![victim] = 0]
  /\ freqMap' = [freqMap EXCEPT ![m] = Tail(@)]
  /\ minFreq' = IF Tail(freqMap[m]) = <<>> THEN 0 ELSE minFreq
  /\ UNCHANGED maxFreq

\* The victim is the oldest object of the lowest frequency.  When it was the
\* last one the repair of min_freq is left to the next eviction.
LFU_evict ==
  LET m == get_min_freq_node
      victim == Head(freqMap[m])
  IN
  /\ GetEvict(victim) \/ DumpEvict(victim) \/ (pc = "idle" /\ EvictCall(victim))
  /\ freq' = [freq EXCEPT ![victim] = 0]
  /\ freqMap' = [freqMap EXCEPT ![m] = Tail(@)]
  /\ minFreq' = IF Tail(freqMap[m]) = <<>> THEN 0 ELSE m
  /\ UNCHANGED maxFreq

LFU_remove_obj(o) ==
  LET f == freq[o]
      map == [freqMap EXCEPT ![f] = remove_obj_from_list(@, o)]
  IN
  /\ Remove(o)
  /\ freq' = [freq EXCEPT ![o] = 0]
  /\ freqMap' = map
  /\ minFreq' = IF f = minFreq /\ map[f] = <<>>
                  THEN update_min_freq(map, minFreq, maxFreq)
                  ELSE minFreq
  /\ UNCHANGED maxFreq

LFU_get(r) == LFU_find(r) \/ (GetNoHit(r) /\ UNCHANGED lfuVars)

Mutant_dump_leaves_one ==
  /\ UNCHANGED lfuVars
  /\ \/ DumpStart
     \/ pc = "dump" /\ nObj <= 1 /\ pc' = "idle" /\ toDump' = 0
        /\ UNCHANGED <<resident, objSize, occupied, nObj, req>>

Dump == (DumpStart \/ DumpEnd) /\ UNCHANGED lfuVars

Next ==
  \/ \E r \in Request : LFU_get(r)
  \/ LFU_insert
  \/ LFU_to_evict
  \/ resident # {} /\ LFU_evict
  \/ \E o \in resident : LFU_remove_obj(o)
  \/ Dump

-----------------------------------------------------------------------------
\* What the properties of SegmentPolicies say of LFU.

\* Every resident object is in exactly one list, that of its own frequency,
\* and max_freq bounds the search for the lowest one.
NodesPartition ==
  /\ \A o \in resident : freq[o] \in DOMAIN freqMap /\ o \in ObjsOf(freqMap[freq[o]])
  /\ \A f \in DOMAIN freqMap :
       /\ f <= maxFreq
       /\ Len(freqMap[f]) = Cardinality({o \in resident : freq[o] = f})

\* min_freq is unknown (0) or the lowest frequency of a resident object.
MinFreqRight ==
  resident # {} => minFreq \in {0} \cup {freq[o] : o \in {p \in resident :
                                       \A x \in resident : freq[p] <= freq[x]}}

EvictsLeastFrequent ==
  \A v \in resident :
    pc # "idle" /\ v \notin resident' => \A o \in resident' : freq[v] <= freq[o]
==============================================================================
