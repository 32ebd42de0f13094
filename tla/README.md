# A TLA+ model of libCacheSim

libCacheSim replays a trace of object requests against a cache and counts hits
and misses. Its results are only as good as its bookkeeping: an eviction loop
that stops one byte early, a queue that keeps an object the hash table has
dropped, or a shared counter that loses an update changes a miss ratio without
any visible failure. This project models the parts of the code where that can
happen, model-checks them with TLC on small instances, and proves the results
that everything else rests on with TLAPS for every instance.

All paths below are relative to `src/libCacheSim/`.

## The system and how its parts interact

| part | where | lines | here |
|---|---|---|---|
| cache core: lookup, admission, eviction loop, accounting | `cache/cache.c`, `include/libCacheSim/cache.h` | 1.0k | `CacheBase` |
| intrusive object lists, pins | `include/libCacheSim/cacheObj.h` | 0.5k | `ObjList`, `LinkedList` |
| hash table | `dataStructure/hashtable/chainedHashTableV2.c` | 0.5k | `HashTable` |
| eviction policies in C | `cache/eviction/*.c` (43 files), `belady/`, `fifo/`, `other/` | 23k | `FIFO LRU Clock Sieve Size Belady`, `SLRU LFU ARC CAR`, `S3FIFO S3FIFOd QDLP Clock2QPlus TwoQ WTinyLFU`, `LIRS` |
| policies in C++ | `cache/eviction/cpp`, `LHD` | 6k | `PrefixRadixTree`, `PartialNode` |
| learned policies | `LRB`, `3LCache`, `GLCache`, `S4FIFO` (one generated table of 88k lines) | 7k | – |
| admission and prefetch | `cache/admission`, `cache/prefetch` | 3k | admission is a free choice in `CacheBase` |
| trace simulator with thread pool | `profiler/simulator.c` | 0.3k | `Simulator`, `LRUStack` |
| prefix simulator (block-structured requests) | `bin/prefixsim` | 2.4k | `PrefixSim`, `Serving` |
| priority queue, splay tree | `dataStructure/pqueue.c`, `dataStructure/splay.c` | 0.7k | `PQueue`, `StackDist` |
| distance and LRU hit profilers | `profiler/dist.c`, `profiler/profilerLRU.c` | 0.5k | `StackDist`, `LRUStack` |
| readers, other profilers, analyzers, command lines | `traceReader`, `mrcProfiler`, `traceAnalyzer`, `bin` | 15k | – |

A request travels as follows. A reader yields it; a driver (`sim.c`,
`profiler/simulator.c` or prefixsim) calls `cache->get`, which for nearly every
policy is `cache_get_base`: find; on a miss, ask `can_insert`; then call `evict`
until the object and its metadata fit; then `insert`. `find`, `evict`, `insert`
and `remove` belong to the policy; they call `cache_insert_base`,
`cache_evict_base` and `cache_remove_obj_base` for the shared accounting.
Composite policies (S3FIFO, TwoQ, QDLP, WTinyLFU and others) hold whole caches as
queues, so the same loop runs at two levels. prefixsim uses the interface differently: it evicts until
all missing blocks of a request fit, with the blocks of the request *pinned*
through a thread-local predicate that policies consult when they pick a victim.

## Modules

**`CacheBase`** has the shared accounting (`resident`, `objSize`, `occupied`,
`nObj`) and the control of the two loops that evict: `cache_get_base` and
`dump_cached_obj_age`. `pc` says in which of them the cache is (`"room"`,
`"dump"`, or `"idle"` between calls), so an eviction is a step and other
evictions of the same call are further steps. Read alone it is the abstract
cache: the victim is any resident object (`BaseSpec`). A simple policy EXTENDS
it and conjoins the change of its own queue to the shared action, as the C code
calls the `_base` function; `BaseSpec` is then a property to check. The
composite policies, whose accounting is spread over sub-caches, keep their own state
and instantiate `CacheBase` with a refinement mapping (`RefinesBase`).

**`ObjList`** gives the list operations as operators on sequences (head first),
with `cache_skip_pinned`. **`LinkedList`** is the pointer code itself (`prev`,
`next`, head, tail), run beside the sequence it should represent.

**Policies.** One module each, one action per operation. Loops whose turns change
state (Clock's rewriting, Sieve's hand, SLRU's cooling, CAR's hands, the queues of
S3FIFO) are stepped one turn at a time. `remove` by id is an action of each of them
except LIRS. Pins are a set
that any step between calls may change: prefixsim sets and clears it. A policy's
module ends with the predicates on its states and steps that the modules below turn
into properties.

| module | state beside the shared one |
|---|---|
| `FIFO`, `LRU` | the queue, the pins |
| `Clock` | queue, counters `freq` |
| `Sieve` | queue, marks, hand, budget of the walk |
| `SLRU` | segments with their byte and object counters, the stack of `SLRU_cool` |
| `LFU` | frequency nodes, `min_freq`, `max_freq` |
| `ARC` | T1, T2, B1, B2 with their byte counters, `p`, the ghost-hit flags |
| `S3FIFO` | small, main and ghost queue, `freq`, `hit_on_ghost`, `has_evicted`, the running sub-cache call |
| `TwoQ` | Ain, Am, Aout, `hit_on_ghost` |
| `Size`, `Belady` | the heap of `PQueue`, by size or by next access |
| `CAR` | two clocks, two ghost lists, their byte counters, `p`, the ghost-hit flags |
| `QDLP`, `Clock2QPlus` | the queues of `S3FIFO`, which they extend; a Clock main cache that makes its own room; the correlation window |
| `S3FIFOd` | three queues whose sizes move, and the two logs of evicted ids that move them |
| `WTinyLFU` | a window and a main LRU; the sketch is a free comparison |
| `LIRS` | S, Q and the list of non-resident blocks, the counters beside them, the blocks in flight |

**`QueuePolicies`** (FIFO, LRU, Clock, Sieve, Size, Belady), **`SegmentPolicies`** (SLRU,
LFU, ARC, CAR) and **`CompositePolicies`** (S3FIFO, S3FIFOd, QDLP, Clock2QPlus, TwoQ,
WTinyLFU) model the `cache_t` that a driver holds: a
record of function pointers which the constructor found in `cacheAlgoRegistry.c` has
filled. `algo`, chosen in `Init` and never changed, is that constructor; a step is a
step of the chosen policy, and the variables that only other policies use stay as they
are. The properties are stated there once, for whatever policy is behind the interface.

**`HashTable`** models chains as pointers, with insertion, deletion, doubling and
halving entry by entry, and the draw of a random object. **`PQueue`** is the binary heap
of `pqueue.c`, in which every entry stores its own position. **`StackDist`** is the splay
tree of `splay.c` and the profilers of `dist.c` and `profilerLRU.c` that use it, beside
definitions of the distances that read them off the trace. **`LRUStack`** runs two LRU
caches of different size on one trace, as `simulate_at_multi_sizes` does.
**`Structures`** puts `LinkedList`, these four and `Simulator` side by side: a behaviour
exercises one.

**`Simulator`** models `profiler/simulator.c`: the calling thread pushes one task
per cache, worker threads take tasks, warm up, replay their clone of the reader,
write results and report progress; the caller spins on the progress counter, frees
the pool and the parameters and returns. Every shared access is a step of its own.

**`PrefixSim`** models `serve`, `allocate`, `access` and `verify` of
`bin/prefixsim/simulator.cpp` over an abstract algorithm whose interface (does it
honour pins, report its evictions, evict a block, a batch or whole sessions) is a variable
fixed in `Init`.
**`PrefixRadixTree`** and **`PartialNode`** are the tree of block paths and the cache that
evicts parts of its nodes, with or without a small queue in front. **`Serving`** composes
the simulator with the algorithm it drives: the abstract one, `LIRS`, or `PartialNode`,
with the hooks `record_request` and `set_request_ctx` where the code calls them.

Operators named `Mutant_...` stand before the definition they alter and are used
by no specification; each is a slip that the property named with it in
`PROJECT.json` detects.

## Runs

`tlc -config X.cfg M` for each; `PROJECT.json` names module and configuration. Deadlock
is checked except in `composite_policies`, where QDLP and S3FIFOd may stop at a NULL
pointer, and in `prefixsim`, where the simulator gives up with an error.

| run | shows |
|---|---|
| `queue_policies` | for FIFO, LRU, Clock, Sieve, Size and Belady: the accounting of `cache.c`, a victim for every eviction, and the inductive invariant of the proofs; queue or heap = hash table, each policy implements `CacheBase`; pinned objects go last; FIFO and LRU keep their order; `to_evict` names the object that `evict` takes; every get and every dump ends, also when everything is pinned |
| `segment_policies` | for SLRU, LFU, ARC and CAR: lists partition the hash table and agree with the fields of the objects and the counters, each policy implements `CacheBase`; SLRU's upper segments stay within their size, a hit survives the cooling it causes, and the cooling ends; LFU's victim is a least frequent object; ARC's `to_evict` agrees with `evict` |
| `composite_policies` | for the six composite policies: queues are disjoint, sub-caches keep to their sizes, each implements `CacheBase`; S3FIFOd logs the object that it then evicts; a get and a dump end, although one eviction may evict nothing |
| `structures` | pointers represent the sequence; lookup is membership and rehashing loses nothing; the draw of a random object ends; the heap stays a heap; distances and hit counts are those the trace defines; the smaller LRU's queue is the head of the larger one's; the thread pool's results equal those of a sequential replay in every schedule, progress is exact, tasks touch live memory, the call returns |
| `prefixsim` | phase 2 evicts exactly what phase 3 needs, self-evictions are counted exactly, pins hold, a served request is resident in full; serving ends; LIRS's lists and counters agree, it never takes a block that is not there, and its evictions make progress; the prefix tree knows exactly the cached blocks |

Seven runs expect a violation. Each states what an assertion or comment of the
repository says, and shows a behaviour of the code against it (`findings` in
`PROJECT.json` quotes the lines):

| run | what happens |
|---|---|
| `find_size` | a hit does not update the size of the object, as `cache.c:207-210` says it does; Size ranks the object by the new size all the same |
| `segment_md` | with per-object metadata `SLRU_cool` moves too few bytes between the segment counters, until SLRU holds an object and finds none to evict |
| `segment_remove` | `SLRU_remove` does not update the segment counters (the trace shown); `ARC_remove` and `CAR_remove` leave a removed ghost in the hash table |
| `twoq_md` | Am charges metadata that TwoQ does not count |
| `lirs_hit` | a hit on a block of LIRS's Q can evict that very block, which stays reported and is no longer counted |
| `reuse` | the access at time 0 reads back as no access, so that its reuse gets no distance |
| `partial_node` | `evict_n` returns 0 although blocks are cached, because it looked at the orphans before it made some |

### What the passing runs leave out

* `BaseSpec` and `RefinesBase` say what the code does on a hit: `objSize` stays. That the
  comment of `cache_find_base` says otherwise is the subject of `find_size`.
* `segment_policies` leaves out exactly the removals of `segment_remove`
  (`SpecNoRemoving`) and per-object metadata (`MdSize = 0`), so that what it shows is not
  hidden behind a known deviation. **With metadata SLRU's counters drift**
  (`SLRU.c:548-549`), and `ListsPartition`, `UpperSegmentsBounded` and `CascadeSinks` say
  nothing about SLRU: see `segment_md`. LFU, ARC and CAR pass with `MdSize = 1`,
  `CacheSize = 6` and `ReqSize = {1, 2}` too.
* `ListsPartition` says nothing of `min_freq` while LFU is empty: `update_min_freq` leaves
  it then, and `DEBUG_ASSERT(params->min_freq > old_min_freq)` (`LFU.c:377`) fails when the
  last object goes.
* `composite_policies` includes the refusal of an object by a main cache that is smaller
  than it: QDLP (`QDLP.c:293-309`) and S3FIFOd (`S3FIFOd.c:374-381`, once the adaptation
  has made main small) look the object up again and read through the NULL they get. The
  model stops there (`pc = "crashed"`), `CallsTerminate` counts it as an end, and
  `RefinesBase` takes it for an eviction that never returns.
* `RefinesBase` does not claim the count that `dump_cached_obj_age` asserts
  (`cache.c:529`) of S3FIFO, S3FIFOd, QDLP and Clock2QPlus: it counts calls of `evict`, and
  a call that only promotes evicts nothing. The objects left to evict are mapped to what
  is still to be counted.
* Objects of size 0 are in `queue_policies` and the proofs; the other runs have sizes of at
  least 1. Without metadata such an object is charged nothing, and a dump may leave it.
* `EvictsExactlyEnough` leaves the session algorithms out: `SessionCache::evict_n`
  (`sessionCache.cpp:169`) drops whole sessions and frees more than the `n` that
  `doc/advanced_lib.md:188` and `simulator.cpp:418` call a hard cap. The other properties of
  `prefixsim` hold for them.
* `DistancesExact` excepts the reuse that `reuse` is about, and records that distances
  since the first access are all -1, because that access is never stored.
* LIRS is given requests of fewer than `lirs_limit` blocks (`LIRSMaxLen`), and requests
  larger than the cache, which are skipped. **Beyond that `LIRSConsistent` does not hold.**
  With `LirsLimit = 2`, `LIRSMaxLen = 3` and `Algos = {"LIRS"}` in `MCPrefixSim.cfg`, TLC
  finds requests that evict every LIR block; `LIRS_prune` (`LIRS.c:720`) does not remove
  the head of S, here a non-resident block, which later is the bottom of S; `evictLIR`
  (`LIRS.c:793`) takes it for an LIR block, counts `lirs_count` down and inserts it into Q
  as resident. A block that was evicted is then found again, and with it
  `NoUnexpectedEvictions` fails. `hirs_limit` is 1% of the cache, at least one block, so
  this takes a request of about the size of the whole cache.
* Without the in-flight protection LIRS is covered by `lirs_hit` only.
* With a small queue `TreeTracksCache` does not claim that `evict_n` evicts as much as it
  is asked for; `partial_node` shows that it may not.
* Sieve is left out of the first half of `PinsRespected`: its budget of pinned steps may
  be spent over two laps, the first of which only clears marks.

### Bounds

`queue_policies` has objects of 0, 1 and 3 bytes with one byte of metadata (`MdSize = 1`) in a
cache of three: a request can need several evictions, an object of 0 bytes is charged its metadata,
and one of 3 exceeds the cache only because of it. `segment_policies` has four objects in
a cache of five: a queue then has a head, a middle and a tail and an object is outside. A cache of five makes SLRU's even segments uneven (1, 2, 2) and is the smallest in
which ARC evicts from L1 without a ghost where REPLACE would take L2. `FreqCap = 3` in
S3FIFO is lossless with a threshold of 1 or 2: the code reads `freq` only through
comparisons below it. `Scale` makes every ratio ARC computes an integer. The hash
function of `MCStructures` has collisions before and after a resize; `Threshold` and
`MaxTries` stand for the load factor at which the table doubles and for the empty
buckets after which a draw halves it, `RetryMargin` for prefixsim's 16. The six-entry heap
(with two priorities; the heap alone passes with three, 121,039 states) and
the eight requests of up to five ids in `MCStructures` give removals from the middle that
rise and that sink, and splays of every kind of step. The composite policies have three
objects of one to three bytes in queues of three and two, so that a main cache has objects
to refuse; the pins (`PinSets`) are nothing or two objects, which may be all
that is cached; S3FIFOd's objects
keep their sizes (`Sizes`: one of 1, two of 2 bytes), its main cache may shrink to one byte
(`MinSize`, `cache_size / 100` in the code), and its sizes move after one hit
more on a log (`AdaptAfter`, 100 in the code). `prefixsim` has
five blocks for a cache of three (four for LIRS), so that a request can miss two blocks of a full cache,
every request of up to three blocks (with repetitions) and those one block too long for
the cache. Three caches on two threads, with a warm-up by both readers, let a task
wait, run and be the last one the caller does not wait for; the simulator alone passes with
three threads (102,424 states), and its safety is proved for every number. Symmetry over objects is
used in runs without liveness only; that SLRU's cascade ends is therefore shown by a
measure that each of its steps lowers (`CascadeSinks`).

### Fairness

Weak fairness is assumed of the steps *inside* a call (evictions, insertion, turns
of a loop), because a call in C runs to its end, of the abstract algorithm's steps in `Serving`, and of each thread in `Simulator`,
because the operating system schedules every runnable thread. Requests, removals
and pins are never forced to happen. Nothing is assumed of the random
numbers in `HashTable`: a draw ends because empty buckets halve the table. LIRS needs no
fairness: `LIRSProgress` says of each step that it frees a block or serves one.

## Proofs

`CacheBase_proofs` proves, for every set of objects, capacity, metadata size and set
of request sizes allowed by `BaseAssumption` (naturals, 0 included: the binary and vscsi
readers never drop a request of size 0, and `ignore-size-zero-req=false` keeps the others
from it):

* `BaseInvariant`: `BaseSpec => []BaseInv`, the inductive invariant;
* `BaseAccounting`: `occupied` is the sum over the residents of size plus metadata,
  `nObj` is their number, and the capacity is never exceeded;
* `BaseEvictionSafe`: the loop of `cache_get_base` never evicts from an empty cache; a
  dump leaves only objects that are charged no bytes (size 0, no metadata), and where every
  object is charged something it has counted each of them, as `cache.c:529` asserts.

Capacity is not inductive. A request being served must have passed `can_insert`, so
that it fits an empty cache, and must not be resident, so that insertion adds to the
sum; and that nothing charged is left must follow from `occupied = 0`, which needs the sum
itself.
`BaseInv` is the conjunction; TLC checks it in run `queue_policies`. The sum is written
as the number of cells (object, byte), a set, because what a recursive sum computes is
beyond the prover: the lemmas `CellsInsert` and `CellsRemove` show that adding and
removing an object changes that number by exactly the object's charge.

`FIFO_proofs`, `LRU_proofs`, `Clock_proofs` and `Sieve_proofs` carry this over to the
single-queue policies. Each proves, for every set of objects, sizes and pins:

* `...ImplementsBase`: `Spec => BaseSpec`, so that the theorems above hold of the policy
  on every instance;
* `...QueueIsTable`: `Spec => []QueueIsTable`, for Sieve with the hand and the cursor of
  the walk inside the queue;
* `ClockPinnedUntouched` and `SievePinnedUntouched`: `Spec => [][PinnedUntouched]_vars`.

The two facts need each other: a step is a step of `CacheBase` only if its victim is
resident, which holds because the queue lists the residents; and the queue keeps listing
them because `BaseInv` says that the object about to be inserted is not resident and that
an evicting loop has a victim. The inductive invariant (`FIFOInv`, `LRUInv`, `ClockInv`,
`SieveInv`) is therefore `BaseInv` with `Lists(q, resident)` (the queue is injective and
its range is the residents) and `Len(q) = nObj`. Sieve adds that `hand` and `cur` are
resident or `None`, and that a walk is in progress only while a loop asks for a victim;
without the latter a remove could take the object under the cursor.

`ObjList_proofs` has the lemmas about the list operators: prepending, removing and moving
to the head keep `Lists`, and `cache_skip_pinned` returns a listed object that is pinned
only if all are. That its scan finds an object nearest the tail is the existence of a
largest index, from the well-foundedness of the naturals (`LeastNatural`).

`Simulator_proofs` proves of the concurrent simulator, for every number of caches and
threads, every trace, warm-up and miss pattern allowed by `SimAssumption`, and every
schedule:

* `NoLostReport`: the progress counter is the number of tasks that have reported;
* `NoUseAfterFree`: no task works on parameters or caches that were freed;
* `ResultsAreSequential`: what a task reports is what a replay of its cache alone gives.

The invariants are `TasksInv` (each task is in the queue, with one worker, or finished,
and the mutex is held by the thread that is inside it), `SimInv`, which ties the counter
to the finished tasks, and `ResultInv`, which says for a task in the middle of its replay
how far its counts have come. Read-modify-write of the counter takes two steps, which is
why the mutex is part of the invariant.

By refinement (`BaseSpec` and `RefinesBase` as properties of the other policies' runs) the
theorems of `CacheBase_proofs` speak about Size, Belady, SLRU, LFU, ARC, CAR and the
composite policies as far as TLC has shown the refinement, which is on the instances above.

Only model-checked: all liveness, `to_evict` against `evict`, the order of FIFO's and
LRU's queues, the policies with several queues, the data structures, prefixsim, LIRS and
the partial-node algorithms. Liveness is beyond the prover, and `LIRS`, `StackDist` and
other modules with RECURSIVE operators (loops of the code that run to their end within a
step) cannot carry proofs.

## Abstractions

* Time to live, eviction-age logging, cloning, printing and the `n_req` clock are
  left out; ARC's request time is kept as what it is compared for.
* ARC's `p` is an exact rational; the rounding of doubles is not modelled.
* The byte counters of the composite policies' sub-caches are derived from their queues,
  which `BaseAccounting` justifies for the FIFO and LRU instances they are.
* `PrefixSim` assumes of the algorithm that a miss with room is inserted without
  evicting. TwoQ's nested eviction within Am is outside that assumption.
* Comparisons of two estimates of WTinyLFU's sketch and of two scores of the partial-node
  algorithms have either outcome. What S3FIFOd reads from an object after freeing it is a
  free choice.
* Blocks have size 1 in LIRS and the partial-node algorithms, as under prefixsim, and block
  ids are prefix-unique. Requests are replayed deepest block first, prefixsim's default.
* Calls of the partial-node algorithms other than prefixsim's are explored with the
  parameters in `Library` only.
* A call of `evict` that is not observed frees at most one block in `PrefixSim`.
* Of the session algorithms `PrefixSim` has what they do to the cache: `evict_n` takes any
  blocks, at least one, and `record_request` releases any that the request does not name
  (`RecordSession`). Which session loses is any choice.

## Not modelled

`PROJECT.json` lists each part. By reason:

* Decided by numbers: learned policies and those ranked by floating-point weights (LRB,
  3LCache, GLCache, S4FIFO's tables, LHD, LeCaR, Cacheus, GDSF, the choice of a session
  and the workload policies). What they choose is out of reach.
* Nothing to add: Random, RandomTwo, RandomLRU and Hyperbolic may evict any resident
  object, which is `CacheBase` itself.
* Input and output: parsing, file mapping, command lines, plotting, trace conversion.
* Vendored or generated: sparsepp, robin_hood, xxhash, uthash, fkYAML, and one table of
  88,000 lines in S4FIFO. With these the repository has about 165,000 lines, so the lines
  modelled here are a small share of it (about 4%).
* Not reached: ClockPro, MQ, the segmented FIFOs, LFUDA, MRU, prefetching, the counting
  Bloom filter, `LIRS_remove`, the preview of the partial-node algorithms, and prefixsim
  over TwoQ or S3FIFO, where a get may evict inside a sub-cache although there is room.

### Hazards without a property

Read in the code while modelling it, and covered by no property of this project beside
those `PROJECT.json` lists with a note:

* `ARC.c:594`: ghost lists are bounded only by what evictions drop; `CAR.c:305`: the
  branch that would drop ghosts of T2 is never reached.
* `dist.c:52`: for distances since the first access no time is ever stored;
  `dist.c:137`: an `int32_t` distance is checked against `UINT32_MAX`.
* `Clock2QPlus.c:457`: `can_insert` does not ask the admissioner.
* `minimalIncrementCBF.c:128`: the test for the minimal counters guards the debug output
  only, so that an addition increments every counter.
* `MRU.c:181`: evicting the only object dereferences a NULL pointer; `LIRS.c:616`: a
  removal reads an object after it was freed.
* `CAR.c:411`: the preview of the victim does not move the hand or clear a bit, and spins
  when the head is referenced; none of the modelled callers uses it.
* `profiler/simulator.c:137`: results copy `n_obj` and `occupied_byte`, which stay 0 for
  policies that keep their objects in sub-caches.
* `profiler/simulator.c:311`: a log message reads a cache that its task may have freed.
* `cpp/partialNodeCache.cpp:325`: the preview of the victim ignores the small queue, which
  eviction drains first; `cpp/prefixRadixTree.cpp:98` and `:26`: leaves without resident
  blocks may stay, and an id reached through two paths is indexed under the first only.
