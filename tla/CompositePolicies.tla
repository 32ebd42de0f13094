-------------------------- MODULE CompositePolicies --------------------------
(***************************************************************************)
(* cache_t with one of the policies that hold whole caches as their        *)
(* queues: a probationary cache (small, fifo, Ain, the window), a main     *)
(* cache (main, Am) and mostly a ghost of ids (ghost, Aout).  algo is the  *)
(* constructor that was called.                                            *)
(***************************************************************************)
EXTENDS Integers, FiniteSets, ObjList

CONSTANTS
  Algos,                            \* the policies of this instance
  Obj, ReqSize, NoReq,              \* as in CacheBase
  PinSets,                          \* bound: what a pin predicate may protect
  SmallSize, MainSize, GhostSize,   \* cache_size of the three caches
  Threshold, FreqCap,               \* of S3FIFO, QDLP and Clock2QPlus
  CorrWindow,                       \* of Clock2QPlus
  AmMd,                             \* of TwoQ
  NoObj, Sizes, LogSize, MinSize, AdaptAfter   \* of S3FIFOd

ASSUME CompositeAssumption ==
  /\ Threshold \in 1 .. FreqCap /\ FreqCap >= 3
  /\ Sizes \subseteq [Obj -> ReqSize]
  /\ PinSets \subseteq SUBSET Obj

VARIABLES
  algo,
  small, main, size, pc, req, mode, pinned,
  toDump,                              \* of TwoQ and WTinyLFU
  ghost, hitOnGhost,                   \* of all but WTinyLFU
  freq, hasEvicted,                    \* of S3FIFO, QDLP and Clock2QPlus
  age,                                 \* of Clock2QPlus
  smallLog, mainLog, cap, hits, local  \* of S3FIFOd

ghostVars == <<ghost, hitOnGhost>>
dVars == <<smallLog, mainLog, cap, hits, local>>
vars == <<algo, small, main, size, pc, req, toDump, mode, pinned, ghostVars, freq,
          hasEvicted, age, dVars>>

S3 == INSTANCE S3FIFO

Qd == INSTANCE QDLP

Plus == INSTANCE Clock2QPlus

Ad == INSTANCE S3FIFOd

Two == INSTANCE TwoQ WITH
  ain <- small, am <- main, aout <- ghost,
  AinSize <- SmallSize, AmSize <- MainSize, AoutSize <- GhostSize

Tiny == INSTANCE WTinyLFU WITH window <- small, WindowSize <- SmallSize

CacheSize == SmallSize + MainSize

Resident == ObjsOf(small) \cup ObjsOf(main)

\* get_occupied_byte: only TwoQ's Am may charge metadata.
Occupied ==
  IF algo = "TwoQ" THEN Two!TwoQ_get_occupied_byte ELSE S3!S3FIFO_get_occupied_byte

\* The cache that users see, as an instance of the abstract one when no
\* metadata is charged.  One call of evict of the S3FIFO family may evict no object
\* or several, so what they have left to dump is counted in objects and not, as
\* dump_cached_obj_age does, in calls.  A program that crashed while it made room
\* is one that stays there.
Base == INSTANCE CacheBase WITH
  MdSize <- 0,
  resident <- Resident, nObj <- S3!S3FIFO_get_n_obj, occupied <- Occupied,
  objSize <- [o \in Obj |-> IF o \in Resident THEN size[o] ELSE 0],
  pc <- IF pc = "crashed" THEN "room" ELSE pc,
  toDump <- IF algo \in {"TwoQ", "WTinyLFU"} THEN toDump
            ELSE IF pc = "dump" THEN S3!S3FIFO_get_n_obj ELSE 0

Init ==
  /\ algo \in Algos
  /\ hasEvicted = FALSE
  /\ toDump = 0
  /\ age = [o \in Obj |-> 0]
  /\ IF algo = "S3FIFOd"
       THEN Ad!S3FIFOd_init
       ELSE /\ Plus!Clock2QPlus_init /\ Two!TwoQ_init /\ Tiny!WTinyLFU_init
            /\ smallLog = <<>> /\ mainLog = <<>> /\ local = NoObj
            /\ cap = [small |-> SmallSize, main |-> MainSize, ghost |-> GhostSize]
            /\ hits = [small |-> 0, main |-> 0]

\* The policies, each with the variables it does not have left alone.
OfS3FIFO(A) == algo = "S3FIFO" /\ A /\ UNCHANGED <<algo, toDump, age, dVars>>
OfQDLP(A) == algo = "QDLP" /\ A /\ UNCHANGED <<algo, toDump, age, dVars>>
OfClock2QPlus(A) == algo = "Clock2QPlus" /\ A /\ UNCHANGED <<algo, toDump, dVars>>
OfS3FIFOd(A) == algo = "S3FIFOd" /\ A /\ UNCHANGED <<algo, toDump, hasEvicted, age>>
OfTwoQ(A) == algo = "TwoQ" /\ A /\ UNCHANGED <<algo, freq, hasEvicted, age, dVars>>
OfWTinyLFU(A) ==
  algo = "WTinyLFU" /\ A /\ UNCHANGED <<algo, ghostVars, freq, hasEvicted, age, dVars>>

Next ==
  \/ OfS3FIFO(S3!Next)
  \/ OfQDLP(Qd!QDLP_Next)
  \/ OfClock2QPlus(Plus!Clock2QPlus_Next)
  \/ OfS3FIFOd(Ad!Next)
  \/ OfTwoQ(Two!Next)
  \/ OfWTinyLFU(Tiny!Next)

\* The steps of a call in progress.
Running ==
  \/ OfS3FIFO(S3!Running)
  \/ OfQDLP(Qd!QDLP_Running)
  \/ OfClock2QPlus(Plus!Clock2QPlus_Running)
  \/ OfS3FIFOd(Ad!Running)
  \/ OfTwoQ(Two!Running)
  \/ OfWTinyLFU(Tiny!Running)

\* A thread inside cache_get_base or dump_cached_obj_age runs on.
Spec == Init /\ [][Next]_vars /\ WF_vars(Running)

-----------------------------------------------------------------------------
\* Properties.

\* The probationary and the main queue share out the objects of the cache, and
\* the ghost remembers only ids the cache does not hold, whatever promotions,
\* reinsertions, ghost hits and nested evictions moved them.
QueuesDisjoint ==
  /\ Cardinality(Resident \cup ObjsOf(ghost)) = Len(small) + Len(main) + Len(ghost)
  /\ algo # "S3FIFOd" => \A o \in Obj : size[o] > 0 <=> o \in Resident \cup ObjsOf(ghost)

\* The caches inside keep to their own sizes although objects differ in size and
\* the pins of the caller also apply to the victims chosen there: the ghost,
\* TwoQ's Am and QDLP's main, which make room for themselves, and the logs of
\* S3FIFOd, whose adaptation moves bytes between the queues but loses none.
OwnSizes ==
  /\ algo # "S3FIFOd" => S3!Bytes(ghost) <= GhostSize
  /\ algo = "TwoQ" => Two!Bytes(main, AmMd) <= MainSize
  /\ algo = "QDLP" => S3!Bytes(main) <= MainSize
  /\ algo = "S3FIFOd" => /\ cap.small + cap.main = CacheSize
                         /\ cap.ghost - cap.small = MainSize - SmallSize
                         /\ Ad!Bytes(smallLog) <= LogSize
                         /\ Ad!Bytes(mainLog) <= LogSize

\* As its users see it the composite is a cache in the sense of CacheBase:
\* promotion, reinsertion and exchange are invisible or evict a resident, and
\* the assertion of S3FIFO_get, QDLP_get, Clock2QPlus_get, S3FIFOd_get and
\* TwoQ_get (the queues together within cache_size) follows from BaseAccounting.
RefinesBase == Base!BaseSpec

\* S3FIFOd asks Clock's to_evict which id to log and then lets evict choose: what
\* leaves the main queue is the id that was logged, while nothing is pinned.
LogsTheVictim ==
  [][algo = "S3FIFOd" /\ pinned = {} /\ mode \in {"evict", "shrinkEvict"}
       => ObjsOf(main) \ ObjsOf(main') \subseteq {local}]_vars

\* A get and a dump_cached_obj_age terminate although one call of evict may
\* evict nothing, reinsertion keeps objects with a positive counter, and up to
\* three caches make room in turn, also with everything pinned; the other end is
\* that of QDLP and S3FIFOd where their main cache refuses the object they move.
CallsTerminate == (pc # "idle") ~> (pc \in {"idle", "crashed"})

\* TwoQ_get's DEBUG_ASSERT: Ain and Am together keep to cache_size whenever a
\* get starts.
FitsCache == pc = "idle" => Occupied <= CacheSize
==============================================================================
