------------------------------ MODULE PrefixSim ------------------------------
(***************************************************************************)
(* bin/prefixsim/simulator.cpp: a request names many blocks of size 1 that *)
(* must all be resident at once.  It is served in three phases: match      *)
(* (probe), allocate (evict until the missing blocks fit), access (replay  *)
(* through cache->get).  The eviction algorithm is abstract: any resident  *)
(* block may be the victim, and config says which of the interfaces the    *)
(* simulator allows for the algorithm has.                                 *)
(***************************************************************************)
EXTENDS Integers, FiniteSets, Sequences

CONSTANTS
  Block,
  CacheSize,      \* cache_size_blocks
  Requests,       \* the block sequences a request may carry
  RetryMargin     \* 16 in allocate's limit on fruitless calls of evict

ASSUME PrefixAssumption ==
  /\ CacheSize \in Nat
  /\ Requests \subseteq Seq(Block)
  /\ RetryMargin \in Nat \ {0}

\* size: cache_size_blocks; pin: pin_request_blocks; honours: victims step over
\* pinned blocks (pins that nobody honours show nowhere); observed: evictions reach
\* the recorder; unit: what one call evicts, which is a block with evict, a batch of
\* blocks with evict_n, and whole sessions with the evict_n of the session_*
\* algorithms, which do not look at the pins.
Config ==
  {c \in [size : {CacheSize}, pin : BOOLEAN, honours : BOOLEAN, observed : BOOLEAN,
          unit : {"block", "batch", "session"}] :
     /\ c.unit # "block" => c.observed
     /\ c.unit = "session" => ~ c.honours
     /\ c.honours = c.pin}

VARIABLES
  config,
  resident,        \* what probe answers: the blocks the algorithm holds
  phase,           \* "idle", "allocate", "record", "access" or "failed"
  alpha,           \* alpha_: the blocks of the request
  todo,            \* the positions access has still to replay
  needed, progress, freed,   \* of allocate; freed is unobserved_freed
  attempts,        \* fruitless calls of evict in the current round
  alphaResident,   \* alpha_resident_
  nEvict, nSelf, nUnexpected,   \* the statistics, counted for this request
  selfEvicted      \* history: blocks of alpha that evictions really took

vars == <<config, resident, phase, alpha, todo, needed, progress, freed, attempts,
          alphaResident, nEvict, nSelf, nUnexpected, selfEvicted>>

BlocksOf(s) == {s[i] : i \in 1 .. Len(s)}

Started ==
  /\ resident = {}
  /\ phase = "idle"
  /\ alpha = {} /\ todo = <<>>
  /\ needed = 0 /\ progress = 0 /\ freed = 0 /\ attempts = 0
  /\ alphaResident = {}
  /\ nEvict = 0 /\ nSelf = 0 /\ nUnexpected = 0
  /\ selfEvicted = {}

Init == config \in Config /\ Started

Mutant_needed_counts_positions(blocks) ==
  Len(SelectSeq(blocks, LAMBDA b : b \notin resident)) - (config.size - Cardinality(resident))

Mutant_needed_one_short(blocks) ==
  Cardinality(BlocksOf(blocks) \ resident) - (config.size - Cardinality(resident)) - 1

\* The deficit: distinct missing blocks minus free slots.
Deficit(blocks) ==
  Cardinality(BlocksOf(blocks) \ resident) - (config.size - Cardinality(resident))

\* Between phases 2 and 3 the request is recorded, which changes what is resident
\* where sessions are kept.
Recording == IF config.unit = "session" THEN "record" ELSE "access"

\* serve up to phase 2: a request that can never fit is skipped.
serve(blocks) ==
  /\ phase = "idle"
  /\ IF Cardinality(BlocksOf(blocks)) > config.size
       THEN UNCHANGED <<phase, alpha, todo, needed, alphaResident>>
       ELSE /\ alpha' = BlocksOf(blocks)
            /\ todo' = blocks
            /\ needed' = Deficit(blocks)
            /\ alphaResident' = BlocksOf(blocks) \cap resident
            /\ phase' = IF Deficit(blocks) > 0 THEN "allocate" ELSE Recording
  /\ progress' = 0 /\ freed' = 0 /\ attempts' = 0
  /\ nEvict' = 0 /\ nSelf' = 0 /\ nUnexpected' = 0
  /\ selfEvicted' = {}
  /\ UNCHANGED <<config, resident>>

Mutant_gives_up_at_a_pin ==
  IF config.pin /\ config.honours /\ resident \cap alpha = {}
    THEN resident \ alpha
    ELSE resident

\* The victims an algorithm may choose among.
Victims ==
  IF config.pin /\ config.honours /\ resident \ alpha # {}
    THEN resident \ alpha
    ELSE resident

Evicted(V) ==
  /\ resident' = resident \ V
  /\ selfEvicted' = selfEvicted \cup (V \cap alpha)
  /\ nEvict' = nEvict + Cardinality(V)
  /\ attempts' = 0

\* A round whose victims the recorder reports.
AllocateObserved(V) ==
  /\ phase = "allocate"
  /\ config.observed
  /\ V # {} /\ Evicted(V)
  /\ nSelf' = nSelf + Cardinality(V \cap alpha)
  /\ progress' = progress + Cardinality(V \ alpha)
  /\ phase' = IF progress' < needed THEN "allocate" ELSE Recording
  /\ UNCHANGED <<config, alpha, todo, needed, freed, alphaResident, nUnexpected>>

\* What the call may have taken: "`needed - progress` is a hard cap", but the loop
\* over the sessions ends with the session that reaches it, however many more of
\* its blocks go as well; and blocks another session claims stay.
Taken(V) ==
  CASE config.unit = "block" -> Cardinality(V) = 1
    [] config.unit = "batch" -> Cardinality(V) <= needed - progress
    [] config.unit = "session" -> TRUE

\* SessionCache's record_request: the turn claims its blocks and releases those of
\* the session's previous turn, of which R are claimed by no other.  The recorder is
\* cleared before phase 3, so these evictions are not counted.
RecordSession(R) ==
  /\ phase = "record"
  /\ resident' = resident \ R
  /\ phase' = "access"
  /\ UNCHANGED <<config, alpha, todo, needed, progress, freed, attempts,
                 alphaResident, nEvict, nSelf, nUnexpected, selfEvicted>>

Mutant_reprobe_counts_missing(V) ==
  LET now == resident \ V
      remaining == Cardinality(alpha \ now) - (config.size - Cardinality(now))
  IN
  /\ phase = "allocate"
  /\ ~ config.observed
  /\ V # {} /\ Evicted(V)
  /\ IF freed + Cardinality(V) < needed
       THEN freed' = freed + Cardinality(V) /\ UNCHANGED <<phase, needed, alphaResident, nSelf>>
       ELSE /\ nSelf' = nSelf + Cardinality(alphaResident \ now)
            /\ freed' = 0
            /\ needed' = remaining
            /\ phase' = IF remaining > 0 THEN "allocate" ELSE "access"
            /\ UNCHANGED alphaResident
  /\ UNCHANGED <<config, alpha, todo, progress, nUnexpected>>

\* A round in which the cache shrank and nothing was reported: once a whole
\* deficit has been freed the request is probed again and the deficit recomputed.
AllocateUnobserved(V) ==
  LET now == resident \ V
      remaining == Cardinality(alpha \ now) - (config.size - Cardinality(now))
  IN
  /\ phase = "allocate"
  /\ ~ config.observed
  /\ V # {} /\ Evicted(V)
  /\ IF freed + Cardinality(V) < needed
       THEN freed' = freed + Cardinality(V) /\ UNCHANGED <<phase, needed, alphaResident, nSelf>>
       ELSE /\ nSelf' = nSelf + Cardinality(alphaResident \ now)
            /\ alphaResident' = alphaResident \cap now
            /\ freed' = 0
            /\ needed' = remaining
            /\ phase' = IF remaining > 0 THEN "allocate" ELSE "access"
  /\ UNCHANGED <<config, alpha, todo, progress, nUnexpected>>

Mutant_retry_restarts_count ==
  /\ phase = "allocate"
  /\ config.unit = "block"
  /\ attempts' = IF attempts + 1 < Cardinality(resident) + RetryMargin THEN attempts + 1 ELSE 0
  /\ UNCHANGED <<config, resident, phase, alpha, todo, needed, progress, freed,
                 alphaResident, nEvict, nSelf, nUnexpected, selfEvicted>>

\* evict freed and reported nothing (it only moved an object between internal
\* queues): it is called again, up to n_obj + RetryMargin times; then, and at
\* once after a fruitless evict_n, serve gives up.
AllocateNothing ==
  LET again == /\ config.unit = "block"
               /\ resident # {}
               /\ attempts + 1 < Cardinality(resident) + RetryMargin
  IN
  /\ phase = "allocate"
  /\ attempts' = IF again THEN attempts + 1 ELSE 0
  /\ phase' = IF again THEN "allocate" ELSE "failed"
  /\ UNCHANGED <<config, resident, alpha, todo, needed, progress, freed,
                 alphaResident, nEvict, nSelf, nUnexpected, selfEvicted>>

\* access: cache->get of the deepest block not yet replayed.
CurrentBlock == todo[Len(todo)]

AccessHit ==
  /\ phase = "access" /\ todo # <<>>
  /\ CurrentBlock \in resident
  /\ todo' = SubSeq(todo, 1, Len(todo) - 1)
  /\ UNCHANGED <<config, resident, phase, alpha, needed, progress, freed, attempts,
                 alphaResident, nEvict, nSelf, nUnexpected, selfEvicted>>

Mutant_miss_is_refused ==
  /\ phase = "access" /\ todo # <<>>
  /\ CurrentBlock \notin resident
  /\ resident' = IF Cardinality(resident) + 1 < config.size
                   THEN resident \cup {CurrentBlock} ELSE resident
  /\ todo' = SubSeq(todo, 1, Len(todo) - 1)
  /\ UNCHANGED <<config, phase, alpha, needed, progress, freed, attempts,
                 alphaResident, nEvict, nSelf, nUnexpected, selfEvicted>>

\* A miss inserts, after the evictions cache_get_base would make for itself were
\* there no room; the pins are gone by then.
AccessMiss ==
  /\ phase = "access" /\ todo # <<>>
  /\ CurrentBlock \notin resident
  /\ IF Cardinality(resident) + 1 > config.size
       THEN /\ \E v \in resident : resident' = resident \ {v}
            /\ nUnexpected' = nUnexpected + 1
            /\ UNCHANGED todo
       ELSE /\ resident' = resident \cup {CurrentBlock}
            /\ todo' = SubSeq(todo, 1, Len(todo) - 1)
            /\ UNCHANGED nUnexpected
  /\ UNCHANGED <<config, phase, alpha, needed, progress, freed, attempts,
                 alphaResident, nEvict, nSelf, selfEvicted>>

\* The residency check at the end of serve.
Verify ==
  /\ phase = "access" /\ todo = <<>>
  /\ phase' = IF alpha \subseteq resident THEN "idle" ELSE "failed"
  /\ UNCHANGED <<config, resident, alpha, todo, needed, progress, freed, attempts,
                 alphaResident, nEvict, nSelf, nUnexpected, selfEvicted>>

Serving ==
  \/ \E V \in SUBSET Victims : Taken(V) /\ AllocateObserved(V)
  \/ \E v \in Victims : AllocateUnobserved({v})
  \/ AllocateNothing
  \/ \E R \in SUBSET (resident \ alpha) : RecordSession(R)
  \/ AccessHit
  \/ AccessMiss
  \/ Verify

Next == (\E blocks \in Requests : serve(blocks)) \/ Serving

Spec == Init /\ [][Next]_vars

-----------------------------------------------------------------------------
\* Properties.

\* "Phase 2 reserved exactly enough room": access never has to evict, whichever
\* blocks phase 2 sacrificed, its own included.
NoUnexpectedEvictions ==
  /\ nUnexpected = 0
  /\ phase = "access" => Cardinality(resident \cup alpha) <= config.size

\* n_self_evictions is exact although it is counted from reports for some
\* algorithms and recovered by probing for the others.
SelfCountExact == phase = "access" => nSelf = Cardinality(selfEvicted)

\* The termination comment of allocate: while it needs room, some resident
\* block is not wanted; so an algorithm that honours the pins never takes a
\* block of the request.
PinsHold == (config.pin /\ config.honours) => selfEvicted = {}

\* A request served is resident: the verification never fails (the only
\* failure is an algorithm that evicts nothing).
ServedIsResident == [][phase = "access" => phase' # "failed"]_vars
==============================================================================
