--------------------------- MODULE CacheBase_proofs ---------------------------
(***************************************************************************)
(* Proofs about the shared bookkeeping of cache.c, for every set of        *)
(* objects, cache size, metadata size and set of request sizes.            *)
(***************************************************************************)
EXTENDS CacheBase, FiniteSetTheorems, TLAPS

\* One object contributes as many cells as it is charged bytes.
LEMMA BlockCardinality ==
  ASSUME NEW o, NEW n \in Nat
  PROVE  /\ IsFiniteSet({o} \X (1 .. n))
         /\ Cardinality({o} \X (1 .. n)) = n
<1>1. IsFiniteSet({o}) /\ Cardinality({o}) = 1
  BY FS_Singleton
<1>2. IsFiniteSet(1 .. n) /\ Cardinality(1 .. n) = n
  BY FS_Interval
<1>3. /\ IsFiniteSet({o} \X (1 .. n))
      /\ Cardinality({o} \X (1 .. n)) = Cardinality({o}) * Cardinality(1 .. n)
  BY <1>1, <1>2, FS_Product, Zenon
<1> QED
  BY <1>1, <1>2, <1>3

\* Inserting an object adds exactly its charge to the cells (cache_insert_base).
LEMMA CellsInsert ==
  ASSUME NEW R, R \subseteq Obj, NEW size \in [Obj -> Nat], NEW o \in Obj,
         o \notin R, NEW s \in Nat, IsFiniteSet(CellsOf(R, size))
  PROVE  LET C == CellsOf(R \cup {o}, [size EXCEPT ![o] = s]) IN
         /\ IsFiniteSet(C)
         /\ Cardinality(C) = Cardinality(CellsOf(R, size)) + Charge(s)
<1> DEFINE B == {o} \X (1 .. Charge(s))
           C == CellsOf(R \cup {o}, [size EXCEPT ![o] = s])
<1>1. C = CellsOf(R, size) \cup B
  BY DEF CellsOf
<1>2. CellsOf(R, size) \cap B = {}
  BY DEF CellsOf
<1>3. Charge(s) \in Nat
  BY BaseAssumption DEF Charge
<1>4. IsFiniteSet(B) /\ Cardinality(B) = Charge(s)
  BY <1>3, BlockCardinality
<1>5. Cardinality(CellsOf(R, size)) \in Nat
  BY FS_CardinalityType
<1> HIDE DEF B, C
<1> DEFINE A == CellsOf(R, size)
<1>6. IsFiniteSet(A) /\ IsFiniteSet(B)
  BY <1>4
<1> HIDE DEF A
<1>7. /\ IsFiniteSet(A \cup B)
      /\ Cardinality(A \cup B) = Cardinality(A) + Cardinality(B) - Cardinality(A \cap B)
  BY ONLY <1>6, FS_Union, Zenon
<1>8. C = A \cup B /\ A \cap B = {}
  BY <1>1, <1>2 DEF A
<1>9. /\ IsFiniteSet(C)
      /\ Cardinality(C) = Cardinality(A) + Cardinality(B) - Cardinality({})
  BY ONLY <1>7, <1>8, Zenon
<1>10. Cardinality(C) = Cardinality(A) + Charge(s)
  BY <1>3, <1>4, <1>5, <1>9, FS_EmptySet DEF A
<1> QED
  BY <1>9, <1>10 DEF A, C

\* Taking an object out frees exactly its charge (cache_remove_obj_base).
LEMMA CellsRemove ==
  ASSUME NEW R, R \subseteq Obj, NEW size \in [Obj -> Nat], NEW o \in R,
         IsFiniteSet(CellsOf(R, size))
  PROVE  LET C == CellsOf(R \ {o}, [size EXCEPT ![o] = 0]) IN
         /\ IsFiniteSet(C)
         /\ Cardinality(C) = Cardinality(CellsOf(R, size)) - Charge(size[o])
<1> DEFINE B == {o} \X (1 .. Charge(size[o]))
           C == CellsOf(R \ {o}, [size EXCEPT ![o] = 0])
<1>1. C = CellsOf(R, size) \ B
  BY DEF CellsOf
<1>2. CellsOf(R, size) \cap B = B
  BY DEF CellsOf
<1>3. Charge(size[o]) \in Nat
  BY BaseAssumption DEF Charge
<1>4. IsFiniteSet(B) /\ Cardinality(B) = Charge(size[o])
  BY <1>3, BlockCardinality
<1> HIDE DEF B, C
<1> DEFINE A == CellsOf(R, size)
<1>5. IsFiniteSet(A)
  OBVIOUS
<1> HIDE DEF A
<1>6. /\ IsFiniteSet(A \ B)
      /\ Cardinality(A \ B) = Cardinality(A) - Cardinality(A \cap B)
  BY ONLY <1>5, FS_Difference, Zenon
<1>7. C = A \ B /\ A \cap B = B
  BY <1>1, <1>2 DEF A
<1>8. IsFiniteSet(C) /\ Cardinality(C) = Cardinality(A) - Cardinality(B)
  BY ONLY <1>6, <1>7, Zenon
<1> QED
  BY <1>4, <1>8 DEF A, C

\* The fields of a request.
LEMMA RequestFields ==
  ASSUME NEW r \in Request
  PROVE  r.obj \in Obj /\ r.size \in ReqSize /\ r.size \in Nat /\ Charge(r.size) \in Nat
<1>1. r.obj \in Obj /\ r.size \in ReqSize
  BY DEF Request
<1>2. r.size \in Nat
  BY <1>1, BaseAssumption, Zenon
<1>3. MdSize \in Nat
  BY BaseAssumption, Zenon
<1> QED
  BY <1>1, <1>2, <1>3 DEF Charge

\* What taking a resident object out preserves, shared by eviction and remove.
LEMMA RemoveStep ==
  ASSUME BaseInv, NEW v \in resident, cache_remove_obj_base(v)
  PROVE  /\ resident' \subseteq Obj
         /\ objSize' \in [Obj -> Nat]
         /\ occupied' \in Int
         /\ nObj' \in Int
         /\ IsFiniteSet(resident')
         /\ IsFiniteSet(Cells')
         /\ Accounting'
         /\ Capacity'
         /\ \A o \in resident' : objSize'[o] \in ReqSize
<1> USE DEF BaseInv, BaseTypeOK, cache_remove_obj_base
<1>1. /\ resident' \subseteq Obj
      /\ objSize' \in [Obj -> Nat]
      /\ \A o \in resident' : objSize'[o] \in ReqSize
  OBVIOUS
<1>2. Charge(objSize[v]) \in Nat
  BY BaseAssumption DEF Charge
<1>3. /\ IsFiniteSet(resident')
      /\ Cardinality(resident') = Cardinality(resident) - 1
  BY FS_RemoveElement
<1>4. /\ IsFiniteSet(Cells')
      /\ Cardinality(Cells') = Cardinality(Cells) - Charge(objSize[v])
  <2>1. Cells' = CellsOf(resident \ {v}, [objSize EXCEPT ![v] = 0])
    BY DEF Cells, CellsOf, Charge
  <2>2. IsFiniteSet(CellsOf(resident, objSize))
    BY DEF Cells
  <2> QED
    BY <2>1, <2>2, CellsRemove DEF Cells
<1>5. Accounting'
  BY <1>3, <1>4 DEF Accounting
<1>6. Capacity' /\ occupied' \in Int /\ nObj' \in Int
  BY <1>2, BaseAssumption DEF Capacity
<1> QED
  BY <1>1, <1>3, <1>4, <1>5, <1>6

\* What serving a pending miss preserves (cache_insert_base).
LEMMA InsertStep ==
  ASSUME BaseInv, GetInsert
  PROVE  BaseInv'
<1> USE DEF BaseInv, BaseTypeOK, GetInsert, cache_insert_base
<1>1. /\ req \in Request /\ req.obj \in Obj /\ req.size \in Nat
      /\ req.size \in ReqSize /\ req.obj \notin resident
  BY RequestFields
<1>2. /\ resident' \subseteq Obj
      /\ objSize' \in [Obj -> Nat]
      /\ \A o \in resident' : objSize'[o] \in ReqSize
  BY <1>1
<1>3. /\ IsFiniteSet(resident')
      /\ Cardinality(resident') = Cardinality(resident) + 1
  BY <1>1, FS_AddElement
<1>4. /\ IsFiniteSet(Cells')
      /\ Cardinality(Cells') = Cardinality(Cells) + Charge(req.size)
  <2>1. Cells' = CellsOf(resident \cup {req.obj},
                         [objSize EXCEPT ![req.obj] = req.size])
    BY DEF Cells, CellsOf, Charge
  <2>2. IsFiniteSet(CellsOf(resident, objSize))
    BY DEF Cells
  <2> QED
    BY <1>1, <2>1, <2>2, CellsInsert DEF Cells
<1>5. Accounting'
  BY <1>3, <1>4 DEF Accounting
<1>6. Charge(req.size) \in Nat
  BY <1>1, RequestFields
<1>7. Capacity' /\ occupied' \in Int /\ nObj' \in Int
  BY <1>6, BaseAssumption DEF Capacity, NeedEviction
<1> QED
  BY <1>2, <1>3, <1>4, <1>5, <1>7

\* The initial state of cache_struct_init satisfies the invariant.
LEMMA BaseInvInit == cache_struct_init => BaseInv
<1> SUFFICES ASSUME cache_struct_init PROVE BaseInv
  OBVIOUS
<1> USE DEF cache_struct_init
<1>1. Cells = {}
  BY DEF Cells, CellsOf
<1>2. BaseTypeOK
  BY DEF BaseTypeOK
<1> QED
  BY <1>1, <1>2, FS_EmptySet, BaseAssumption
  DEF BaseInv, Accounting, Capacity

\* Every step of the abstract cache preserves the invariant.
LEMMA BaseInvNext == BaseInv /\ [BaseNext]_baseVars => BaseInv'
<1> SUFFICES ASSUME BaseInv, [BaseNext]_baseVars PROVE BaseInv'
  OBVIOUS
<1>1. CASE UNCHANGED baseVars
  BY <1>1 DEF baseVars, BaseInv, BaseTypeOK, Accounting, Capacity, Cells
<1>2. ASSUME NEW r \in Request, GetHit(r) PROVE BaseInv'
  BY <1>1, <1>2 DEF GetHit
<1>3. ASSUME NEW r \in Request, NEW c \in BOOLEAN, GetRefused(r, c)
      PROVE  BaseInv'
  BY <1>1, <1>3 DEF GetRefused
<1>4. ASSUME NEW r \in Request, NEW admit \in BOOLEAN,
             GetMiss(r, cache_can_insert_default(r, admit))
      PROVE  BaseInv'
  <2> USE <1>4 DEF GetMiss, BaseInv
  <2>1. Cells' = Cells
    BY DEF Cells
  <2>2. BaseTypeOK'
    BY BaseAssumption DEF BaseTypeOK
  <2>3. Charge(r.size) \in Nat
    BY RequestFields
  <2>4. Charge(r.size) <= CacheSize
    BY <2>3, BaseAssumption DEF cache_can_insert_default
  <2> QED
    BY <2>1, <2>2, <2>4 DEF Accounting, Capacity, Charge
<1>5. ASSUME NEW v \in resident, GetEvict(v) PROVE BaseInv'
  <2>1. cache_remove_obj_base(v)
    BY <1>5 DEF GetEvict, cache_evict_base
  <2>2. UNCHANGED <<pc, req, toDump>> /\ pc = "room"
    BY <1>5 DEF GetEvict
  <2>3. resident' = resident \ {v}
    BY <2>1 DEF cache_remove_obj_base
  <2> QED
    BY <2>1, <2>2, <2>3, RemoveStep DEF BaseInv, BaseTypeOK, Charge
<1>6. ASSUME NEW v \in resident, Remove(v) PROVE BaseInv'
  <2>1. cache_remove_obj_base(v) /\ UNCHANGED <<pc, req, toDump>> /\ pc = "idle"
    BY <1>6 DEF Remove
  <2> QED
    BY <2>1, RemoveStep DEF BaseInv, BaseTypeOK
<1>12. ASSUME NEW v \in resident, EvictCall(v) PROVE BaseInv'
  <2>1. cache_remove_obj_base(v)
    BY <1>12 DEF EvictCall, cache_evict_base
  <2>2. UNCHANGED <<pc, req, toDump>> /\ pc # "dump"
    BY <1>12 DEF EvictCall
  <2>3. resident' = resident \ {v}
    BY <2>1 DEF cache_remove_obj_base
  <2> QED
    BY <2>1, <2>2, <2>3, RemoveStep DEF BaseInv, BaseTypeOK, Charge
<1>7. ASSUME NEW v \in resident, DumpEvict(v) PROVE BaseInv'
  <2>1. cache_remove_obj_base(v)
    BY <1>7 DEF DumpEvict, cache_evict_base
  <2>2. /\ UNCHANGED <<pc, req>> /\ pc = "dump"
        /\ toDump' = toDump - 1 /\ nObj' = nObj - 1
    BY <1>7, <2>1 DEF DumpEvict, cache_remove_obj_base
  <2> QED
    BY <2>1, <2>2, RemoveStep DEF BaseInv, BaseTypeOK
<1>8. CASE GetInsert
  BY <1>8, InsertStep
<1>13. CASE GetDropped
  <2>1. Cells' = Cells
    BY <1>13 DEF GetDropped, Cells
  <2>2. req' = NoReq /\ pc' = "idle"
    BY <1>13 DEF GetDropped
  <2> QED
    BY <1>13, <2>1, <2>2
    DEF GetDropped, BaseInv, BaseTypeOK, Accounting, Capacity
<1>9. CASE DumpStart
  <2>1. Cells' = Cells
    BY <1>9 DEF DumpStart, Cells
  <2> QED
    BY <1>9, <2>1
    DEF DumpStart, BaseInv, BaseTypeOK, Accounting, Capacity
<1>10. CASE DumpEnd
  <2>1. Cells' = Cells
    BY <1>10 DEF DumpEnd, Cells
  <2> QED
    BY <1>10, <2>1
    DEF DumpEnd, BaseInv, BaseTypeOK, Accounting, Capacity
<1>11. \A r \in Request, admit \in BOOLEAN :
         cache_can_insert_default(r, admit) \in BOOLEAN
  BY DEF cache_can_insert_default
<1> QED
  BY <1>1, <1>2, <1>3, <1>4, <1>5, <1>6, <1>7, <1>8, <1>9, <1>10, <1>11,
     <1>12, <1>13
  DEF BaseNext, GetNoHit

\* The invariant gives the properties a user of the cache relies on.
LEMMA BaseInvImplies ==
  BaseInv => /\ BaseTypeOK /\ Accounting /\ Capacity
             /\ EvictHasVictim /\ DumpLeavesUncharged /\ DumpCountsAll
<1> SUFFICES ASSUME BaseInv
             PROVE  /\ BaseTypeOK /\ Accounting /\ Capacity
                    /\ EvictHasVictim /\ DumpLeavesUncharged /\ DumpCountsAll
  OBVIOUS
<1>1. BaseTypeOK /\ Accounting /\ Capacity
  BY DEF BaseInv
<1>2. resident = {} => occupied = 0
  <2>1. resident = {} => Cells = {}
    BY DEF Cells, CellsOf
  <2> QED
    BY <2>1, <1>1, FS_EmptySet DEF Accounting
<1>3. ASSUME ~ occupied > 0 PROVE \A o \in resident : Charge(objSize[o]) = 0
  <2>1. occupied \in Nat
    BY <1>1, FS_CardinalityType DEF Accounting, BaseInv
  <2>2. Cells = {}
    BY <1>1, <1>3, <2>1, FS_EmptySet DEF Accounting, BaseInv
  <2> SUFFICES ASSUME NEW o \in resident, Charge(objSize[o]) # 0 PROVE FALSE
    OBVIOUS
  <2>3. Charge(objSize[o]) \in Nat
    BY BaseAssumption DEF BaseInv, BaseTypeOK, Charge
  <2>4. 1 \in 1 .. Charge(objSize[o])
    BY <2>3
  <2>5. <<o, 1>> \in Cells
    BY <2>4 DEF Cells, CellsOf
  <2> QED
    BY <2>2, <2>5
<1>4. EvictHasVictim
  <2> SUFFICES ASSUME resident = {}
               PROVE  /\ ~ (pc = "room" /\ NeedEviction(req))
                      /\ ~ (pc = "dump" /\ occupied > 0)
    BY DEF EvictHasVictim
  <2>1. ~ (pc = "dump" /\ occupied > 0)
    BY <1>2
  <2>2. ASSUME pc = "room" PROVE ~ NeedEviction(req)
    <3>1. req \in Request /\ Charge(req.size) <= CacheSize
      BY <2>2 DEF BaseInv, BaseTypeOK
    <3>2. Charge(req.size) \in Nat
      BY <3>1, RequestFields
    <3> QED
      BY <1>2, <3>1, <3>2, BaseAssumption DEF NeedEviction
  <2> QED
    BY <2>1, <2>2
<1>5. DumpLeavesUncharged
  BY <1>1, <1>3 DEF DumpLeavesUncharged, BaseInv, Accounting
<1>6. DumpCountsAll
  <2> SUFFICES ASSUME \A s \in ReqSize : Charge(s) > 0, pc = "dump", ~ occupied > 0
               PROVE  toDump = 0
    BY DEF DumpCountsAll
  <2>1. resident = {}
    BY <1>3 DEF BaseInv
  <2> QED
    BY <1>5, <2>1, FS_EmptySet DEF DumpLeavesUncharged
<1> QED
  BY <1>1, <1>4, <1>5, <1>6

\* The strengthened invariant, type correctness included: a pending request is
\* always a miss that fits an empty cache, and a dump still has exactly the
\* cached objects to evict.
THEOREM BaseInvariant == BaseSpec => []BaseInv
<1> QED
  BY BaseInvInit, BaseInvNext, PTL DEF BaseSpec

\* occupied_byte and n_obj always agree with the table, and the cache never
\* exceeds its size, whatever the policy picks as victims.
THEOREM BaseAccounting == BaseSpec => [](Accounting /\ Capacity)
<1> QED
  BY BaseInvInit, BaseInvNext, BaseInvImplies, PTL DEF BaseSpec

\* cache_get_base and dump_cached_obj_age never ask an empty cache for a
\* victim, also when objects of size 0 are cached; the dump leaves only what it
\* charges nothing for, and when it charges for everything the count asserted at
\* its end is right.
THEOREM BaseEvictionSafe ==
  BaseSpec => [](EvictHasVictim /\ DumpLeavesUncharged /\ DumpCountsAll)
<1> QED
  BY BaseInvInit, BaseInvNext, BaseInvImplies, PTL DEF BaseSpec
==============================================================================
