----------------------------- MODULE Structures ------------------------------
(***************************************************************************)
(* What the policies rest on and what runs them, each on its own; exercise *)
(* says which one this behaviour is about: the list of cacheObj.h and the  *)
(* chained hash table, pointer by pointer; the heap of pqueue.c; the splay *)
(* tree of the stack distance profilers; the LRU stack those profilers     *)
(* presume, in two LRU caches on one trace; and the thread pool of         *)
(* simulator.c.                                                            *)
(***************************************************************************)
EXTENDS Simulator

CONSTANTS
  Obj, Null,                                  \* of LinkedList
  Hash, InitPower, Threshold, MaxTries,       \* of HashTable
  Entries, Priorities,                        \* of PQueue
  MaxIds, MaxReq, MaxSize, Kinds,             \* of StackDist
  SmallSize, LargeSize, MdSize, ReqSize, NoReq,   \* of LRUStack
  Exercised                                   \* the parts of this instance

\* Every object of LRUStack's trace fits the smaller cache.
ASSUME StructAssumption ==
  /\ Null \notin Obj
  /\ SmallSize <= LargeSize
  /\ \A s \in ReqSize : s + MdSize <= SmallSize

VARIABLES
  exercise,
  head, tail, prev, next, q,
  power, bucket, hashNext, nObj, pc, old, index, cur, after, tries, members,
  heap,
  kind, phase, trace, last, tree, dist, hits,
  size, sResident, sObjSize, sOccupied, sNObj, sPc, sReq, sToDump, sq, sPinned,
  lResident, lObjSize, lOccupied, lNObj, lPc, lReq, lToDump, lq, lPinned

listVars == <<head, tail, prev, next, q>>
tableVars == <<power, bucket, hashNext, nObj, pc, old, index, cur, after, tries, members>>
distVars == <<kind, phase, trace, last, tree, dist, hits>>
stackVars ==
  <<size, sResident, sObjSize, sOccupied, sNObj, sPc, sReq, sToDump, sq, sPinned,
    lResident, lObjSize, lOccupied, lNObj, lPc, lReq, lToDump, lq, lPinned>>
otherVars == <<listVars, tableVars, heap, distVars, stackVars>>
allVars == <<exercise, vars, otherVars>>

List == INSTANCE LinkedList

Table == INSTANCE HashTable

Heap == INSTANCE PQueue WITH Node <- Entries, Pri <- Priorities

Dist == INSTANCE StackDist

Stack == INSTANCE LRUStack

\* The parts that are not exercised stay as they were created.
StructInit ==
  /\ exercise \in Exercised
  /\ List!Init /\ Table!Init /\ Heap!HeapInit
  /\ Dist!DistInit /\ (exercise # "profiler" => kind = CHOOSE k \in Kinds : TRUE)
  /\ Stack!Init
  /\ exercise # "stack" => size = [o \in Obj |-> CHOOSE s \in ReqSize : TRUE]
  /\ Init /\ (exercise # "simulator" => mode = CHOOSE m \in Modes : TRUE)

OfList(A) ==
  exercise = "list" /\ A /\ UNCHANGED <<exercise, vars, tableVars, heap, distVars, stackVars>>
OfTable(A) ==
  exercise = "table" /\ A /\ UNCHANGED <<exercise, vars, listVars, heap, distVars, stackVars>>
OfHeap(A) ==
  exercise = "heap" /\ A /\ UNCHANGED <<exercise, vars, listVars, tableVars, distVars, stackVars>>
OfProfiler(A) ==
  exercise = "profiler" /\ A /\ UNCHANGED <<exercise, vars, listVars, tableVars, heap, stackVars>>
OfStack(A) ==
  exercise = "stack" /\ A /\ UNCHANGED <<exercise, vars, listVars, tableVars, heap, distVars>>
OfSimulator(A) ==
  exercise = "simulator" /\ A /\ UNCHANGED <<exercise, otherVars>>

\* A turn of the spin on progress changes nothing, and there is nothing left to do
\* when the simulation has returned.
Stay ==
  /\ main = "returned" \/ (main = "wait" /\ progress < NCaches - 1)
  /\ UNCHANGED vars

StructNext ==
  \/ OfList(List!Next)
  \/ OfTable(Table!Next)
  \/ OfHeap(Heap!HeapNext)
  \/ OfProfiler(Dist!DistNext)
  \/ OfStack(Stack!Next)
  \/ OfSimulator(Next \/ Stay)

\* The thread that called into the hash table runs on, and the operating system
\* schedules every thread of the simulator.
StructSpec ==
  /\ StructInit /\ [][StructNext]_allVars
  /\ WF_allVars(OfTable(Table!Running))
  /\ WF_allVars(OfSimulator(MainStep))
  /\ \A t \in Threads : WF_allVars(OfSimulator(WorkerStep(t)))

-----------------------------------------------------------------------------
\* Properties.

\* The pointers of the list hold the sequence the policies work with, in both
\* directions, and the search from the head of a list without prev pointers
\* finds the same neighbours.
ListExact == List!Represents /\ List!SlistPrevAgrees

\* Between calls a lookup in the hash table finds exactly the ids that were
\* inserted and not deleted, and n_obj counts them; while the table is rehashed
\* every object is either in its own bucket of the new table
\* (check_hashtable_integrity_v2) or still to be moved, none in both, none lost.
TableExact == Table!FindIsMembership /\ Table!RehashLosesNothing

\* rand_obj returns, whatever random numbers it draws.
RandTerminates == (pc = "rand") ~> (pc = "idle")

\* The heap stays a heap and every entry knows its place, whatever is inserted,
\* removed from the middle, popped or given another priority.
HeapValid == Heap!HeapValid

\* The profilers' distances and hit counts are those the trace defines.
DistancesExact == Dist!DistancesExact

\* An id requested again gets a distance (dist.c, "it has not been requested
\* before" where -1 is returned).
ReuseIsSeen == Dist!ReuseIsSeen

\* Between two requests the smaller LRU's queue is the head of the larger one's.
Inclusion == Stack!Inclusion

\* The simulation returns, and with every cache it was told to free freed.
Returns ==
  (exercise = "simulator") ~> (main = "returned" /\ (mode.free => alive = {}))
==============================================================================
