------------------------------ MODULE Simulator ------------------------------
(***************************************************************************)
(* profiler/simulator.c: simulate_at_multi_sizes,                          *)
(* simulate_with_multi_caches and simulate_with_multi_caches_scaling push  *)
(* one task per cache to a GLib thread pool, spin on a shared progress     *)
(* counter and join; _simulate replays the trace through one cache.  The   *)
(* caches themselves are abstract: whether the k-th get of a cache misses  *)
(* is a fixed fact, so that every difference between runs is one the       *)
(* simulator's own threads made.                                           *)
(***************************************************************************)
EXTENDS Integers, FiniteSets, Sequences

CONSTANTS
  NCaches,        \* num_of_caches; caches and tasks are 1 .. NCaches
  NThreads,       \* num_of_threads
  Times,          \* the clock_time of each request of the trace
  WarmupLen,      \* requests of warmup_reader, 0 for none
  WarmupReq,      \* n_warmup_req
  WarmupSec,      \* warmup_sec
  Misses,         \* <<c, k>>: the k-th get of cache c misses
  Composite       \* caches that keep their objects in sub-caches

Caches == 1 .. NCaches
Threads == 1 .. NThreads

ASSUME SimAssumption ==
  /\ NCaches \in Nat \ {0} /\ NThreads \in Nat \ {0}
  /\ Times \in Seq(Int)
  /\ WarmupLen \in Nat /\ WarmupReq \in Nat /\ WarmupSec \in Nat
  /\ Misses \subseteq Caches \X Nat
  /\ Composite \subseteq Caches

VARIABLES
  mode,         \* which of the three entry points, and free_cache_when_finish
  main,         \* "push", "log", "wait", "join" or "returned"
  pushed,       \* tasks pushed so far
  queue,        \* the pool's queue
  worker,       \* per thread: its place in _simulate and locals
  mtx,          \* params->mtx: the thread holding it, or 0
  progress,
  result,       \* per cache: the cache_stat_t fields
  alive,        \* caches not freed
  paramsAlive,  \* params not freed
  gets, objs,   \* per cache: gets served, objects held
  usedFreed     \* history: who touched freed memory, "task" or "log"

vars == <<mode, main, pushed, queue, worker, mtx, progress, result, alive,
          paramsAlive, gets, objs, usedFreed>>

Modes == {[entry |-> "sizes", free |-> TRUE]}
         \cup [entry : {"caches", "scaling"}, free : BOOLEAN]

Idle == [at |-> "idle", c |-> 0, pos |-> 0, warm |-> 0, read |-> 0]

Init ==
  /\ mode \in Modes
  /\ main = "push" /\ pushed = 0 /\ queue = <<>>
  /\ worker = [t \in Threads |-> Idle]
  /\ mtx = 0 /\ progress = 0
  /\ result = [c \in Caches |-> [n_req |-> 0, n_miss |-> 0, n_warmup_req |-> 0, n_obj |-> 0]]
  /\ alive = IF mode.entry = "sizes" THEN {} ELSE Caches
  /\ paramsAlive = TRUE
  /\ gets = [c \in Caches |-> 0] /\ objs = [c \in Caches |-> 0]
  /\ usedFreed = {}

workerVars == <<worker, mtx, progress, result, gets, objs>>

-----------------------------------------------------------------------------
\* The calling thread.

\* One iteration of the push loop; simulate_at_multi_sizes creates the cache first.
Push ==
  /\ main = "push" /\ pushed < NCaches
  /\ pushed' = pushed + 1
  /\ alive' = IF mode.entry = "sizes" THEN alive \cup {pushed + 1} ELSE alive
  /\ queue' = Append(queue, pushed + 1)
  /\ main' = IF pushed + 1 = NCaches THEN "log" ELSE "push"
  /\ UNCHANGED <<mode, paramsAlive, usedFreed, workerVars>>

\* The INFO message: only simulate_with_multi_caches reads the caches for it.
Log ==
  /\ main = "log"
  /\ main' = "wait"
  /\ usedFreed' = IF mode.entry = "caches" /\ ~ {1, NCaches} \subseteq alive
                     THEN usedFreed \cup {"log"} ELSE usedFreed
  /\ UNCHANGED <<mode, pushed, queue, alive, paramsAlive, workerVars>>

\* The spin on progress, read without the mutex.
Wait ==
  /\ main = "wait"
  /\ ~ progress < NCaches - 1
  /\ main' = "join"
  /\ UNCHANGED <<mode, pushed, queue, alive, paramsAlive, usedFreed, workerVars>>

Mutant_join_without_waiting ==
  /\ main = "join"
  /\ main' = "returned"
  /\ paramsAlive' = FALSE
  /\ UNCHANGED <<mode, pushed, queue, alive, usedFreed, workerVars>>

Mutant_join_on_progress ==
  /\ main = "join"
  /\ progress = NCaches
  /\ main' = "returned"
  /\ paramsAlive' = FALSE
  /\ UNCHANGED <<mode, pushed, queue, alive, usedFreed, workerVars>>

\* g_thread_pool_free(pool, FALSE, TRUE) returns when every task has run.
Join ==
  /\ main = "join"
  /\ queue = <<>> /\ \A t \in Threads : worker[t].at = "idle"
  /\ main' = "returned"
  /\ paramsAlive' = FALSE
  /\ UNCHANGED <<mode, pushed, queue, alive, usedFreed, workerVars>>

-----------------------------------------------------------------------------
\* _simulate, run by thread t of the pool.

mainVars == <<mode, main, pushed, paramsAlive>>

\* Every step of a task works on its cache and on params.
Touch(c) ==
  usedFreed' = IF paramsAlive /\ c \in alive THEN usedFreed ELSE usedFreed \cup {"task"}

\* clone_reader gives the task a position of its own.
Start(t) ==
  /\ worker[t].at = "idle" /\ queue # <<>>
  /\ worker' = [worker EXCEPT ![t] =
       [at |-> "warmup_reader", c |-> Head(queue), pos |-> 1, warm |-> 0, read |-> 0]]
  /\ queue' = Tail(queue)
  /\ Touch(Head(queue))
  /\ UNCHANGED <<mainVars, mtx, progress, result, alive, gets, objs>>

\* local_cache->get: the miss, and the objects the cache then holds.
IsMiss(c) == <<c, gets[c] + 1>> \in Misses

CacheGet(c) ==
  /\ gets' = [gets EXCEPT ![c] = @ + 1]
  /\ objs' = [objs EXCEPT ![c] = IF IsMiss(c) THEN @ + 1 ELSE @]

\* One request of warmup_reader, then on to the trace.
WarmupReaderStep(t) ==
  LET c == worker[t].c IN
  /\ worker[t].at = "warmup_reader"
  /\ Touch(worker[t].c)
  /\ IF gets[c] < WarmupLen
       THEN /\ CacheGet(c)
            /\ result' = [result EXCEPT ![c].n_warmup_req = @ + 1]
            /\ UNCHANGED worker
       ELSE /\ worker' = [worker EXCEPT ![t].at = "warmup"]
            /\ UNCHANGED <<result, gets, objs>>
  /\ UNCHANGED <<mainVars, queue, mtx, progress, alive>>

\* The condition of the warm-up loop on the request just read.
Warming(t) ==
  /\ WarmupReq > 0 \/ WarmupSec > 0
  /\ worker[t].pos <= Len(Times)
  /\ \/ worker[t].warm < WarmupReq
     \/ Times[worker[t].pos] - Times[1] < WarmupSec

WarmupStep(t) ==
  LET c == worker[t].c IN
  /\ worker[t].at = "warmup"
  /\ Touch(worker[t].c)
  /\ IF Warming(t)
       THEN /\ CacheGet(c)
            /\ worker' = [worker EXCEPT ![t].pos = @ + 1, ![t].warm = @ + 1]
            /\ UNCHANGED result
       ELSE /\ result' = [result EXCEPT ![c].n_warmup_req = @ + worker[t].warm]
            /\ worker' = [worker EXCEPT ![t].at = "replay"]
            /\ UNCHANGED <<gets, objs>>
  /\ UNCHANGED <<mainVars, queue, mtx, progress, alive>>

\* One request of the measured part, then the cache's final state.
Replay(t) ==
  LET c == worker[t].c IN
  /\ worker[t].at = "replay"
  /\ Touch(worker[t].c)
  /\ IF worker[t].pos <= Len(Times)
       THEN /\ CacheGet(c)
            /\ result' = [result EXCEPT ![c].n_req = @ + 1,
                                        ![c].n_miss = IF IsMiss(c) THEN @ + 1 ELSE @]
            /\ worker' = [worker EXCEPT ![t].pos = @ + 1]
       ELSE /\ result' = [result EXCEPT ![c].n_obj = IF c \in Composite THEN 0 ELSE objs[c]]
            /\ worker' = [worker EXCEPT ![t].at = "lock"]
            /\ UNCHANGED <<gets, objs>>
  /\ UNCHANGED <<mainVars, queue, mtx, progress, alive>>

Mutant_no_mutex(t) ==
  /\ worker[t].at = "lock"
  /\ Touch(worker[t].c)
  /\ worker' = [worker EXCEPT ![t].at = "report", ![t].read = progress]
  /\ UNCHANGED <<mainVars, queue, mtx, progress, result, alive, gets, objs>>

\* (*params->progress)++ is a load and a store, under the mutex.
Lock(t) ==
  /\ worker[t].at = "lock" /\ mtx = 0
  /\ mtx' = t
  /\ Touch(worker[t].c)
  /\ worker' = [worker EXCEPT ![t].at = "report", ![t].read = progress]
  /\ UNCHANGED <<mainVars, queue, progress, result, alive, gets, objs>>

Mutant_report_keeps_mutex(t) ==
  /\ worker[t].at = "report"
  /\ progress' = worker[t].read + 1
  /\ Touch(worker[t].c)
  /\ worker' = [worker EXCEPT ![t].at = "cleanup"]
  /\ UNCHANGED <<mainVars, queue, mtx, result, alive, gets, objs>>

Report(t) ==
  /\ worker[t].at = "report"
  /\ progress' = worker[t].read + 1
  /\ Touch(worker[t].c)
  /\ mtx' = 0
  /\ worker' = [worker EXCEPT ![t].at = "cleanup"]
  /\ UNCHANGED <<mainVars, queue, result, alive, gets, objs>>

\* free_cache_when_finish is read from params after progress was reported.
Cleanup(t) ==
  /\ worker[t].at = "cleanup"
  /\ Touch(worker[t].c)
  /\ alive' = IF mode.free THEN alive \ {worker[t].c} ELSE alive
  /\ worker' = [worker EXCEPT ![t] = Idle]
  /\ UNCHANGED <<mainVars, queue, mtx, progress, result, gets, objs>>

WorkerStep(t) ==
  \/ Start(t)
  \/ WarmupReaderStep(t)
  \/ WarmupStep(t)
  \/ Replay(t)
  \/ Lock(t)
  \/ Report(t)
  \/ Cleanup(t)

MainStep == Push \/ Log \/ Wait \/ Join

Next == MainStep \/ \E t \in Threads : WorkerStep(t)

Spec == Init /\ [][Next]_vars

-----------------------------------------------------------------------------
\* Properties.

\* What one thread alone would measure for cache c: the gets of the warm-up, and
\* the misses among the gets that follow it.
StillWarm(k) == k < WarmupReq \/ Times[k + 1] - Times[1] < WarmupSec

WarmsUpFor(k) ==
  /\ \A j \in 0 .. k - 1 : StillWarm(j)
  /\ k < Len(Times) => ~ StillWarm(k)

SequentialWarmup ==
  IF WarmupReq = 0 /\ WarmupSec = 0 THEN 0
  ELSE CHOOSE k \in 0 .. Len(Times) : WarmsUpFor(k)

MissesIn(c, first, last) == {k \in first .. last : <<c, k>> \in Misses}

\* r is what a sequential replay of cache c measures.
Measured(c, r) ==
  LET warm == WarmupLen + SequentialWarmup
      last == WarmupLen + Len(Times) IN
  /\ r.n_req = last - warm
  /\ r.n_miss = Cardinality(MissesIn(c, warm + 1, last))
  /\ r.n_warmup_req = warm

\* The results handed to the caller are the ones a sequential replay gives,
\* whatever the number of threads and their interleaving.
ResultsSequential == main = "returned" => \A c \in Caches : Measured(c, result[c])

\* Tasks that left the queue and that no worker has yet to report.
Reported ==
  {c \in Caches : /\ c <= pushed
                  /\ \A i \in 1 .. Len(queue) : queue[i] # c
                  /\ \A t \in Threads : worker[t].c = c => worker[t].at = "cleanup"}

\* progress counts the tasks that reported: no increment is lost.
ProgressExact == progress = Cardinality(Reported)

\* Tasks never work on params or a cache that was freed, although params is
\* freed by the caller and read by a task after it reported its progress.
TasksTouchLiveMemory == "task" \notin usedFreed

\* Tasks that left the queue.  It is first in, first out and the caches are
\* pushed in order, so these are the caches 1 .. Started.
Started == pushed - Len(queue)

Worker == [at : {"idle", "warmup_reader", "warmup", "replay", "lock", "report", "cleanup"},
           c : 0 .. NCaches, pos : Nat, warm : Nat, read : Nat]

\* The inductive strengthening of ProgressExact and TasksTouchLiveMemory: a task
\* is in the queue or with one worker, the only one who may be between the load
\* and the store of progress holds the mutex, and what a queued or running task
\* will touch is alive until it ends.
TasksInv ==
  /\ pushed \in 0 .. NCaches
  /\ main # "push" => pushed = NCaches
  /\ queue \in Seq(Caches) /\ Len(queue) <= pushed
  /\ \A i \in 1 .. Len(queue) : queue[i] = Started + i
  /\ worker \in [Threads -> Worker]
  /\ \A t \in Threads : /\ worker[t].at = "idle" <=> worker[t].c = 0
                        /\ worker[t].c <= Started
                        /\ worker[t].at = "report" => mtx = t /\ worker[t].read = progress
                        /\ worker[t].c # 0 => worker[t].c \in alive
  /\ \A t, u \in Threads : worker[t].c = worker[u].c /\ worker[t].c # 0 => t = u
  /\ \A c \in Caches : c > Started /\ (c <= pushed \/ mode.entry # "sizes") => c \in alive
  /\ paramsAlive \/ main = "returned"
  /\ main = "returned" => queue = <<>> /\ \A t \in Threads : worker[t].at = "idle"
  /\ TasksTouchLiveMemory
  /\ progress \in Nat

SimInv == TasksInv /\ ProgressExact

\* How far the result r of a task is, from where its worker w is and the number
\* of gets g of its cache.
OnTrack(w, g, r) ==
  /\ w.at = "warmup_reader" =>
       /\ g <= WarmupLen /\ w.pos = 1 /\ w.warm = 0
       /\ r.n_warmup_req = g /\ r.n_req = 0 /\ r.n_miss = 0
  /\ w.at = "warmup" =>
       /\ g = WarmupLen + w.warm /\ w.pos = w.warm + 1
       /\ r.n_warmup_req = WarmupLen /\ r.n_req = 0 /\ r.n_miss = 0
       /\ w.warm <= Len(Times) /\ \A j \in 0 .. w.warm - 1 : StillWarm(j)
       /\ WarmupReq = 0 /\ WarmupSec = 0 => w.warm = 0
  /\ w.at = "replay" =>
       /\ SequentialWarmup \in Nat /\ w.pos \in SequentialWarmup + 1 .. Len(Times) + 1
       /\ g = WarmupLen + w.pos - 1
       /\ r.n_warmup_req = WarmupLen + SequentialWarmup
       /\ r.n_req = w.pos - 1 - SequentialWarmup
       /\ r.n_miss = Cardinality(MissesIn(w.c, WarmupLen + SequentialWarmup + 1, g))
  /\ w.at \in {"lock", "report", "cleanup"} => Measured(w.c, r)

\* The inductive strengthening of ResultsSequential, with TasksInv: a cache whose
\* task is not yet started is untouched, a started one is on track with its only
\* worker, and one no worker has any more is measured.
ResultInv ==
  /\ gets \in [Caches -> Nat]
  /\ result \in [Caches -> [n_req : Nat, n_miss : Nat, n_warmup_req : Nat, n_obj : Nat]]
  /\ objs \in [Caches -> Nat]
  /\ \A c \in Caches :
       /\ c > Started => /\ gets[c] = 0 /\ result[c].n_warmup_req = 0
                         /\ result[c].n_req = 0 /\ result[c].n_miss = 0
       /\ c <= Started /\ (\A t \in Threads : worker[t].c # c) => Measured(c, result[c])
  /\ \A t \in Threads :
       worker[t].c # 0 => OnTrack(worker[t], gets[worker[t].c], result[worker[t].c])
==============================================================================
