-------------------------- MODULE Simulator_proofs ---------------------------
(***************************************************************************)
(* The thread pool of simulator.c loses no report and touches no freed     *)
(* memory, for every number of caches and threads, every trace and every   *)
(* warm-up.                                                                *)
(***************************************************************************)
EXTENDS Simulator, FiniteSetTheorems, TLAPS

\* The invariant holds before the first task is pushed.
LEMMA SimInvInit == Init => SimInv
<1> SUFFICES ASSUME Init PROVE SimInv
  OBVIOUS
<1> USE SimAssumption
<1>1. TasksInv
  BY DEF Init, TasksInv, Started, Idle, Worker, TasksTouchLiveMemory, Caches, Threads, Modes
<1>2. Reported = {}
  BY DEF Init, Reported, Caches
<1> QED
  BY <1>1, <1>2, FS_EmptySet DEF SimInv, ProgressExact, Init

\* With the queue in order, the reported tasks are read off the workers.
Finished ==
  {c \in Caches : /\ c <= Started
                  /\ \A t \in Threads : worker[t].c = c => worker[t].at = "cleanup"}

\* A cache is reported exactly when it was started and no worker still has it
\* before its cleanup.
LEMMA ReportedByWorkers == TasksInv => Reported = Finished
<1> SUFFICES ASSUME TasksInv PROVE Reported = Finished
  OBVIOUS
<1>1. ASSUME NEW c \in Caches
      PROVE  (c <= pushed /\ \A i \in 1 .. Len(queue) : queue[i] # c) <=> c <= Started
  <2> USE SimAssumption DEF Caches
  <2>1. Len(queue) \in Nat /\ pushed \in Nat /\ c \in Nat
    BY DEF TasksInv
  <2>2. ASSUME c <= pushed, \A i \in 1 .. Len(queue) : queue[i] # c, ~ c <= Started
        PROVE  FALSE
    <3>1. c - Started \in 1 .. Len(queue)
      BY <2>1, <2>2 DEF Started
    <3>2. queue[c - Started] = Started + (c - Started)
      BY <3>1 DEF TasksInv
    <3> QED
      BY <2>1, <2>2, <3>1, <3>2 DEF Started
  <2>3. ASSUME c <= Started PROVE c <= pushed /\ \A i \in 1 .. Len(queue) : queue[i] # c
    BY <2>1, <2>3 DEF TasksInv, Started
  <2> QED
    BY <2>2, <2>3
<1> QED
  BY <1>1 DEF Reported, Finished

\* The same after a step.
LEMMA ReportedByWorkersNext == TasksInv' => Reported' = Finished'
<1>1. (TasksInv => Reported = Finished)'
  BY ReportedByWorkers, PTL
<1> QED
  BY <1>1

\* Every step of the caller keeps the tasks in order and their memory alive.
LEMMA MainKeepsTasks == ASSUME TasksInv, MainStep PROVE TasksInv'
<1> USE SimAssumption
<1>1. CASE Push
  <2>1. /\ pushed' = pushed + 1 /\ queue' = Append(queue, pushed + 1)
        /\ pushed < NCaches /\ pushed \in Nat /\ queue \in Seq(Caches)
        /\ main = "push" /\ main' = IF pushed + 1 = NCaches THEN "log" ELSE "push"
        /\ UNCHANGED <<mode, worker, mtx, progress, paramsAlive, usedFreed>>
    BY <1>1 DEF Push, workerVars, TasksInv
  <2>2. pushed + 1 \in Caches
    BY <2>1 DEF Caches
  <2>3. /\ queue' \in Seq(Caches) /\ Len(queue') = Len(queue) + 1
        /\ queue'[Len(queue) + 1] = pushed + 1
        /\ \A i \in 1 .. Len(queue) : queue'[i] = queue[i]
    BY <2>1, <2>2
  <2>4. Started' = Started
    BY <2>1, <2>3 DEF Started
  <2>5. \A i \in 1 .. Len(queue') : queue'[i] = Started' + i
    <3>1. Len(queue) \in Nat
      BY <2>1
    <3>2. \A i \in 1 .. Len(queue) : queue'[i] = Started + i
      BY <2>3 DEF TasksInv
    <3>3. queue'[Len(queue) + 1] = Started + (Len(queue) + 1)
      BY <2>1, <2>3, <3>1 DEF Started
    <3> QED
      BY <2>3, <2>4, <3>1, <3>2, <3>3
  <2>6. alive' = IF mode.entry = "sizes" THEN alive \cup {pushed + 1} ELSE alive
    BY <1>1 DEF Push
  <2>7. \A c \in Caches : c > Started' /\ (c <= pushed' \/ mode'.entry # "sizes") => c \in alive'
    BY <2>1, <2>4, <2>6 DEF TasksInv, Caches
  <2> QED
    BY <2>1, <2>3, <2>4, <2>5, <2>6, <2>7 DEF TasksInv, TasksTouchLiveMemory
<1>2. CASE Log
  BY <1>2 DEF Log, workerVars, TasksInv, TasksTouchLiveMemory, Started
<1>3. CASE Wait
  BY <1>3 DEF Wait, workerVars, TasksInv, TasksTouchLiveMemory, Started
<1>4. CASE Join
  BY <1>4 DEF Join, workerVars, TasksInv, TasksTouchLiveMemory, Started
<1> QED
  BY <1>1, <1>2, <1>3, <1>4 DEF MainStep

\* A step of a task that stays with its worker: neither idle before nor after,
\* and not at the increment.
LEMMA MovingKeepsTasks ==
  ASSUME TasksInv, NEW t \in Threads,
         worker' \in [Threads -> Worker],
         \A u \in Threads : u # t => worker'[u] = worker[u],
         worker'[t].c = worker[t].c, worker[t].at # "idle", worker'[t].at # "idle",
         worker[t].at # "report",
         \/ worker'[t].at # "report" /\ UNCHANGED mtx
         \/ mtx = 0 /\ mtx' = t /\ worker'[t].read = progress,
         Touch(worker[t].c), UNCHANGED <<mainVars, queue, progress, alive>>
  PROVE  TasksInv'
<1> USE SimAssumption
<1>1. paramsAlive /\ worker[t].c \in alive /\ main # "returned"
  BY DEF TasksInv
<1>2. usedFreed' = usedFreed
  BY <1>1 DEF Touch
<1>3. Started' = Started
  BY DEF Started, mainVars
<1>4. ASSUME NEW u \in Threads, worker'[u].at = "report"
      PROVE  mtx' = u /\ worker'[u].read = progress'
  <2>1. CASE u = t
    BY <1>4, <2>1
  <2>2. CASE u # t
    <3>1. mtx = u /\ worker[u].read = progress /\ worker'[u] = worker[u]
      BY <1>4, <2>2 DEF TasksInv
    <3>2. u # 0
      BY DEF Threads
    <3> QED
      BY <3>1, <3>2
  <2> QED
    BY <2>1, <2>2
<1>5. ASSUME NEW u \in Threads
      PROVE  (worker'[u].at = "idle" <=> worker'[u].c = 0) /\ worker'[u].c = worker[u].c
  <2>1. worker[u].at = "idle" <=> worker[u].c = 0
    BY DEF TasksInv
  <2> QED
    BY <2>1
<1>6. UNCHANGED <<mode, main, pushed, paramsAlive, queue, progress, alive>>
  BY DEF mainVars
<1>7. \A u \in Threads : /\ worker'[u].c <= Started'
                         /\ worker'[u].c # 0 => worker'[u].c \in alive'
  BY <1>3, <1>5, <1>6 DEF TasksInv
<1>8. \A u, w \in Threads : worker'[u].c = worker'[w].c /\ worker'[u].c # 0 => u = w
  BY <1>5 DEF TasksInv
<1> QED
  BY <1>1, <1>2, <1>3, <1>4, <1>5, <1>6, <1>7, <1>8 DEF TasksInv, TasksTouchLiveMemory

\* Every step of a worker does so too.
LEMMA WorkerKeepsTasks ==
  ASSUME TasksInv, NEW t \in Threads, WorkerStep(t) PROVE TasksInv'
<1> USE SimAssumption
<1>1. CASE Start(t)
  <2>1. /\ worker[t].at = "idle" /\ queue # <<>> /\ queue \in Seq(Caches)
        /\ queue' = Tail(queue) /\ Touch(Head(queue))
        /\ UNCHANGED <<mode, main, pushed, paramsAlive, mtx, progress, alive>>
        /\ worker' = [worker EXCEPT ![t] = [at |-> "warmup_reader", c |-> Head(queue),
                                            pos |-> 1, warm |-> 0, read |-> 0]]
    BY <1>1 DEF Start, mainVars, TasksInv
  <2>2. /\ queue' \in Seq(Caches) /\ Len(queue) \in Nat \ {0} /\ Len(queue') = Len(queue) - 1
        /\ \A i \in 1 .. Len(queue') : queue'[i] = queue[i + 1]
        /\ Head(queue) = queue[1] /\ Head(queue) \in Caches
    BY <2>1
  <2>3. pushed \in Nat /\ Started \in Nat /\ Started' = Started + 1
    BY <2>1, <2>2 DEF Started, TasksInv
  <2>4. Head(queue) = Started + 1
    <3>1. 1 \in 1 .. Len(queue)
      BY <2>2
    <3> QED
      BY <2>2, <3>1 DEF TasksInv
  <2>5. \A i \in 1 .. Len(queue') : queue'[i] = Started' + i
    BY <2>2, <2>3 DEF TasksInv
  <2>6. Started + 1 <= pushed
    BY <2>2, <2>3 DEF Started
  <2>7. Head(queue) \in alive /\ paramsAlive /\ main # "returned"
    BY <2>1, <2>2, <2>3, <2>4, <2>6 DEF TasksInv
  <2>8. usedFreed' = usedFreed
    BY <2>1, <2>7 DEF Touch
  <2>9. /\ worker' \in [Threads -> Worker]
        /\ worker'[t].c = Started + 1 /\ worker'[t].at = "warmup_reader"
        /\ \A u \in Threads : u # t => worker'[u] = worker[u]
    BY <2>1, <2>2, <2>4 DEF TasksInv, Worker, Caches
  <2>10. \A u \in Threads : worker[u].c <= Started /\ worker[u].c \in Nat
    BY DEF TasksInv, Worker
  <2>11. \A u, w \in Threads : worker'[u].c = worker'[w].c /\ worker'[u].c # 0 => u = w
    BY <2>3, <2>9, <2>10 DEF TasksInv
  <2>12. \A u \in Threads : /\ worker'[u].at = "idle" <=> worker'[u].c = 0
                            /\ worker'[u].c <= Started'
                            /\ worker'[u].at = "report" => mtx' = u /\ worker'[u].read = progress'
                            /\ worker'[u].c # 0 => worker'[u].c \in alive'
    BY <2>1, <2>3, <2>4, <2>7, <2>9, <2>10 DEF TasksInv
  <2>13. \A c \in Caches : c > Started' /\ (c <= pushed' \/ mode'.entry # "sizes") => c \in alive'
    BY <2>1, <2>3 DEF TasksInv, Caches
  <2> QED
    BY <2>1, <2>2, <2>3, <2>5, <2>6, <2>7, <2>8, <2>9, <2>11, <2>12, <2>13
       DEF TasksInv, TasksTouchLiveMemory
<1>2. CASE WarmupReaderStep(t)
  <2>1. /\ worker[t].at = "warmup_reader" /\ Touch(worker[t].c)
        /\ UNCHANGED <<mainVars, queue, mtx, progress, alive>>
        /\ \/ worker' = worker
           \/ worker' = [worker EXCEPT ![t].at = "warmup"]
    BY <1>2 DEF WarmupReaderStep
  <2>2. worker \in [Threads -> Worker]
    BY DEF TasksInv
  <2>3. worker' \in [Threads -> Worker]
    BY <2>1, <2>2 DEF Worker
  <2>4. \A u \in Threads : u # t => worker'[u] = worker[u]
    BY <2>1, <2>2
  <2>5. worker'[t].c = worker[t].c /\ worker'[t].at \notin {"idle", "report"}
    BY <2>1, <2>2 DEF Worker
  <2> QED
    BY <2>1, <2>3, <2>4, <2>5, MovingKeepsTasks
<1>3. CASE WarmupStep(t)
  <2>1. /\ worker[t].at = "warmup" /\ Touch(worker[t].c)
        /\ UNCHANGED <<mainVars, queue, mtx, progress, alive>>
        /\ \/ worker' = [worker EXCEPT ![t].pos = @ + 1, ![t].warm = @ + 1]
           \/ worker' = [worker EXCEPT ![t].at = "replay"]
    BY <1>3 DEF WarmupStep
  <2>2. worker \in [Threads -> Worker]
    BY DEF TasksInv
  <2>3. worker' \in [Threads -> Worker]
    <3>1. worker[t].pos + 1 \in Nat /\ worker[t].warm + 1 \in Nat
      BY <2>2 DEF Worker
    <3>2. CASE worker' = [worker EXCEPT ![t].pos = @ + 1, ![t].warm = @ + 1]
      BY <2>2, <3>1, <3>2 DEF Worker
    <3>3. CASE worker' = [worker EXCEPT ![t].at = "replay"]
      BY <2>2, <3>3 DEF Worker
    <3> QED
      BY <2>1, <3>2, <3>3
  <2>4. \A u \in Threads : u # t => worker'[u] = worker[u]
    BY <2>1, <2>2
  <2>5. worker'[t].c = worker[t].c /\ worker'[t].at \notin {"idle", "report"}
    BY <2>1, <2>2 DEF Worker
  <2> QED
    BY <2>1, <2>3, <2>4, <2>5, MovingKeepsTasks
<1>4. CASE Replay(t)
  <2>1. /\ worker[t].at = "replay" /\ Touch(worker[t].c)
        /\ UNCHANGED <<mainVars, queue, mtx, progress, alive>>
        /\ \/ worker' = [worker EXCEPT ![t].pos = @ + 1]
           \/ worker' = [worker EXCEPT ![t].at = "lock"]
    BY <1>4 DEF Replay
  <2>2. worker \in [Threads -> Worker]
    BY DEF TasksInv
  <2>3. worker' \in [Threads -> Worker]
    <3>1. worker[t].pos + 1 \in Nat /\ worker[t].warm + 1 \in Nat
      BY <2>2 DEF Worker
    <3>2. CASE worker' = [worker EXCEPT ![t].pos = @ + 1]
      BY <2>2, <3>1, <3>2 DEF Worker
    <3>3. CASE worker' = [worker EXCEPT ![t].at = "lock"]
      BY <2>2, <3>3 DEF Worker
    <3> QED
      BY <2>1, <3>2, <3>3
  <2>4. \A u \in Threads : u # t => worker'[u] = worker[u]
    BY <2>1, <2>2
  <2>5. worker'[t].c = worker[t].c /\ worker'[t].at \notin {"idle", "report"}
    BY <2>1, <2>2 DEF Worker
  <2> QED
    BY <2>1, <2>3, <2>4, <2>5, MovingKeepsTasks
<1>5. CASE Lock(t)
  <2>1. worker \in [Threads -> Worker] /\ progress \in Nat
    BY DEF TasksInv
  <2>2. worker' \in [Threads -> Worker]
    BY <1>5, <2>1 DEF Lock, Worker
  <2>3. /\ \A u \in Threads : u # t => worker'[u] = worker[u]
        /\ worker'[t].c = worker[t].c /\ worker[t].at \notin {"idle", "report"}
        /\ worker'[t].at # "idle" /\ Touch(worker[t].c)
        /\ UNCHANGED <<mainVars, queue, progress, alive>>
        /\ \/ worker'[t].at # "report" /\ UNCHANGED mtx
           \/ mtx = 0 /\ mtx' = t /\ worker'[t].read = progress
    BY <1>5, <2>1 DEF Lock, Worker
  <2> QED
    BY <2>2, <2>3, MovingKeepsTasks
<1>6. CASE Report(t)
  <2>1. /\ mtx = t /\ worker[t].c \in alive /\ paramsAlive /\ main # "returned"
        /\ worker[t].read = progress
    BY <1>6 DEF Report, TasksInv
  <2>2. usedFreed' = usedFreed /\ progress' = progress + 1 /\ Started' = Started
    BY <1>6, <2>1 DEF Report, Touch, Started, mainVars
  <2>3. \A u \in Threads : u # t => worker[u].at # "report"
    BY <2>1 DEF TasksInv
  <2>4. /\ worker' \in [Threads -> Worker]
        /\ worker'[t].c = worker[t].c /\ worker'[t].at = "cleanup"
        /\ \A u \in Threads : u # t => worker'[u] = worker[u]
    BY <1>6 DEF Report, TasksInv, Worker
  <2> QED
    BY <1>6, <2>1, <2>2, <2>3, <2>4 DEF Report, TasksInv, TasksTouchLiveMemory, mainVars
<1>7. CASE Cleanup(t)
  <2>1. /\ worker[t].c \in alive /\ paramsAlive /\ main # "returned"
        /\ worker[t].c # 0 /\ worker[t].c <= Started
    BY <1>7 DEF Cleanup, TasksInv
  <2>2. usedFreed' = usedFreed /\ Started' = Started
    BY <1>7, <2>1 DEF Cleanup, Touch, Started, mainVars
  <2>3. /\ worker' \in [Threads -> Worker]
        /\ worker'[t].c = 0 /\ worker'[t].at = "idle"
        /\ \A u \in Threads : u # t => worker'[u] = worker[u]
    BY <1>7 DEF Cleanup, TasksInv, Worker, Idle
  <2>4. \A c \in alive : c # worker[t].c => c \in alive'
    BY <1>7 DEF Cleanup
  <2>5. \A u \in Threads : worker'[u].c # 0 => worker'[u].c \in alive'
    BY <2>3, <2>4 DEF TasksInv
  <2>6. \A c \in Caches : c > Started' /\ (c <= pushed' \/ mode'.entry # "sizes") => c \in alive'
    BY <1>7, <2>1, <2>2, <2>4 DEF TasksInv, Cleanup, mainVars, Caches, Started
  <2>7. UNCHANGED <<mode, main, pushed, paramsAlive, queue, mtx, progress>>
    BY <1>7 DEF Cleanup, mainVars
  <2>8. \A u \in Threads : /\ worker'[u].at = "idle" <=> worker'[u].c = 0
                           /\ worker'[u].at = "report" => mtx' = u /\ worker'[u].read = progress'
    BY <2>3, <2>7 DEF TasksInv
  <2>9. Started \in Nat /\ \A u \in Threads : worker'[u].c <= Started'
    <3>1. Started \in Nat
      BY DEF TasksInv, Started
    <3>2. \A u \in Threads : worker[u].c <= Started
      BY DEF TasksInv
    <3> QED
      BY <2>2, <2>3, <3>1, <3>2
  <2>10. \A u, w \in Threads : worker'[u].c = worker'[w].c /\ worker'[u].c # 0 => u = w
    BY <2>3 DEF TasksInv
  <2> QED
    BY <2>1, <2>2, <2>3, <2>5, <2>6, <2>7, <2>8, <2>9, <2>10 DEF TasksInv, TasksTouchLiveMemory
<1> QED
  BY <1>1, <1>2, <1>3, <1>4, <1>5, <1>6, <1>7 DEF WorkerStep

\* Every step keeps them, as the next lemmas use it.
LEMMA TasksInvNext == TasksInv /\ [Next]_vars => TasksInv'
<1> SUFFICES ASSUME TasksInv, [Next]_vars PROVE TasksInv'
  OBVIOUS
<1>1. CASE UNCHANGED vars
  BY <1>1 DEF vars, TasksInv, Started, TasksTouchLiveMemory
<1> QED
  BY <1>1, MainKeepsTasks, WorkerKeepsTasks DEF Next

\* A step changes progress exactly when it adds a cache to the reported ones.
LEMMA ReportStep ==
  ASSUME TasksInv, [Next]_vars
  PROVE  \/ Reported' = Reported /\ progress' = progress
         \/ \E c \in Caches \ Reported :
              Reported' = Reported \cup {c} /\ progress' = progress + 1
<1> USE SimAssumption
<1>1. TasksInv'
  BY TasksInvNext
<1>2. Reported = Finished
  BY ReportedByWorkers
<1>3. Reported' = Finished'
  BY <1>1, ReportedByWorkersNext
<1>4. /\ worker \in [Threads -> Worker]
      /\ \A t \in Threads : worker[t].c <= Started /\ (worker[t].at = "idle" <=> worker[t].c = 0)
      /\ \A t, u \in Threads : worker[t].c = worker[u].c /\ worker[t].c # 0 => t = u
      /\ Started \in Nat
  <2>1. Started \in Nat
    BY DEF TasksInv, Started
  <2> QED
    BY <2>1 DEF TasksInv
<1>5. CASE UNCHANGED vars
  BY <1>5 DEF vars, Reported
<1>6. CASE Push
  <2>1. Started' = Started /\ worker' = worker /\ progress' = progress
    BY <1>6 DEF Push, Started, workerVars, TasksInv
  <2> QED
    BY <1>2, <1>3, <2>1 DEF Finished
<1>7. CASE Log \/ Wait \/ Join
  <2>1. Started' = Started /\ worker' = worker /\ progress' = progress
    BY <1>7 DEF Log, Wait, Join, Started, workerVars
  <2> QED
    BY <1>2, <1>3, <2>1 DEF Finished
<1>8. ASSUME NEW t \in Threads, Start(t) PROVE Finished' = Finished /\ progress' = progress
  <2>1. /\ worker[t].at = "idle" /\ progress' = progress
        /\ \A u \in Threads : u # t => worker'[u] = worker[u]
        /\ worker'[t].c = Head(queue) /\ worker'[t].at = "warmup_reader"
    BY <1>4, <1>8 DEF Start
  <2>2. Started' = Started + 1 /\ Head(queue) = Started + 1
    <3>1. /\ queue # <<>> /\ queue \in Seq(Caches) /\ queue' = Tail(queue) /\ pushed' = pushed
          /\ pushed \in Nat /\ \A i \in 1 .. Len(queue) : queue[i] = Started + i
      BY <1>8 DEF Start, mainVars, TasksInv
    <3>2. Len(queue) \in Nat \ {0} /\ Len(queue') = Len(queue) - 1 /\ Head(queue) = queue[1]
      BY <3>1
    <3>3. 1 \in 1 .. Len(queue)
      BY <3>2
    <3> QED
      BY <3>1, <3>2, <3>3 DEF Started
  <2>3. worker[t].c = 0
    BY <1>4, <2>1
  <2>4. ASSUME NEW c \in Caches PROVE c \in Finished' <=> c \in Finished
    <3>0. c \in Nat \ {0}
      BY DEF Caches
    <3>1. CASE c = Started + 1
      BY <1>4, <2>1, <2>2, <3>1 DEF Finished
    <3>2. CASE c # Started + 1
      <4>1. \A u \in Threads :
              (worker'[u].c = c => worker'[u].at = "cleanup")
              <=> (worker[u].c = c => worker[u].at = "cleanup")
        BY <2>1, <2>2, <2>3, <3>0, <3>2
      <4>2. c <= Started' <=> c <= Started
        BY <1>4, <2>2, <3>0, <3>2
      <4> QED
        BY <4>1, <4>2 DEF Finished
    <3> QED
      BY <3>1, <3>2
  <2> QED
    BY <2>1, <2>4 DEF Finished
<1>9. ASSUME NEW t \in Threads, WarmupReaderStep(t) \/ WarmupStep(t) \/ Replay(t) \/ Lock(t)
      PROVE  Finished' = Finished /\ progress' = progress
  <2>1. /\ progress' = progress /\ worker[t].at \in {"warmup_reader", "warmup", "replay", "lock"}
        /\ \A u \in Threads : u # t => worker'[u] = worker[u]
    BY <1>4, <1>9 DEF WarmupReaderStep, WarmupStep, Replay, Lock
  <2>2. worker'[t].c = worker[t].c /\ worker'[t].at # "cleanup"
    <3>0. worker \in [Threads -> Worker]
      BY <1>4
    <3>1. CASE WarmupReaderStep(t)
      <4>1. worker[t].at = "warmup_reader"
            /\ (worker' = worker \/ worker' = [worker EXCEPT ![t].at = "warmup"])
        BY <3>1 DEF WarmupReaderStep
      <4> QED
        BY <3>0, <4>1 DEF Worker
    <3>2. CASE WarmupStep(t)
      <4>1. worker[t].at = "warmup"
            /\ \/ worker' = [worker EXCEPT ![t].pos = @ + 1, ![t].warm = @ + 1]
               \/ worker' = [worker EXCEPT ![t].at = "replay"]
        BY <3>2 DEF WarmupStep
      <4>2. CASE worker' = [worker EXCEPT ![t].pos = @ + 1, ![t].warm = @ + 1]
        BY <3>0, <4>1, <4>2 DEF Worker
      <4> QED
        BY <3>0, <4>1, <4>2 DEF Worker
    <3>3. CASE Replay(t)
      BY <1>4, <3>3 DEF Replay, Worker
    <3>4. CASE Lock(t)
      BY <1>4, <3>4 DEF Lock, Worker
    <3> QED
      BY <1>9, <3>1, <3>2, <3>3, <3>4
  <2>3. Started' = Started
    BY <1>9 DEF WarmupReaderStep, WarmupStep, Replay, Lock, Started, mainVars
  <2>4. \A u \in Threads : worker'[u].c = worker[u].c
                           /\ (worker'[u].at = "cleanup" <=> worker[u].at = "cleanup")
    BY <2>1, <2>2
  <2> QED
    BY <2>1, <2>3, <2>4 DEF Finished
<1>10. ASSUME NEW t \in Threads, Report(t)
       PROVE  \E c \in Caches \ Finished : Finished' = Finished \cup {c} /\ progress' = progress + 1
  <2>1. /\ worker[t].at = "report" /\ progress' = progress + 1
        /\ \A u \in Threads : u # t => worker'[u] = worker[u]
        /\ worker'[t].c = worker[t].c /\ worker'[t].at = "cleanup"
    <3>1. worker[t].at = "report" /\ worker[t].read = progress
      BY <1>10 DEF Report, TasksInv
    <3> QED
      BY <1>4, <1>10, <3>1 DEF Report, Worker
  <2>2. Started' = Started
    BY <1>10 DEF Report, Started, mainVars
  <2>3. worker[t].c # 0 /\ worker[t].c \in 0 .. NCaches
    BY <1>4, <2>1 DEF Worker
  <2>4. worker[t].c \in Caches /\ worker[t].c \notin Finished
    BY <2>1, <2>3 DEF Caches, Finished
  <2>5. ASSUME NEW c \in Caches PROVE c \in Finished' <=> c \in Finished \/ c = worker[t].c
    <3>1. CASE c = worker[t].c
      BY <1>4, <2>1, <2>2, <2>3, <3>1 DEF Finished
    <3>2. CASE c # worker[t].c
      BY <2>1, <2>2, <3>2 DEF Finished
    <3> QED
      BY <3>1, <3>2
  <2>6. Finished' = Finished \cup {worker[t].c}
    BY <2>4, <2>5 DEF Finished
  <2> QED
    BY <2>1, <2>4, <2>6
<1>11. ASSUME NEW t \in Threads, Cleanup(t) PROVE Finished' = Finished /\ progress' = progress
  <2>1. /\ worker[t].at = "cleanup" /\ progress' = progress
        /\ \A u \in Threads : u # t => worker'[u] = worker[u]
        /\ worker'[t].c = 0
    BY <1>4, <1>11 DEF Cleanup, Idle
  <2>2. Started' = Started
    BY <1>11 DEF Cleanup, Started, mainVars
  <2>3. ASSUME NEW c \in Caches PROVE c \in Finished' <=> c \in Finished
    <3>1. c # 0
      BY DEF Caches
    <3> QED
      BY <2>1, <2>2, <3>1 DEF Finished
  <2> QED
    BY <2>1, <2>3 DEF Finished
<1> QED
  BY <1>2, <1>3, <1>5, <1>6, <1>7, <1>8, <1>9, <1>10, <1>11 DEF Next, MainStep, WorkerStep

\* The whole invariant is inductive.
LEMMA SimInvNext == SimInv /\ [Next]_vars => SimInv'
<1> SUFFICES ASSUME SimInv, [Next]_vars PROVE SimInv'
  OBVIOUS
<1>1. TasksInv /\ TasksInv'
  BY TasksInvNext DEF SimInv
<1>2. IsFiniteSet(Reported)
  <2>1. IsFiniteSet(Caches)
    BY SimAssumption, FS_Interval DEF Caches
  <2> QED
    BY <2>1, FS_Subset DEF Reported
<1>3. CASE Reported' = Reported /\ progress' = progress
  BY <1>1, <1>3 DEF SimInv, ProgressExact
<1>4. ASSUME NEW c \in Caches \ Reported,
             Reported' = Reported \cup {c}, progress' = progress + 1
      PROVE  ProgressExact'
  BY <1>2, <1>4, FS_AddElement DEF SimInv, ProgressExact
<1> QED
  BY <1>1, <1>3, <1>4, ReportStep DEF SimInv

\* No increment of the shared progress counter is lost, whatever the number of
\* threads and the interleaving of their loads and stores.
THEOREM NoLostReport == Spec => []ProgressExact
<1>1. SimInv => ProgressExact
  BY DEF SimInv
<1> QED
  BY <1>1, SimInvInit, SimInvNext, PTL DEF Spec

\* No task works on a cache or on parameters that were freed, although the
\* caller frees the parameters and every task its own cache.
THEOREM NoUseAfterFree == Spec => []TasksTouchLiveMemory
<1>1. SimInv => TasksTouchLiveMemory
  BY DEF SimInv, TasksInv
<1> QED
  BY <1>1, SimInvInit, SimInvNext, PTL DEF Spec

-----------------------------------------------------------------------------
\* The measurements.

\* Where the warm-up loop stops is where a sequential replay stops it.
LEMMA WarmupStops ==
  ASSUME NEW k \in 0 .. Len(Times), WarmsUpFor(k), ~ (WarmupReq = 0 /\ WarmupSec = 0)
  PROVE  SequentialWarmup = k
<1> DEFINE m == CHOOSE j \in 0 .. Len(Times) : WarmsUpFor(j)
<1>1. m \in 0 .. Len(Times) /\ WarmsUpFor(m)
  OBVIOUS
<1>2. SequentialWarmup = m
  BY DEF SequentialWarmup
<1> HIDE DEF m
<1>3. Len(Times) \in Nat
  BY SimAssumption
<1>4. ~ k < m
  <2> SUFFICES ASSUME k < m PROVE FALSE
    OBVIOUS
  <2>1. k \in 0 .. m - 1 /\ k < Len(Times)
    BY <1>1, <1>3
  <2> QED
    BY <1>1, <2>1 DEF WarmsUpFor
<1>5. ~ m < k
  <2> SUFFICES ASSUME m < k PROVE FALSE
    OBVIOUS
  <2>1. m \in 0 .. k - 1 /\ m < Len(Times)
    BY <1>1, <1>3
  <2> QED
    BY <1>1, <2>1 DEF WarmsUpFor
<1> QED
  BY <1>1, <1>2, <1>3, <1>4, <1>5

\* Counting the misses of one more get.
LEMMA OneMoreGet ==
  ASSUME NEW c, NEW a \in Nat, NEW g \in Nat, a <= g + 1
  PROVE  /\ Cardinality(MissesIn(c, a, g)) \in Nat
         /\ <<c, g + 1>> \in Misses =>
              Cardinality(MissesIn(c, a, g + 1)) = Cardinality(MissesIn(c, a, g)) + 1
         /\ <<c, g + 1>> \notin Misses =>
              Cardinality(MissesIn(c, a, g + 1)) = Cardinality(MissesIn(c, a, g))
<1>1. IsFiniteSet(MissesIn(c, a, g))
  <2>1. IsFiniteSet(a .. g)
    BY FS_Interval
  <2> QED
    BY <2>1, FS_Subset DEF MissesIn
<1>2. ASSUME <<c, g + 1>> \in Misses
      PROVE  /\ MissesIn(c, a, g + 1) = MissesIn(c, a, g) \cup {g + 1}
             /\ g + 1 \notin MissesIn(c, a, g)
  BY <1>2 DEF MissesIn
<1>3. ASSUME <<c, g + 1>> \notin Misses PROVE MissesIn(c, a, g + 1) = MissesIn(c, a, g)
  BY <1>3 DEF MissesIn
<1> QED
  BY <1>1, <1>2, <1>3, FS_AddElement, FS_CardinalityType

ResultRecord == [n_req : Nat, n_miss : Nat, n_warmup_req : Nat, n_obj : Nat]

\* A step of one task changes the result of its own cache alone.
LEMMA OneTaskMoves ==
  ASSUME TasksInv, ResultInv, NEW t \in Threads, worker[t].c # 0,
         gets' \in [Caches -> Nat], result' \in [Caches -> ResultRecord],
         objs' \in [Caches -> Nat], UNCHANGED <<pushed, queue>>,
         \A d \in Caches : d # worker[t].c => gets'[d] = gets[d] /\ result'[d] = result[d],
         \A u \in Threads : u # t => worker'[u] = worker[u],
         worker'[t].c = worker[t].c,
         OnTrack(worker'[t], gets'[worker[t].c], result'[worker[t].c])
  PROVE  ResultInv'
<1> USE SimAssumption
<1>1. Started' = Started
  BY DEF Started
<1>2. worker[t].c <= Started
  BY DEF TasksInv
<1>3. \A u \in Threads : worker[u].c \in 0 .. NCaches
  BY DEF TasksInv, Worker
<1>4. Started \in Nat
  BY DEF TasksInv, Started
<1>5. ASSUME NEW c \in Caches, c > Started'
      PROVE  /\ gets'[c] = 0 /\ result'[c].n_warmup_req = 0
             /\ result'[c].n_req = 0 /\ result'[c].n_miss = 0
  <2>1. c # worker[t].c
    BY <1>1, <1>2, <1>3, <1>4, <1>5 DEF Caches
  <2> QED
    BY <1>1, <1>5, <2>1 DEF ResultInv
<1>6. ASSUME NEW c \in Caches, c <= Started', \A u \in Threads : worker'[u].c # c
      PROVE  Measured(c, result'[c])
  <2>1. c # worker[t].c /\ \A u \in Threads : worker[u].c # c
    BY <1>6
  <2> QED
    BY <1>1, <1>6, <2>1 DEF ResultInv
<1>7. ASSUME NEW u \in Threads, worker'[u].c # 0
      PROVE  OnTrack(worker'[u], gets'[worker'[u].c], result'[worker'[u].c])
  <2>1. CASE u = t
    BY <2>1
  <2>2. CASE u # t
    <3>1. worker'[u] = worker[u] /\ worker[u].c \in Caches
      BY <1>3, <1>7, <2>2 DEF Caches
    <3>2. worker[u].c # worker[t].c
      BY <1>7, <2>2, <3>1 DEF TasksInv
    <3> QED
      BY <1>7, <3>1, <3>2 DEF ResultInv
  <2> QED
    BY <2>1, <2>2
<1> QED
  BY <1>5, <1>6, <1>7 DEF ResultInv, ResultRecord, Measured

\* What is known of a worker that has a task.
LEMMA TaskAtWork ==
  ASSUME TasksInv, ResultInv, NEW t \in Threads, worker[t].at # "idle"
  PROVE  /\ worker[t] \in Worker /\ worker \in [Threads -> Worker]
         /\ worker[t].c \in Caches /\ worker[t].c # 0
         /\ gets[worker[t].c] \in Nat /\ result[worker[t].c] \in ResultRecord
         /\ OnTrack(worker[t], gets[worker[t].c], result[worker[t].c])
<1> USE SimAssumption
<1>1. worker[t] \in Worker /\ worker \in [Threads -> Worker] /\ worker[t].c # 0
  BY DEF TasksInv
<1>2. worker[t].c \in Caches
  BY <1>1 DEF Worker, Caches
<1> QED
  BY <1>1, <1>2 DEF ResultInv, ResultRecord

\* The get of a task: its cache's counters move, and no other's.
LEMMA GetMoves ==
  ASSUME ResultInv, NEW c \in Caches, CacheGet(c)
  PROVE  /\ gets' \in [Caches -> Nat] /\ objs' \in [Caches -> Nat]
         /\ gets'[c] = gets[c] + 1
         /\ \A d \in Caches : d # c => gets'[d] = gets[d]
  BY DEF ResultInv, CacheGet

\* A task that writes its result leaves the results of the others alone.
LEMMA ResultMoves ==
  ASSUME ResultInv, NEW c \in Caches, NEW r \in ResultRecord,
         result' = [result EXCEPT ![c] = r]
  PROVE  /\ result' \in [Caches -> ResultRecord] /\ result'[c] = r
         /\ \A d \in Caches : d # c => result'[d] = result[d]
<1>1. result \in [Caches -> ResultRecord]
  BY DEF ResultInv, ResultRecord
<1> QED
  BY <1>1

\* Counting warm-up requests leaves what was measured alone.
LEMMA WarmupCounted ==
  ASSUME NEW r \in ResultRecord, NEW k \in Nat,
         NEW s, s = [r EXCEPT !.n_warmup_req = @ + k]
  PROVE  /\ s \in ResultRecord /\ s.n_warmup_req = r.n_warmup_req + k
         /\ s.n_req = r.n_req /\ s.n_miss = r.n_miss
  BY DEF ResultRecord

\* Every step of a worker keeps the results on track.
LEMMA WarmupReaderOnTrack ==
  ASSUME TasksInv, ResultInv, NEW t \in Threads, WarmupReaderStep(t)
  PROVE  ResultInv'
<1> USE SimAssumption
<1> DEFINE c == worker[t].c
<1>1. worker[t].at = "warmup_reader" /\ UNCHANGED <<pushed, queue>>
  BY DEF WarmupReaderStep, mainVars
<1>2. /\ worker[t] \in Worker /\ worker \in [Threads -> Worker]
      /\ c \in Caches /\ c # 0 /\ gets[c] \in Nat /\ result[c] \in ResultRecord
      /\ OnTrack(worker[t], gets[c], result[c])
  BY <1>1, TaskAtWork
<1>3. /\ gets[c] <= WarmupLen /\ worker[t].pos = 1 /\ worker[t].warm = 0
      /\ result[c].n_warmup_req = gets[c] /\ result[c].n_req = 0 /\ result[c].n_miss = 0
  BY <1>1, <1>2 DEF OnTrack
<1>4. CASE gets[c] < WarmupLen
  <2>1. /\ CacheGet(c) /\ worker' = worker
        /\ result' = [result EXCEPT ![c].n_warmup_req = @ + 1]
    BY <1>4 DEF WarmupReaderStep
  <2>2. /\ gets' \in [Caches -> Nat] /\ objs' \in [Caches -> Nat] /\ gets'[c] = gets[c] + 1
        /\ \A d \in Caches : d # c => gets'[d] = gets[d]
    BY <1>2, <2>1, GetMoves
  <2> DEFINE r == [result[c] EXCEPT !.n_warmup_req = @ + 1]
  <2>a. /\ r \in ResultRecord /\ r.n_warmup_req = gets[c] + 1
        /\ r.n_req = 0 /\ r.n_miss = 0
    <3>2. result[c] \in ResultRecord
      BY <1>2
    <3>3. ASSUME NEW q \in ResultRecord
          PROVE  LET p == [q EXCEPT !.n_warmup_req = @ + 1] IN
                 /\ p \in ResultRecord /\ p.n_warmup_req = q.n_warmup_req + 1
                 /\ p.n_req = q.n_req /\ p.n_miss = q.n_miss
      BY WarmupCounted
    <3>4. /\ r \in ResultRecord /\ r.n_warmup_req = result[c].n_warmup_req + 1
          /\ r.n_req = result[c].n_req /\ r.n_miss = result[c].n_miss
      BY <3>2, <3>3
    <3> QED
      BY <1>3, <3>4
  <2>b. result' = [result EXCEPT ![c] = r]
    BY <2>1
  <2> HIDE DEF r
  <2>3. /\ result' \in [Caches -> ResultRecord] /\ result'[c] = r
        /\ \A d \in Caches : d # c => result'[d] = result[d]
    BY <1>2, <2>a, <2>b, ResultMoves
  <2>c. gets'[c] <= WarmupLen
    BY <1>2, <1>4, <2>2
  <2>4. OnTrack(worker'[t], gets'[c], result'[c])
    BY <1>1, <1>3, <2>1, <2>2, <2>3, <2>a, <2>c DEF OnTrack
  <2> QED
    BY <1>1, <1>2, <2>1, <2>2, <2>3, <2>4, OneTaskMoves
<1>5. CASE ~ gets[c] < WarmupLen
  <2>1. worker' = [worker EXCEPT ![t].at = "warmup"] /\ UNCHANGED <<result, gets, objs>>
    BY <1>5 DEF WarmupReaderStep
  <2>2. /\ \A u \in Threads : u # t => worker'[u] = worker[u]
        /\ worker'[t] = [worker[t] EXCEPT !.at = "warmup"]
    BY <1>2, <2>1
  <2>3. /\ worker'[t].at = "warmup" /\ worker'[t].c = c
        /\ worker'[t].pos = 1 /\ worker'[t].warm = 0
    BY <1>2, <1>3, <2>2 DEF Worker
  <2>4. gets[c] = WarmupLen /\ Len(Times) \in Nat
    BY <1>2, <1>3, <1>5
  <2>5. OnTrack(worker'[t], gets'[c], result'[c])
    BY <1>3, <2>1, <2>3, <2>4 DEF OnTrack
  <2> QED
    BY <1>1, <1>2, <2>1, <2>2, <2>3, <2>5, OneTaskMoves DEF ResultInv, ResultRecord
<1> QED
  BY <1>4, <1>5

\* A request of the warm-up, or its end, keeps the task's result on track.
LEMMA WarmupOnTrack ==
  ASSUME TasksInv, ResultInv, NEW t \in Threads, WarmupStep(t)
  PROVE  ResultInv'
<1> USE SimAssumption
<1> DEFINE c == worker[t].c
<1>1. worker[t].at = "warmup" /\ UNCHANGED <<pushed, queue>>
  BY DEF WarmupStep, mainVars
<1>2. /\ worker[t] \in Worker /\ worker \in [Threads -> Worker]
      /\ c \in Caches /\ c # 0 /\ gets[c] \in Nat /\ result[c] \in ResultRecord
      /\ OnTrack(worker[t], gets[c], result[c])
  BY <1>1, TaskAtWork
<1> DEFINE k == worker[t].warm
<1>3. /\ gets[c] = WarmupLen + k /\ worker[t].pos = k + 1
      /\ result[c].n_warmup_req = WarmupLen /\ result[c].n_req = 0 /\ result[c].n_miss = 0
      /\ k <= Len(Times) /\ \A j \in 0 .. k - 1 : StillWarm(j)
      /\ WarmupReq = 0 /\ WarmupSec = 0 => k = 0
  BY <1>1, <1>2 DEF OnTrack
<1>4. k \in Nat /\ worker[t].pos \in Nat /\ Len(Times) \in Nat
  BY <1>2 DEF Worker
<1>5. CASE Warming(t)
  <2>1. /\ CacheGet(c) /\ result' = result
        /\ worker' = [worker EXCEPT ![t].pos = @ + 1, ![t].warm = @ + 1]
    BY <1>5 DEF WarmupStep
  <2>2. /\ gets' \in [Caches -> Nat] /\ objs' \in [Caches -> Nat] /\ gets'[c] = gets[c] + 1
        /\ \A d \in Caches : d # c => gets'[d] = gets[d]
    BY <1>2, <2>1, GetMoves
  <2>3. /\ \A u \in Threads : u # t => worker'[u] = worker[u]
        /\ worker'[t] = [worker[t] EXCEPT !.pos = @ + 1, !.warm = @ + 1]
    BY <1>2, <2>1
  <2>4. /\ worker'[t].at = "warmup" /\ worker'[t].c = c
        /\ worker'[t].pos = k + 2 /\ worker'[t].warm = k + 1
    BY <1>1, <1>2, <1>3, <1>4, <2>3 DEF Worker
  <2>5. StillWarm(k) /\ k + 1 <= Len(Times) /\ ~ (WarmupReq = 0 /\ WarmupSec = 0)
    BY <1>3, <1>4, <1>5 DEF Warming, StillWarm
  <2>6. \A j \in 0 .. (k + 1) - 1 : StillWarm(j)
    BY <1>3, <1>4, <2>5
  <2>7. gets'[c] = WarmupLen + (k + 1)
    BY <1>3, <1>4, <2>2
  <2>a. /\ gets'[c] = WarmupLen + worker'[t].warm /\ worker'[t].pos = worker'[t].warm + 1
        /\ worker'[t].warm <= Len(Times)
        /\ \A j \in 0 .. worker'[t].warm - 1 : StillWarm(j)
    BY <1>4, <2>4, <2>5, <2>6, <2>7
  <2>8. OnTrack(worker'[t], gets'[c], result'[c])
    BY <1>3, <2>1, <2>4, <2>5, <2>a DEF OnTrack
  <2>9. result' \in [Caches -> ResultRecord] /\ \A d \in Caches : result'[d] = result[d]
    BY <2>1 DEF ResultInv, ResultRecord
  <2> QED
    BY <1>1, <1>2, <2>2, <2>3, <2>4, <2>8, <2>9, OneTaskMoves
<1>6. CASE ~ Warming(t)
  <2>1. /\ result' = [result EXCEPT ![c].n_warmup_req = @ + k]
        /\ worker' = [worker EXCEPT ![t].at = "replay"] /\ UNCHANGED <<gets, objs>>
    BY <1>6 DEF WarmupStep
  <2>2. /\ \A u \in Threads : u # t => worker'[u] = worker[u]
        /\ worker'[t] = [worker[t] EXCEPT !.at = "replay"]
    BY <1>2, <2>1
  <2>3. /\ worker'[t].at = "replay" /\ worker'[t].c = c /\ worker'[t].pos = k + 1
    BY <1>2, <1>3, <2>2 DEF Worker
  <2> DEFINE r == [result[c] EXCEPT !.n_warmup_req = @ + k]
  <2>a. /\ r \in ResultRecord /\ r.n_warmup_req = WarmupLen + k
        /\ r.n_req = 0 /\ r.n_miss = 0
    BY <1>2, <1>3, <1>4, WarmupCounted
  <2>b. result' = [result EXCEPT ![c] = r]
    BY <2>1
  <2> HIDE DEF r
  <2>4. /\ result' \in [Caches -> ResultRecord] /\ result'[c] = r
        /\ \A d \in Caches : d # c => result'[d] = result[d]
    BY <1>2, <2>a, <2>b, ResultMoves
  <2>5. SequentialWarmup = k
    <3>1. CASE WarmupReq = 0 /\ WarmupSec = 0
      BY <1>3, <3>1 DEF SequentialWarmup
    <3>2. CASE ~ (WarmupReq = 0 /\ WarmupSec = 0)
      <4>1. k < Len(Times) => ~ StillWarm(k)
        BY <1>3, <1>4, <1>6, <3>2 DEF Warming, StillWarm
      <4>2. k \in 0 .. Len(Times) /\ WarmsUpFor(k)
        BY <1>3, <1>4, <4>1 DEF WarmsUpFor
      <4> QED
        BY <3>2, <4>2, WarmupStops
    <3> QED
      BY <3>1, <3>2
  <2>6. Cardinality(MissesIn(c, WarmupLen + k + 1, WarmupLen + k)) = 0
    <3>1. MissesIn(c, WarmupLen + k + 1, WarmupLen + k) = {}
      BY <1>4 DEF MissesIn
    <3> QED
      BY <3>1, FS_EmptySet
  <2>7. /\ gets'[c] = WarmupLen + worker'[t].pos - 1
        /\ worker'[t].pos \in SequentialWarmup + 1 .. Len(Times) + 1
        /\ worker'[t].pos - 1 - SequentialWarmup = 0
    <3>1. gets'[c] = WarmupLen + k
      BY <1>3, <2>1
    <3>a. k <= Len(Times)
      BY <1>3
    <3> HIDE DEF k, c
    <3>2. k + 1 \in k + 1 .. Len(Times) + 1 /\ WarmupLen + k = WarmupLen + (k + 1) - 1
          /\ (k + 1) - 1 - k = 0
      BY <1>4, <3>a
    <3> QED
      BY <1>4, <2>3, <2>5, <3>1, <3>2
  <2>c. Cardinality(MissesIn(worker'[t].c, WarmupLen + SequentialWarmup + 1, gets'[c])) = 0
    BY <1>3, <2>1, <2>3, <2>5, <2>6
  <2>8. OnTrack(worker'[t], gets'[c], result'[c])
    BY <1>4, <2>3, <2>4, <2>5, <2>7, <2>a, <2>c DEF OnTrack
  <2> QED
    BY <1>1, <1>2, <2>1, <2>2, <2>3, <2>4, <2>8, OneTaskMoves DEF ResultInv
<1> QED
  BY <1>5, <1>6

\* What a measured request adds to a task's result, and that the object count
\* a task writes last leaves the measures alone.
LEMMA RequestCounted ==
  ASSUME NEW r \in ResultRecord, NEW miss \in BOOLEAN
  PROVE  LET s == [r EXCEPT !.n_req = @ + 1, !.n_miss = IF miss THEN @ + 1 ELSE @] IN
         /\ s \in ResultRecord /\ s.n_warmup_req = r.n_warmup_req
         /\ s.n_req = r.n_req + 1 /\ s.n_miss = IF miss THEN r.n_miss + 1 ELSE r.n_miss
<1> DEFINE m == IF miss THEN r.n_miss + 1 ELSE r.n_miss
           n == r.n_req + 1
<1>1. m \in Nat /\ n \in Nat
  BY DEF ResultRecord
<1>2. [r EXCEPT !.n_req = @ + 1, !.n_miss = IF miss THEN @ + 1 ELSE @]
        = [r EXCEPT !.n_req = n, !.n_miss = m]
  OBVIOUS
<1> HIDE DEF m, n
<1>3. LET s == [r EXCEPT !.n_req = n, !.n_miss = m] IN
      /\ s \in ResultRecord /\ s.n_warmup_req = r.n_warmup_req
      /\ s.n_req = n /\ s.n_miss = m
  BY <1>1 DEF ResultRecord
<1> QED
  BY <1>2, <1>3 DEF m, n

\* Writing n_obj leaves the three counters of a result alone.
LEMMA ObjectsWritten ==
  ASSUME NEW r \in ResultRecord, NEW n \in Nat
  PROVE  LET s == [r EXCEPT !.n_obj = n] IN
         /\ s \in ResultRecord /\ s.n_warmup_req = r.n_warmup_req
         /\ s.n_req = r.n_req /\ s.n_miss = r.n_miss
  BY DEF ResultRecord

\* A measured request, or the end of the trace, keeps the task's result on track.
LEMMA ReplayOnTrack ==
  ASSUME TasksInv, ResultInv, NEW t \in Threads, Replay(t)
  PROVE  ResultInv'
<1> USE SimAssumption
<1> DEFINE c == worker[t].c
           k == SequentialWarmup
           first == WarmupLen + k + 1
<1>1. worker[t].at = "replay" /\ UNCHANGED <<pushed, queue>>
  BY DEF Replay, mainVars
<1>2. /\ worker[t] \in Worker /\ worker \in [Threads -> Worker]
      /\ c \in Caches /\ c # 0 /\ gets[c] \in Nat /\ result[c] \in ResultRecord
      /\ OnTrack(worker[t], gets[c], result[c])
  BY <1>1, TaskAtWork
<1> DEFINE i == worker[t].pos
<1>3. /\ k \in Nat /\ i \in k + 1 .. Len(Times) + 1 /\ gets[c] = WarmupLen + i - 1
      /\ result[c].n_warmup_req = WarmupLen + k /\ result[c].n_req = i - 1 - k
      /\ result[c].n_miss = Cardinality(MissesIn(c, first, gets[c]))
  BY <1>1, <1>2 DEF OnTrack
<1>4. i \in Nat /\ Len(Times) \in Nat
  BY <1>2 DEF Worker
<1> HIDE DEF k
<1>a. /\ WarmupLen + i - 1 + 1 = WarmupLen + (i + 1) - 1 /\ i - 1 - k + 1 = (i + 1) - 1 - k
      /\ i <= Len(Times) => i + 1 \in k + 1 .. Len(Times) + 1
      /\ ~ i <= Len(Times) => i = Len(Times) + 1 /\ WarmupLen + i - 1 = WarmupLen + Len(Times)
  <2>1. k \in Nat /\ i \in k + 1 .. Len(Times) + 1
    BY <1>3
  <2> HIDE DEF i
  <2> QED
    BY <1>4, <2>1
<1>5. CASE i <= Len(Times)
  <2> DEFINE r == [result[c] EXCEPT !.n_req = @ + 1, !.n_miss = IF IsMiss(c) THEN @ + 1 ELSE @]
  <2>1. CacheGet(c) /\ worker' = [worker EXCEPT ![t].pos = @ + 1]
    BY <1>5 DEF Replay
  <2>2. result' = [result EXCEPT ![c] = r]
    BY <1>5 DEF Replay
  <2>3. /\ gets' \in [Caches -> Nat] /\ objs' \in [Caches -> Nat] /\ gets'[c] = gets[c] + 1
        /\ \A d \in Caches : d # c => gets'[d] = gets[d]
    BY <1>2, <2>1, GetMoves
  <2>4. /\ \A u \in Threads : u # t => worker'[u] = worker[u]
        /\ worker'[t] = [worker[t] EXCEPT !.pos = @ + 1]
    BY <1>2, <2>1
  <2>5. worker'[t].at = "replay" /\ worker'[t].c = c /\ worker'[t].pos = i + 1
    BY <1>1, <1>2, <2>4 DEF Worker
  <2>6. /\ r \in ResultRecord /\ r.n_warmup_req = result[c].n_warmup_req
        /\ r.n_req = result[c].n_req + 1
        /\ r.n_miss = IF IsMiss(c) THEN result[c].n_miss + 1 ELSE result[c].n_miss
    <3>1. result[c] \in ResultRecord /\ IsMiss(c) \in BOOLEAN
      BY <1>2 DEF IsMiss
    <3> QED
      BY <3>1, RequestCounted
  <2> HIDE DEF r
  <2>7. /\ result' \in [Caches -> ResultRecord] /\ result'[c] = r
        /\ \A d \in Caches : d # c => result'[d] = result[d]
    BY <1>2, <2>2, <2>6, ResultMoves
  <2>8. r.n_miss = Cardinality(MissesIn(c, first, gets[c] + 1))
    <3>1. first \in Nat /\ first <= gets[c] + 1
      BY <1>3, <1>4
    <3>2. gets[c] \in Nat /\ result[c].n_miss = Cardinality(MissesIn(c, first, gets[c]))
      BY <1>2, <1>3
    <3>3. r.n_miss = IF <<c, gets[c] + 1>> \in Misses THEN result[c].n_miss + 1
                                                    ELSE result[c].n_miss
      BY <2>6 DEF IsMiss
    <3> DEFINE g == gets[c]
    <3>4. /\ <<c, g + 1>> \in Misses =>
               Cardinality(MissesIn(c, first, g + 1)) = Cardinality(MissesIn(c, first, g)) + 1
          /\ <<c, g + 1>> \notin Misses =>
               Cardinality(MissesIn(c, first, g + 1)) = Cardinality(MissesIn(c, first, g))
      <4>1. g \in Nat /\ first \in Nat /\ first <= g + 1
        BY <3>1, <3>2
      <4> HIDE DEF g, first, c
      <4> QED
        BY <4>1, OneMoreGet
    <3> QED
      BY <3>2, <3>3, <3>4
  <2>9. /\ gets'[c] = WarmupLen + (i + 1) - 1 /\ i + 1 \in k + 1 .. Len(Times) + 1
        /\ r.n_req = (i + 1) - 1 - k
    <3>1. gets'[c] = WarmupLen + i - 1 + 1 /\ r.n_req = i - 1 - k + 1
      BY <1>3, <2>3, <2>6
    <3> QED
      BY <1>5, <1>a, <3>1
  <2>10. OnTrack(worker'[t], gets'[c], result'[c])
    BY <1>3, <2>3, <2>5, <2>6, <2>7, <2>8, <2>9 DEF OnTrack, k
  <2> QED
    BY <1>1, <1>2, <2>3, <2>4, <2>5, <2>7, <2>10, OneTaskMoves
<1>6. CASE ~ i <= Len(Times)
  <2> DEFINE n == IF c \in Composite THEN 0 ELSE objs[c]
             r == [result[c] EXCEPT !.n_obj = n]
  <2>1. worker' = [worker EXCEPT ![t].at = "lock"] /\ UNCHANGED <<gets, objs>>
    BY <1>6 DEF Replay
  <2>2. result' = [result EXCEPT ![c] = r]
    BY <1>6 DEF Replay
  <2>3. /\ \A u \in Threads : u # t => worker'[u] = worker[u]
        /\ worker'[t] = [worker[t] EXCEPT !.at = "lock"]
    BY <1>2, <2>1
  <2>4. worker'[t].at = "lock" /\ worker'[t].c = c
    BY <1>2, <2>3 DEF Worker
  <2>5. n \in Nat
    BY <1>2 DEF ResultInv
  <2>6. /\ r \in ResultRecord /\ r.n_warmup_req = result[c].n_warmup_req
        /\ r.n_req = result[c].n_req /\ r.n_miss = result[c].n_miss
    <3> HIDE DEF n
    <3> QED
      BY <1>2, <2>5, ObjectsWritten
  <2> HIDE DEF r
  <2>7. /\ result' \in [Caches -> ResultRecord] /\ result'[c] = r
        /\ \A d \in Caches : d # c => result'[d] = result[d]
    BY <1>2, <2>2, <2>6, ResultMoves
  <2>8. i = Len(Times) + 1 /\ gets[c] = WarmupLen + Len(Times)
    BY <1>3, <1>6, <1>a
  <2>9. Measured(c, r)
    <3>1. r.n_req = (WarmupLen + Len(Times)) - (WarmupLen + k)
      BY <1>3, <1>4, <2>6, <2>8
    <3>2. r.n_miss = Cardinality(MissesIn(c, WarmupLen + k + 1, WarmupLen + Len(Times)))
      BY <1>3, <2>6, <2>8
    <3> QED
      BY <1>3, <2>6, <3>1, <3>2 DEF Measured, k
  <2>10. OnTrack(worker'[t], gets'[c], result'[c])
    BY <2>4, <2>7, <2>9 DEF OnTrack
  <2> QED
    BY <1>1, <1>2, <2>1, <2>3, <2>4, <2>7, <2>10, OneTaskMoves DEF ResultInv
<1> QED
  BY <1>5, <1>6

\* Reporting touches no result.
LEMMA ReportingOnTrack ==
  ASSUME TasksInv, ResultInv, NEW t \in Threads, Lock(t) \/ Report(t)
  PROVE  ResultInv'
<1> USE SimAssumption
<1> DEFINE c == worker[t].c
<1>1. /\ worker[t].at \in {"lock", "report"}
      /\ UNCHANGED <<pushed, queue, result, gets, objs>>
  BY DEF Lock, Report, mainVars
<1>2. /\ worker[t] \in Worker /\ worker \in [Threads -> Worker]
      /\ c \in Caches /\ c # 0 /\ OnTrack(worker[t], gets[c], result[c])
  BY <1>1, TaskAtWork
<1>3. PICK w \in {[worker[t] EXCEPT !.at = "report", !.read = progress],
                  [worker[t] EXCEPT !.at = "cleanup"]} : worker' = [worker EXCEPT ![t] = w]
  BY DEF Lock, Report
<1>4. /\ \A u \in Threads : u # t => worker'[u] = worker[u]
      /\ worker'[t] = w
  BY <1>2, <1>3
<1>5. w.c = c /\ w.at \in {"report", "cleanup"}
  BY <1>2 DEF Worker
<1>6. Measured(c, result[c])
  BY <1>1, <1>2 DEF OnTrack
<1>7. OnTrack(worker'[t], gets'[c], result'[c])
  BY <1>1, <1>4, <1>5, <1>6 DEF OnTrack
<1>8. result' \in [Caches -> ResultRecord] /\ gets' \in [Caches -> Nat] /\ objs' \in [Caches -> Nat]
  BY <1>1 DEF ResultInv, ResultRecord
<1> QED
  BY <1>1, <1>2, <1>4, <1>5, <1>7, <1>8, OneTaskMoves

\* A task that ends leaves a result that is complete.
LEMMA CleanupOnTrack ==
  ASSUME TasksInv, ResultInv, NEW t \in Threads, Cleanup(t)
  PROVE  ResultInv'
<1> USE SimAssumption
<1> DEFINE c == worker[t].c
<1>1. worker[t].at = "cleanup" /\ UNCHANGED <<pushed, queue, result, gets, objs>>
  BY DEF Cleanup, mainVars
<1>2. /\ worker \in [Threads -> Worker] /\ c \in Caches
      /\ OnTrack(worker[t], gets[c], result[c])
  BY <1>1, TaskAtWork
<1>3. Measured(c, result[c])
  BY <1>1, <1>2 DEF OnTrack
<1>4. worker'[t].c = 0 /\ \A u \in Threads : u # t => worker'[u] = worker[u]
  BY <1>2 DEF Cleanup, Idle
<1>5. Started' = Started
  BY <1>1 DEF Started
<1>6. ASSUME NEW d \in Caches, d <= Started', \A u \in Threads : worker'[u].c # d
      PROVE  Measured(d, result'[d])
  <2>1. CASE d = c
    BY <1>1, <1>3, <2>1
  <2>2. CASE d # c
    <3>1. \A u \in Threads : worker[u].c # d
      BY <1>4, <1>6, <2>2
    <3> QED
      BY <1>1, <1>5, <1>6, <3>1 DEF ResultInv
  <2> QED
    BY <2>1, <2>2
<1>7. ASSUME NEW u \in Threads, worker'[u].c # 0
      PROVE  OnTrack(worker'[u], gets'[worker'[u].c], result'[worker'[u].c])
  BY <1>1, <1>4, <1>7 DEF ResultInv
<1>8. ASSUME NEW d \in Caches, d > Started'
      PROVE  /\ gets'[d] = 0 /\ result'[d].n_warmup_req = 0
             /\ result'[d].n_req = 0 /\ result'[d].n_miss = 0
  BY <1>1, <1>5, <1>8 DEF ResultInv
<1>9. /\ gets' \in [Caches -> Nat] /\ objs' \in [Caches -> Nat]
      /\ result' \in [Caches -> [n_req : Nat, n_miss : Nat, n_warmup_req : Nat, n_obj : Nat]]
  BY <1>1 DEF ResultInv
<1> QED
  BY <1>6, <1>7, <1>8, <1>9 DEF ResultInv, Measured

\* A task that starts finds its result zero and its cache unused.
LEMMA StartOnTrack ==
  ASSUME TasksInv, ResultInv, NEW t \in Threads, Start(t)
  PROVE  ResultInv'
<1> USE SimAssumption
<1> DEFINE c == Head(queue)
<1>1. queue # <<>> /\ worker[t].at = "idle" /\ UNCHANGED <<pushed, result, gets, objs>>
  BY DEF Start, mainVars
<1>2. /\ queue \in Seq(Caches) /\ pushed \in Nat /\ Len(queue) \in Nat /\ Len(queue) <= pushed
      /\ worker \in [Threads -> Worker]
  BY DEF TasksInv
<1>3. c \in Caches /\ c = Started + 1
  BY <1>1, <1>2 DEF TasksInv
<1>4. Started \in Nat /\ Started' = Started + 1
  <2>1. Started \in Nat
    BY <1>2 DEF Started
  <2>2. Len(queue') = Len(queue) - 1
    BY <1>1, <1>2 DEF Start
  <2> QED
    BY <1>1, <1>2, <2>1, <2>2 DEF Started
<1>5. /\ worker'[t] = [at |-> "warmup_reader", c |-> c, pos |-> 1, warm |-> 0, read |-> 0]
      /\ \A u \in Threads : u # t => worker'[u] = worker[u]
  BY <1>2 DEF Start
<1>6. OnTrack(worker'[t], gets'[c], result'[c])
  <2>1. /\ gets[c] = 0 /\ result[c].n_warmup_req = 0
        /\ result[c].n_req = 0 /\ result[c].n_miss = 0
    BY <1>3, <1>4 DEF ResultInv
  <2>2. /\ worker'[t].at = "warmup_reader" /\ worker'[t].pos = 1 /\ worker'[t].warm = 0
    BY <1>5
  <2> QED
    BY <1>1, <2>1, <2>2 DEF OnTrack
<1>7. worker[t].c = 0 /\ worker'[t].c = c
  BY <1>1, <1>5 DEF TasksInv
<1>8. ASSUME NEW d \in Caches, d <= Started', \A u \in Threads : worker'[u].c # d
      PROVE  Measured(d, result'[d])
  <2>1. d # c /\ \A u \in Threads : worker[u].c # d
    <3>1. d # 0
      BY DEF Caches
    <3> QED
      BY <1>5, <1>7, <1>8, <3>1
  <2>2. d <= Started
    <3>1. d \in Nat /\ d <= Started + 1 /\ d # Started + 1
      BY <1>3, <1>4, <1>8, <2>1 DEF Caches
    <3> QED
      BY <1>4, <3>1
  <2> QED
    BY <1>1, <2>1, <2>2 DEF ResultInv
<1>9. ASSUME NEW u \in Threads, worker'[u].c # 0
      PROVE  OnTrack(worker'[u], gets'[worker'[u].c], result'[worker'[u].c])
  <2>1. CASE u = t
    BY <1>6, <1>7, <2>1
  <2>2. CASE u # t
    BY <1>1, <1>5, <1>9, <2>2 DEF ResultInv
  <2> QED
    BY <2>1, <2>2
<1>10. ASSUME NEW d \in Caches, d > Started'
       PROVE  /\ gets'[d] = 0 /\ result'[d].n_warmup_req = 0
              /\ result'[d].n_req = 0 /\ result'[d].n_miss = 0
  <2>1. d > Started
    BY <1>4, <1>10 DEF Caches
  <2> QED
    BY <1>1, <2>1 DEF ResultInv
<1>11. /\ gets' \in [Caches -> Nat] /\ objs' \in [Caches -> Nat]
       /\ result' \in [Caches -> [n_req : Nat, n_miss : Nat, n_warmup_req : Nat, n_obj : Nat]]
  BY <1>1 DEF ResultInv
<1> QED
  BY <1>8, <1>9, <1>10, <1>11 DEF ResultInv, Measured

\* The main thread touches neither results nor workers, and a push does not
\* start a task.
LEMMA MainOnTrack ==
  ASSUME TasksInv, ResultInv, MainStep \/ UNCHANGED vars
  PROVE  ResultInv'
<1>1. UNCHANGED <<worker, result, gets, objs>>
  BY DEF MainStep, Push, Log, Wait, Join, vars, mainVars, workerVars
<1>2. Started' = Started
  <2>1. CASE Push
    <3>1. queue \in Seq(Caches) /\ pushed \in Nat /\ Len(queue) \in Nat
      BY SimAssumption DEF TasksInv
    <3>2. Len(queue') = Len(queue) + 1 /\ pushed' = pushed + 1
      BY <2>1, <3>1 DEF Push
    <3> QED
      BY <3>1, <3>2 DEF Started
  <2>2. CASE UNCHANGED <<pushed, queue>>
    BY <2>2 DEF Started
  <2> QED
    BY <2>1, <2>2 DEF MainStep, Log, Wait, Join, vars, mainVars
<1> QED
  BY <1>1, <1>2 DEF ResultInv, OnTrack, Measured

\* Nothing has been counted before the first task.
LEMMA ResultInvInit == Init => ResultInv
<1> SUFFICES ASSUME Init PROVE ResultInv
  OBVIOUS
<1>1. /\ gets \in [Caches -> Nat] /\ objs \in [Caches -> Nat]
      /\ result \in [Caches -> [n_req : Nat, n_miss : Nat, n_warmup_req : Nat, n_obj : Nat]]
  BY DEF Init
<1>2. \A c \in Caches : /\ gets[c] = 0 /\ result[c].n_warmup_req = 0
                        /\ result[c].n_req = 0 /\ result[c].n_miss = 0
  BY DEF Init
<1>3. \A t \in Threads : worker[t].c = 0
  BY DEF Init, Idle
<1>4. \A c \in Caches : ~ c <= Started
  <2>1. pushed = 0 /\ Len(queue) = 0
    BY DEF Init
  <2>2. Started = 0
    BY <2>1 DEF Started
  <2> QED
    BY <2>2, SimAssumption DEF Caches
<1> QED
  BY <1>1, <1>2, <1>3, <1>4 DEF ResultInv

\* Every step keeps every result on track or complete.
LEMMA ResultInvNext == TasksInv /\ ResultInv /\ [Next]_vars => ResultInv'
<1> SUFFICES ASSUME TasksInv, ResultInv, [Next]_vars PROVE ResultInv'
  OBVIOUS
<1>1. CASE MainStep \/ UNCHANGED vars
  BY <1>1, MainOnTrack
<1>2. ASSUME NEW t \in Threads, WorkerStep(t) PROVE ResultInv'
  BY <1>2, StartOnTrack, WarmupReaderOnTrack, WarmupOnTrack, ReplayOnTrack,
     ReportingOnTrack, CleanupOnTrack DEF WorkerStep
<1> QED
  BY <1>1, <1>2 DEF Next

\* The results simulate_with_multi_caches and simulate_at_multi_sizes hand to
\* their caller are those of a sequential replay of each cache, whatever the
\* trace, the warm-up, the number of caches and of threads and their
\* interleaving.
THEOREM ResultsAreSequential == Spec => []ResultsSequential
<1>1. TasksInv /\ ResultInv => ResultsSequential
  <2> SUFFICES ASSUME TasksInv, ResultInv, main = "returned", NEW c \in Caches
               PROVE  Measured(c, result[c])
    BY DEF ResultsSequential
  <2>1. \A t \in Threads : worker[t].c = 0
    BY DEF TasksInv
  <2>2. Started = NCaches
    <3>1. queue = <<>> /\ pushed = NCaches
      BY DEF TasksInv
    <3> QED
      BY <3>1, SimAssumption DEF Started
  <2>3. c <= Started /\ c # 0
    BY <2>2, SimAssumption DEF Caches
  <2> QED
    BY <2>1, <2>3 DEF ResultInv
<1>2. Init => TasksInv
  BY SimInvInit DEF SimInv
<1> QED
  BY <1>1, <1>2, TasksInvNext, ResultInvInit, ResultInvNext, PTL DEF Spec
==============================================================================
