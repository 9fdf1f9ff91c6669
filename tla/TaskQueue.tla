------------------------------ MODULE TaskQueue ------------------------------
(***************************************************************************)
(* The in-process task queue of Foxel (domain/tasks/task_queue.py): an     *)
(* unbounded FIFO asyncio.Queue shared by a pool of worker coroutines.     *)
(* The pool shrinks, and the service stops, by putting sentinels in the    *)
(* same queue: the worker that takes one ends.  Everything is in memory;   *)
(* when the process ends the queue, the task table and the pool are gone.  *)
(*                                                                         *)
(* One event loop runs all of it.  Putting into an unbounded queue never   *)
(* suspends, so add_task, set_concurrency and the first part of            *)
(* stop_worker are each one atomic step; a worker is interleaved with them *)
(* where it awaits: at queue.get() and inside _execute_task.               *)
(***************************************************************************)
EXTENDS Integers, Sequences, FiniteSets

CONSTANTS
  MaxTasks,     \* bound: how many tasks are ever submitted
  Settings,     \* the concurrency values an administrator asks for
  MaxSettings,  \* bound: how often the setting is changed
  MaxBoots      \* bound: how often the process is started

ASSUME TaskQueueAssumption ==
  /\ MaxTasks \in Nat
  /\ Settings \subseteq Nat \ {0}
  /\ MaxSettings \in Nat
  /\ MaxBoots \in Nat

VARIABLES
  phase,        \* where the process is in its lifespan
  queue,        \* _queue: ids of tasks, and sentinels
  status,       \* _tasks: the status of each task, "absent" if not in the table
  submitted,    \* how many tasks were ever added (the ids 1..submitted are used)
  job,          \* _worker_tasks: for each live worker the id it executes, or Idle
  concurrency,  \* _concurrency
  workerSeq,    \* _worker_seq
  changes,      \* how often set_concurrency was called (bounds the model)
  boots,        \* how often the process was started (bounds the model)
  promised      \* history: tasks that had a worker to spare when they were added

vars == <<phase, queue, status, submitted, job, concurrency, workerSeq,
          changes, boots, promised>>

TaskId   == 1..MaxTasks
Sentinel == 0                       \* _SENTINEL; no task has this id
Idle     == 0                       \* the worker awaits queue.get()
Status   == {"absent", "pending", "running", "success", "failed"}
Phase    == {"down", "serving", "stopping", "stopped"}

workers  == DOMAIN job

Count(q, x) == Cardinality({i \in 1..Len(q) : q[i] = x})
InQueue(t)  == \E i \in 1..Len(queue) : queue[i] = t

\* The sentinels that will be taken before task t is, when t is queued.
SentinelsAhead(t) ==
  Cardinality({i \in 1..Len(queue) :
                  /\ queue[i] = Sentinel
                  /\ \E j \in 1..Len(queue) : i < j /\ queue[j] = t})

\* A queued task has headroom when the pool outnumbers the sentinels before it.
Headroom(t) == Cardinality(workers) > SentinelsAhead(t)

Sentinels(n) == [i \in 1..n |-> Sentinel]

-----------------------------------------------------------------------------
TypeOK ==
  /\ phase \in Phase
  /\ queue \in Seq(TaskId \cup {Sentinel})
  /\ status \in [TaskId -> Status]
  /\ submitted \in 0..MaxTasks
  /\ workers \in SUBSET (1..workerSeq)
  /\ job \in [workers -> TaskId \cup {Idle}]
  /\ concurrency \in Nat \ {0}
  /\ workerSeq \in Nat
  /\ changes \in 0..MaxSettings
  /\ boots \in 0..MaxBoots
  /\ promised \in SUBSET TaskId

\* A process that has not started: a new TaskQueueService.
Fresh ==
  /\ queue = <<>>
  /\ status = [t \in TaskId |-> "absent"]
  /\ job = [w \in {} |-> Idle]
  /\ concurrency = 1
  /\ workerSeq = 0
  /\ promised = {}

Init ==
  /\ phase = "down"
  /\ Fresh
  /\ submitted = 0
  /\ changes = 0
  /\ boots = 0

-----------------------------------------------------------------------------
\* Mutant of EnsureWorkerCount: sentinels overtake the queued tasks.
EnsureWorkerCountAtHead(c) ==
  LET n == Cardinality(workers)
  IN  /\ job' = [w \in workers \cup ((workerSeq + 1)..(workerSeq + (c - n))) |->
                   IF w \in workers THEN job[w] ELSE Idle]
      /\ workerSeq' = IF n < c THEN workerSeq + (c - n) ELSE workerSeq
      /\ queue' = IF n > c THEN Sentinels(n - c) \o queue ELSE queue

\* _ensure_worker_count with the pool `concurrency'`: workers are started up to
\* the setting, or one sentinel is queued for each worker above it.
EnsureWorkerCount(c) ==
  LET n == Cardinality(workers)
      started == IF n < c THEN (workerSeq + 1)..(workerSeq + (c - n)) ELSE {}
  IN  /\ job' = [w \in workers \cup started |-> IF w \in workers THEN job[w] ELSE Idle]
      /\ workerSeq' = IF n < c THEN workerSeq + (c - n) ELSE workerSeq
      /\ queue' = IF n > c THEN queue \o Sentinels(n - c) ELSE queue

\* Lifespan startup: start_worker() with the stored setting.
StartWorker(c) ==
  /\ phase = "down"
  /\ boots < MaxBoots
  /\ phase' = "serving"
  /\ boots' = boots + 1
  /\ concurrency' = c
  /\ EnsureWorkerCount(c)
  /\ UNCHANGED <<status, submitted, changes, promised>>

\* Mutant of SetConcurrency: the lower bound of one worker is not enforced.
SetConcurrencyUnclamped(c) ==
  /\ phase = "serving"
  /\ changes < MaxSettings
  /\ changes' = changes + 1
  /\ concurrency' = c - 1
  /\ EnsureWorkerCount(c - 1)
  /\ UNCHANGED <<phase, status, submitted, boots, promised>>

\* PUT /api/tasks/queue/settings, while requests are served.
SetConcurrency(c) ==
  /\ phase = "serving"
  /\ changes < MaxSettings
  /\ changes' = changes + 1
  /\ concurrency' = c
  /\ EnsureWorkerCount(c)
  /\ UNCHANGED <<phase, status, submitted, boots, promised>>

\* add_task, by a request or the scheduler while serving, or by a task that is
\* itself being executed (a scan queues one task per file, a written file
\* triggers automation tasks), which goes on while the service stops.
AddTask ==
  LET t == submitted + 1
  IN  /\ submitted < MaxTasks
      /\ phase = "serving" \/ \E w \in workers : job[w] # Idle
      /\ submitted' = t
      /\ status' = [status EXCEPT ![t] = "pending"]
      /\ queue' = Append(queue, t)
      /\ promised' = IF Cardinality(workers) > Count(queue, Sentinel)
                     THEN promised \cup {t} ELSE promised
      /\ UNCHANGED <<phase, job, concurrency, workerSeq, changes, boots>>

\* A worker's queue.get() returns a task; _execute_task marks it running
\* before it first suspends.
TakeTask(w) ==
  /\ job[w] = Idle
  /\ queue # <<>>
  /\ Head(queue) # Sentinel
  /\ queue' = Tail(queue)
  /\ job' = [job EXCEPT ![w] = Head(queue)]
  /\ status' = [status EXCEPT ![Head(queue)] = "running"]
  /\ UNCHANGED <<phase, submitted, concurrency, workerSeq, changes, boots, promised>>

\* A worker's queue.get() returns a sentinel: it leaves the pool.
TakeSentinel(w) ==
  /\ job[w] = Idle
  /\ queue # <<>>
  /\ Head(queue) = Sentinel
  /\ queue' = Tail(queue)
  /\ job' = [v \in workers \ {w} |-> job[v]]
  /\ UNCHANGED <<phase, status, submitted, concurrency, workerSeq, changes, boots, promised>>

\* Mutant of FinishTask: a failed task is put back for a retry.
FinishTaskRequeue(w, s) ==
  /\ job[w] # Idle
  /\ s \in {"success", "failed"}
  /\ status' = [status EXCEPT ![job[w]] = s]
  /\ queue' = IF s = "failed" THEN Append(queue, job[w]) ELSE queue
  /\ job' = [job EXCEPT ![w] = Idle]
  /\ UNCHANGED <<phase, submitted, concurrency, workerSeq, changes, boots, promised>>

\* Mutant of FinishTask: the exception of a failed task ends its worker.
FinishTaskEndsWorker(w, s) ==
  /\ job[w] # Idle
  /\ s \in {"success", "failed"}
  /\ status' = [status EXCEPT ![job[w]] = s]
  /\ job' = IF s = "failed" THEN [v \in workers \ {w} |-> job[v]]
                            ELSE [job EXCEPT ![w] = Idle]
  /\ UNCHANGED <<phase, queue, submitted, concurrency, workerSeq, changes, boots, promised>>

\* _execute_task ends: every Exception becomes "failed".
FinishTask(w, s) ==
  /\ job[w] # Idle
  /\ s \in {"success", "failed"}
  /\ status' = [status EXCEPT ![job[w]] = s]
  /\ job' = [job EXCEPT ![w] = Idle]
  /\ UNCHANGED <<phase, queue, submitted, concurrency, workerSeq, changes, boots, promised>>

\* Mutant of StopWorker: one sentinel for the whole pool.
StopWorkerOneSentinel ==
  /\ phase = "serving"
  /\ phase' = "stopping"
  /\ queue' = Append(queue, Sentinel)
  /\ UNCHANGED <<status, submitted, job, concurrency, workerSeq, changes, boots, promised>>

\* Lifespan shutdown, after the last request: stop_worker queues one sentinel
\* per live worker and awaits them all.
StopWorker ==
  /\ phase = "serving"
  /\ phase' = "stopping"
  /\ queue' = queue \o Sentinels(Cardinality(workers))
  /\ UNCHANGED <<status, submitted, job, concurrency, workerSeq, changes, boots, promised>>

\* Mutant of StopReturns: the workers are not awaited.
StopReturnsAtOnce ==
  /\ phase = "stopping"
  /\ phase' = "stopped"
  /\ UNCHANGED <<queue, status, submitted, job, concurrency, workerSeq, changes, boots, promised>>

\* The gather in stop_worker returns; the list of workers is cleared.
StopReturns ==
  /\ phase = "stopping"
  /\ workers = {}
  /\ phase' = "stopped"
  /\ UNCHANGED <<queue, status, submitted, job, concurrency, workerSeq, changes, boots, promised>>

\* The process ends, after an orderly stop or by a crash at any point.
ProcessEnds ==
  /\ phase # "down"
  /\ phase' = "down"
  /\ queue' = <<>>
  /\ status' = [t \in TaskId |-> "absent"]
  /\ job' = [w \in {} |-> Idle]
  /\ concurrency' = 1
  /\ workerSeq' = 0
  /\ promised' = {}
  /\ UNCHANGED <<submitted, changes, boots>>

WorkerStep(w) ==
  \/ TakeTask(w)
  \/ TakeSentinel(w)
  \/ \E s \in {"success", "failed"} : FinishTask(w, s)

Next ==
  \/ \E c \in Settings : StartWorker(c) \/ SetConcurrency(c)
  \/ AddTask
  \/ \E w \in workers : WorkerStep(w)
  \/ StopWorker
  \/ StopReturns
  \/ ProcessEnds

Spec == Init /\ [][Next]_vars

\* The event loop runs every ready coroutine, and every task's coroutine ends:
\* each worker of W that can take a step does, and stop_worker's gather returns.
\* Nothing obliges anyone to submit, to change the setting, or to stop.
Fairness(W) ==
  /\ \A w \in W : WF_vars(w \in workers /\ WorkerStep(w))
  /\ WF_vars(StopReturns)

-----------------------------------------------------------------------------
\* A pending task is in the queue exactly once and with no worker, a running one
\* is out of the queue and held by exactly one worker, and a finished one is in
\* neither place: however the pool is resized, nothing is executed twice or
\* dropped while the process lives (_worker_loop, _ensure_worker_count).
EachTaskOnce ==
  /\ \A t \in TaskId : InQueue(t) <=> status[t] = "pending"
  /\ \A i, j \in 1..Len(queue) : queue[i] = queue[j] /\ queue[i] # Sentinel => i = j
  /\ \A t \in TaskId : (\E w \in workers : job[w] = t) <=> status[t] = "running"
  /\ \A v, w \in workers : job[v] = job[w] /\ job[v] # Idle => v = w

\* Tasks start in the order add_task accepted them, across any number of
\* workers and of sentinels between them.
FifoStart ==
  \A s, t \in TaskId :
    s < t /\ status[s] = "pending" => status[t] \in {"absent", "pending"}

\* A task accepted while the pool outnumbered the queued sentinels keeps a worker
\* to spare until it starts: no later change of the setting, nor stop_worker,
\* can retire the pool ahead of it.
PromisedServed ==
  \A t \in promised : status[t] = "pending" => Headroom(t)

\* stop_worker returns only after every promised task has been executed.
StopDrains ==
  phase = "stopped" => \A t \in promised : status[t] \in {"success", "failed"}

\* While the service stops there is a sentinel left for every live worker, so
\* the gather in stop_worker cannot wait for a worker that nothing will end.
StopReaches ==
  phase = "stopping" => Cardinality(workers) <= Count(queue, Sentinel)

\* A promised task is eventually executed, unless the process ends first.
PromisedRuns ==
  \A t \in TaskId :
    (t \in promised /\ status[t] = "pending")
       ~> (status[t] \in {"success", "failed"} \/ phase = "down")

\* stop_worker returns, whatever the tasks still running queue meanwhile.
StopCompletes == (phase = "stopping") ~> (phase \in {"stopped", "down"})

\* While the process lives no task is executed twice, dropped or overtaken.
OnceInOrder == EachTaskOnce /\ FifoStart

\* A stop leaves no promised task behind, and waits for no worker that nothing ends.
OrderlyStop == StopDrains /\ StopReaches

\* What is promised is executed, and a stop returns, unless the process ends first.
Progress == PromisedRuns /\ StopCompletes

\* The pool has the size asked for once no retirement is outstanding
\* (domain/tasks/types.py:36, "Desired number of concurrent task workers").
DesiredWorkers ==
  phase = "serving" /\ ~InQueue(Sentinel) => Cardinality(workers) = concurrency

\* The queue implements what TaskExecutor promises; the queue's contents, the
\* pool and the setting are hidden.
Executor == INSTANCE TaskExecutor WITH life <- phase
ImplementsExecutor == Executor!Spec
=============================================================================
