-------------------------- MODULE TaskQueueProofs --------------------------
(***************************************************************************)
(* Theorems about TaskQueue, for every number of tasks, settings and       *)
(* restarts.  IInv is the inductive invariant: the properties of the       *)
(* module, the order of the ids in the queue, and what is known of the     *)
(* service in the phases where it has no workers.                          *)
(***************************************************************************)
EXTENDS TaskQueue, TLAPS, FiniteSetTheorems, SequenceTheorems

QueueSorted ==
  \A i, j \in 1..Len(queue) :
    i < j /\ queue[i] # Sentinel /\ queue[j] # Sentinel => queue[i] < queue[j]

OnlySubmitted == \A t \in TaskId : t > submitted => status[t] = "absent"

PromisedKnown == \A t \in promised : status[t] # "absent"

NoWorkers ==
  /\ phase \in {"down", "stopped"} => workers = {}
  /\ phase = "down" => queue = <<>>

IInv ==
  /\ TypeOK
  /\ EachTaskOnce
  /\ QueueSorted
  /\ OnlySubmitted
  /\ FifoStart
  /\ PromisedKnown
  /\ PromisedServed
  /\ NoWorkers
-----------------------------------------------------------------------------
\* Moving every element of a finite set of positions up by one keeps its size.
LEMMA ShiftCardinality ==
  ASSUME NEW A \in SUBSET Nat, IsFiniteSet(A)
  PROVE  /\ IsFiniteSet({i + 1 : i \in A})
         /\ Cardinality({i + 1 : i \in A}) = Cardinality(A)
<1> DEFINE B == {i + 1 : i \in A}
           f == [i \in A |-> i + 1]
<1>1. f \in Bijection(A, B)
  BY DEF Bijection, Injection, Surjection, IsInjective
<1>2. ExistsBijection(A, B)
  BY <1>1 DEF ExistsBijection
<1>. QED
  BY <1>2, FS_Bijection

\* Sets of positions or of worker ids are finite, and a subset is not larger.
LEMMA SubsetCardinality ==
  ASSUME NEW m \in Nat, NEW A \in SUBSET (1..m), NEW B \in SUBSET A
  PROVE  /\ IsFiniteSet(A) /\ Cardinality(A) \in Nat
         /\ IsFiniteSet(B) /\ Cardinality(B) \in Nat
         /\ Cardinality(B) <= Cardinality(A)
<1>1. IsFiniteSet(1..m)
  BY FS_Interval
<1>. QED
  BY <1>1, FS_Subset, FS_CardinalityType

\* The pool is finite, and so is the set of positions of the queue.
LEMMA PoolFinite ==
  ASSUME TypeOK
  PROVE  IsFiniteSet(workers) /\ Cardinality(workers) \in Nat
<1>1. IsFiniteSet(1..workerSeq)
  BY FS_Interval DEF TypeOK
<1>2. workers \in SUBSET (1..workerSeq)
  BY DEF TypeOK
<1>. QED
  BY <1>1, <1>2, FS_Subset, FS_CardinalityType

LEMMA SentinelsAheadType ==
  ASSUME TypeOK, NEW t
  PROVE  SentinelsAhead(t) \in Nat
<1> DEFINE S == {i \in 1..Len(queue) : /\ queue[i] = Sentinel
                                       /\ \E j \in 1..Len(queue) : i < j /\ queue[j] = t}
<1>1. Len(queue) \in Nat
  BY LenProperties DEF TypeOK
<1>2. S \in SUBSET (1..Len(queue))
  OBVIOUS
<1>3. Cardinality(S) \in Nat
  <2> HIDE DEF S
  <2>. QED
    BY <1>1, <1>2, SubsetCardinality
<1>. QED
  BY <1>3 DEF SentinelsAhead

\* What _ensure_worker_count does to the pool and to the queue.
LEMMA EnsureEffect ==
  ASSUME TypeOK, NEW c \in Nat \ {0}, EnsureWorkerCount(c)
  PROVE  /\ workers \subseteq workers'
         /\ \A w \in workers : job'[w] = job[w]
         /\ \A w \in workers' \ workers : job'[w] = Idle
         /\ workers' \in SUBSET (1..workerSeq')
         /\ workerSeq' \in Nat
         /\ job' \in [workers' -> TaskId \cup {Idle}]
         /\ \E k \in Nat : queue' = queue \o Sentinels(k)
<1> DEFINE n == Cardinality(workers)
           started == IF n < c THEN (workerSeq + 1)..(workerSeq + (c - n)) ELSE {}
<1>1. n \in Nat
  BY PoolFinite
<1>2. job' = [w \in workers \cup started |-> IF w \in workers THEN job[w] ELSE Idle]
  BY DEF EnsureWorkerCount
<1>3. workers' = workers \cup started
  BY <1>2 DEF workers
<1>4. workerSeq' = IF n < c THEN workerSeq + (c - n) ELSE workerSeq
  BY DEF EnsureWorkerCount
<1>5. workerSeq' \in Nat /\ workers' \in SUBSET (1..workerSeq')
  <2>1. workers \in SUBSET (1..workerSeq) /\ workerSeq \in Nat
    BY DEF TypeOK
  <2>2. workerSeq' \in Nat /\ workerSeq <= workerSeq'
    BY <1>1, <1>4, <2>1
  <2>3. started \subseteq 1..workerSeq'
    BY <1>1, <1>4, <2>1
  <2>4. 1..workerSeq \subseteq 1..workerSeq'
    BY <2>1, <2>2
  <2>. QED
    BY <1>3, <2>1, <2>2, <2>3, <2>4
<1>6. job \in [workers -> TaskId \cup {Idle}]
  BY DEF TypeOK
<1>7. \E k \in Nat : queue' = queue \o Sentinels(k)
  <2>1. CASE n > c
    <3>1. n - c \in Nat /\ queue' = queue \o Sentinels(n - c)
      BY <1>1, <2>1 DEF EnsureWorkerCount
    <3>. QED
      BY <3>1
  <2>2. CASE ~(n > c)
    <3>1. queue' = queue
      BY <2>2 DEF EnsureWorkerCount
    <3>2. Sentinels(0) = <<>>
      BY DEF Sentinels
    <3>3. queue \o Sentinels(0) = queue
      BY <3>2, ConcatEmptySeq DEF TypeOK
    <3>. QED
      BY <3>1, <3>3
  <2>. QED
    BY <2>1, <2>2
<1>. QED
  BY <1>2, <1>3, <1>5, <1>6, <1>7

\* Sentinels put behind the queue change nothing for the tasks in it.
LEMMA SentinelsBehind ==
  ASSUME TypeOK, NEW k \in Nat, queue' = queue \o Sentinels(k)
  PROVE  /\ queue' \in Seq(TaskId \cup {Sentinel})
         /\ Len(queue') = Len(queue) + k
         /\ \A i \in 1..Len(queue) : queue'[i] = queue[i]
         /\ \A i \in 1..Len(queue') : i > Len(queue) => queue'[i] = Sentinel
         /\ \A t \in TaskId : InQueue(t)' <=> InQueue(t)
         /\ \A t \in TaskId : SentinelsAhead(t)' = SentinelsAhead(t)
         /\ QueueSorted => QueueSorted'
<1>1. queue \in Seq(TaskId \cup {Sentinel}) /\ Len(queue) \in Nat
  BY LenProperties DEF TypeOK
<1>2. Sentinels(k) \in Seq(TaskId \cup {Sentinel}) /\ Len(Sentinels(k)) = k
  BY DEF Sentinels
<1>3. \A i \in 1..k : Sentinels(k)[i] = Sentinel
  BY DEF Sentinels
<1>4. /\ queue' \in Seq(TaskId \cup {Sentinel})
      /\ Len(queue') = Len(queue) + k
      /\ \A i \in 1..(Len(queue) + k) :
           queue'[i] = IF i <= Len(queue) THEN queue[i] ELSE Sentinels(k)[i - Len(queue)]
  BY <1>1, <1>2, ConcatProperties
<1>5. \A i \in 1..Len(queue) : queue'[i] = queue[i]
  BY <1>1, <1>4
<1>6. \A i \in 1..Len(queue') : i > Len(queue) => queue'[i] = Sentinel
  BY <1>1, <1>3, <1>4
<1>7. \A t \in TaskId : t # Sentinel
  BY TaskQueueAssumption DEF TaskId, Sentinel
<1>8. \A t \in TaskId : InQueue(t)' <=> InQueue(t)
  BY <1>1, <1>4, <1>5, <1>6, <1>7 DEF InQueue
<1>9. ASSUME NEW t \in TaskId
      PROVE  SentinelsAhead(t)' = SentinelsAhead(t)
  <2>1. \A i \in 1..Len(queue') : queue'[i] = t => i <= Len(queue)
    <3>. SUFFICES ASSUME NEW i \in 1..Len(queue'), queue'[i] = t, i > Len(queue)
                  PROVE  FALSE
      BY <1>1, <1>4
    <3>1. queue'[i] = Sentinel /\ t # Sentinel
      BY <1>6, <1>7
    <3>. QED
      BY <3>1
  <2>2. {i \in 1..Len(queue') : /\ queue'[i] = Sentinel
                                /\ \E j \in 1..Len(queue') : i < j /\ queue'[j] = t}
        = {i \in 1..Len(queue) : /\ queue[i] = Sentinel
                                 /\ \E j \in 1..Len(queue) : i < j /\ queue[j] = t}
    BY <1>1, <1>4, <1>5, <2>1
  <2>. QED
    BY <2>2 DEF SentinelsAhead
<1>10. QueueSorted => QueueSorted'
  BY <1>1, <1>4, <1>5, <1>6 DEF QueueSorted
<1>. QED
  BY <1>4, <1>5, <1>6, <1>8, <1>9, <1>10

\* Taking the head moves every other position down by one.
LEMMA HeadTaken ==
  ASSUME TypeOK, queue # <<>>, queue' = Tail(queue)
  PROVE  /\ queue' \in Seq(TaskId \cup {Sentinel})
         /\ Head(queue) = queue[1] /\ queue[1] \in TaskId \cup {Sentinel}
         /\ Len(queue) \in Nat \ {0} /\ Len(queue') = Len(queue) - 1
         /\ \A i \in 1..Len(queue') : i + 1 \in 1..Len(queue) /\ queue'[i] = queue[i + 1]
         /\ \A i \in 1..Len(queue) : i # 1 => i - 1 \in 1..Len(queue')
         /\ QueueSorted => QueueSorted'
<1>1. queue \in Seq(TaskId \cup {Sentinel}) /\ Len(queue) \in Nat \ {0}
  BY LenProperties, EmptySeq DEF TypeOK
<1>2. queue' \in Seq(TaskId \cup {Sentinel}) /\ Len(queue') = Len(queue) - 1
  BY <1>1, HeadTailProperties
<1>3. \A i \in 1..Len(queue') : queue'[i] = queue[i + 1]
  BY <1>1, <1>2
<1>4. Head(queue) = queue[1] /\ queue[1] \in TaskId \cup {Sentinel}
  BY <1>1
<1>5. QueueSorted => QueueSorted'
  BY <1>1, <1>2, <1>3 DEF QueueSorted
<1>. QED
  BY <1>1, <1>2, <1>3, <1>4, <1>5

\* Taking a task leaves the sentinels ahead of every other task as they were,
\* and taking a sentinel leaves one fewer.
LEMMA SentinelsAfterTake ==
  ASSUME TypeOK, queue # <<>>, queue' = Tail(queue),
         NEW t \in TaskId, InQueue(t), t # Head(queue)
  PROVE  /\ SentinelsAhead(t) \in Nat
         /\ SentinelsAhead(t)' = IF Head(queue) = Sentinel THEN SentinelsAhead(t) - 1
                                                           ELSE SentinelsAhead(t)
<1> DEFINE S == {i \in 1..Len(queue) : /\ queue[i] = Sentinel
                                       /\ \E j \in 1..Len(queue) : i < j /\ queue[j] = t}
           T == {i \in 1..Len(queue') : /\ queue'[i] = Sentinel
                                        /\ \E j \in 1..Len(queue') : i < j /\ queue'[j] = t}
<1>1. /\ Head(queue) = queue[1]
      /\ Len(queue) \in Nat \ {0} /\ Len(queue') = Len(queue) - 1
      /\ \A i \in 1..Len(queue') : i + 1 \in 1..Len(queue) /\ queue'[i] = queue[i + 1]
  BY HeadTaken
<1>2. \A i \in 1..Len(queue) : i # 1 => i - 1 \in 1..Len(queue') /\ queue[i] = queue'[i - 1]
  BY <1>1
<1>3. IsFiniteSet(S) /\ IsFiniteSet(T) /\ T \in SUBSET Nat
  <2>1. S \in SUBSET (1..Len(queue)) /\ T \in SUBSET (1..Len(queue'))
    OBVIOUS
  <2>2. IsFiniteSet(1..Len(queue)) /\ IsFiniteSet(1..Len(queue'))
    BY <1>1, FS_Interval
  <2>3. 1..Len(queue') \subseteq Nat
    BY <1>1
  <2> HIDE DEF S, T
  <2>. QED
    BY <2>1, <2>2, <2>3, FS_Subset
<1>4. IsFiniteSet({i + 1 : i \in T}) /\ Cardinality({i + 1 : i \in T}) = Cardinality(T)
  BY <1>3, ShiftCardinality
<1>5. {i + 1 : i \in T} = S \ {1}
  <2>1. ASSUME NEW i \in T PROVE i + 1 \in S \ {1}
    <3>1. PICK j \in 1..Len(queue') : i < j /\ queue'[j] = t
      OBVIOUS
    <3>2. /\ i + 1 \in 1..Len(queue) /\ queue[i + 1] = Sentinel
          /\ j + 1 \in 1..Len(queue) /\ queue[j + 1] = t
      BY <1>1, <3>1
    <3>3. i + 1 < j + 1 /\ i + 1 # 1
      BY <1>1, <3>1
    <3>. QED
      BY <3>2, <3>3
  <2>2. ASSUME NEW i \in S \ {1} PROVE i - 1 \in T
    <3>1. PICK j \in 1..Len(queue) : i < j /\ queue[j] = t
      OBVIOUS
    <3>2. /\ i - 1 \in 1..Len(queue') /\ queue'[i - 1] = Sentinel
          /\ j - 1 \in 1..Len(queue') /\ queue'[j - 1] = t
      BY <1>1, <1>2, <3>1
    <3>3. i - 1 < j - 1
      BY <1>1, <3>1
    <3>. QED
      BY <3>2, <3>3
  <2>3. \A i \in S : i \in Nat /\ (i - 1) + 1 = i
    BY <1>1
  <2> HIDE DEF S, T
  <2>. QED
    BY <2>1, <2>2, <2>3
<1>6. Cardinality(S) \in Nat /\ Cardinality(T) \in Nat
  BY <1>3, FS_CardinalityType
<1>7. Cardinality(S \ {1}) = IF 1 \in S THEN Cardinality(S) - 1 ELSE Cardinality(S)
  BY <1>3, FS_RemoveElement
<1>8. 1 \in S <=> Head(queue) = Sentinel
  <2>1. PICK j \in 1..Len(queue) : queue[j] = t
    BY DEF InQueue
  <2>2. 1 < j
    BY <1>1, <2>1
  <2>. QED
    BY <1>1, <2>1, <2>2
<1>9. SentinelsAhead(t) = Cardinality(S) /\ SentinelsAhead(t)' = Cardinality(T)
  BY DEF SentinelsAhead
<1>. QED
  BY <1>4, <1>5, <1>6, <1>7, <1>8, <1>9

\* A task put behind the queue has all of its sentinels ahead, and changes
\* nothing for the tasks before it.
LEMMA TaskBehind ==
  ASSUME TypeOK, NEW u \in TaskId, queue' = Append(queue, u)
  PROVE  /\ queue' \in Seq(TaskId \cup {Sentinel})
         /\ Len(queue') = Len(queue) + 1
         /\ \A i \in 1..Len(queue) : queue'[i] = queue[i]
         /\ queue'[Len(queue) + 1] = u
         /\ SentinelsAhead(u)' = Count(queue, Sentinel)
         /\ \A t \in TaskId \ {u} : SentinelsAhead(t)' = SentinelsAhead(t)
<1>1. queue \in Seq(TaskId \cup {Sentinel}) /\ Len(queue) \in Nat
  BY LenProperties DEF TypeOK
<1>2. /\ queue' \in Seq(TaskId \cup {Sentinel})
      /\ Len(queue') = Len(queue) + 1
      /\ \A i \in 1..Len(queue) : queue'[i] = queue[i]
      /\ queue'[Len(queue) + 1] = u
  BY <1>1
<1>3. u # Sentinel
  BY TaskQueueAssumption DEF TaskId, Sentinel
<1>4. SentinelsAhead(u)' = Count(queue, Sentinel)
  <2>1. {i \in 1..Len(queue') : /\ queue'[i] = Sentinel
                                /\ \E j \in 1..Len(queue') : i < j /\ queue'[j] = u}
        = {i \in 1..Len(queue) : queue[i] = Sentinel}
    BY <1>1, <1>2, <1>3
  <2>. QED
    BY <2>1 DEF SentinelsAhead, Count
<1>5. ASSUME NEW t \in TaskId \ {u}
      PROVE  SentinelsAhead(t)' = SentinelsAhead(t)
  <2>1. {i \in 1..Len(queue') : /\ queue'[i] = Sentinel
                                /\ \E j \in 1..Len(queue') : i < j /\ queue'[j] = t}
        = {i \in 1..Len(queue) : /\ queue[i] = Sentinel
                                 /\ \E j \in 1..Len(queue) : i < j /\ queue[j] = t}
    BY <1>1, <1>2, <1>3
  <2>. QED
    BY <2>1 DEF SentinelsAhead
<1>. QED
  BY <1>2, <1>4, <1>5

-----------------------------------------------------------------------------
LEMMA InitIInv == Init => IInv
<1>1. <<>> \in Seq(TaskId \cup {Sentinel}) /\ Len(<<>>) = 0
  BY EmptySeq
<1>. QED
  BY <1>1, TaskQueueAssumption
  DEF Init, Fresh, IInv, TypeOK, EachTaskOnce, InQueue, QueueSorted, OnlySubmitted,
      FifoStart, PromisedKnown, PromisedServed, NoWorkers, workers, Status, Phase

\* Starting and resizing the pool.
LEMMA ResizeIInv ==
  ASSUME IInv, NEW c \in Nat \ {0}, EnsureWorkerCount(c), concurrency' = c,
         phase' = "serving", UNCHANGED <<status, submitted, promised>>,
         changes' \in 0..MaxSettings, boots' \in 0..MaxBoots
  PROVE  IInv'
<1> USE DEF IInv
<1>1. PICK k \in Nat : queue' = queue \o Sentinels(k)
  BY EnsureEffect
<1>2. /\ workers \subseteq workers'
      /\ \A w \in workers : job'[w] = job[w]
      /\ \A w \in workers' \ workers : job'[w] = Idle
      /\ workers' \in SUBSET (1..workerSeq')
      /\ workerSeq' \in Nat
      /\ job' \in [workers' -> TaskId \cup {Idle}]
  BY EnsureEffect
<1>3. /\ queue' \in Seq(TaskId \cup {Sentinel})
      /\ Len(queue') = Len(queue) + k
      /\ \A i \in 1..Len(queue) : queue'[i] = queue[i]
      /\ \A i \in 1..Len(queue') : i > Len(queue) => queue'[i] = Sentinel
      /\ \A t \in TaskId : InQueue(t)' <=> InQueue(t)
      /\ \A t \in TaskId : SentinelsAhead(t)' = SentinelsAhead(t)
      /\ QueueSorted'
  BY <1>1, SentinelsBehind
<1>4. TypeOK'
  BY <1>2, <1>3 DEF TypeOK, Phase
<1>5. Len(queue) \in Nat
  BY LenProperties DEF TypeOK
<1>6. EachTaskOnce'
  <2>1. \A t \in TaskId : t # Idle
    BY TaskQueueAssumption DEF TaskId, Idle
  <2>2. \A t \in TaskId : (\E w \in workers' : job'[w] = t) <=> status'[t] = "running"
    BY <1>2, <2>1 DEF EachTaskOnce
  <2>3. \A v, w \in workers' : job'[v] = job'[w] /\ job'[v] # Idle => v = w
    BY <1>2 DEF EachTaskOnce
  <2>4. \A i, j \in 1..Len(queue') : queue'[i] = queue'[j] /\ queue'[i] # Sentinel => i = j
    BY <1>3, <1>5 DEF EachTaskOnce
  <2>. QED
    BY <1>3, <2>2, <2>3, <2>4 DEF EachTaskOnce
<1>7. PromisedServed'
  <2>1. /\ Cardinality(workers) <= Cardinality(workers')
        /\ Cardinality(workers) \in Nat /\ Cardinality(workers') \in Nat
    BY <1>2, SubsetCardinality
  <2>3. \A t \in promised : t \in TaskId
    BY DEF TypeOK
  <2>4. ASSUME NEW t \in promised', status'[t] = "pending"
        PROVE  Headroom(t)'
    <3>1. Cardinality(workers) > SentinelsAhead(t)
      BY <2>4 DEF PromisedServed, Headroom
    <3>2. SentinelsAhead(t)' = SentinelsAhead(t)
      BY <1>3, <2>3
    <3>3. SentinelsAhead(t) \in Nat
      BY SentinelsAheadType
    <3>. QED
      BY <2>1, <3>1, <3>2, <3>3 DEF Headroom
  <2>. QED
    BY <2>4 DEF PromisedServed
<1>8. OnlySubmitted' /\ FifoStart' /\ PromisedKnown' /\ NoWorkers'
  BY DEF OnlySubmitted, FifoStart, PromisedKnown, NoWorkers
<1>. QED
  BY <1>3, <1>4, <1>6, <1>7, <1>8

LEMMA AddTaskIInv ==
  ASSUME IInv, AddTask
  PROVE  IInv'
<1> USE DEF IInv
<1>u. PICK u \in TaskId : u = submitted + 1
  BY TaskQueueAssumption DEF AddTask, TypeOK, TaskId
<1>1. /\ u = submitted + 1
      /\ submitted' = u
      /\ status' = [status EXCEPT ![u] = "pending"]
      /\ queue' = Append(queue, u)
      /\ promised' = IF Cardinality(workers) > Count(queue, Sentinel)
                     THEN promised \cup {u} ELSE promised
      /\ UNCHANGED <<phase, job, concurrency, workerSeq, changes, boots>>
      /\ workers' = workers
      /\ phase = "serving" \/ \E w \in workers : job[w] # Idle
  BY <1>u DEF AddTask, workers
<1>2. /\ queue' \in Seq(TaskId \cup {Sentinel})
      /\ Len(queue') = Len(queue) + 1
      /\ \A i \in 1..Len(queue) : queue'[i] = queue[i]
      /\ queue'[Len(queue) + 1] = u
      /\ SentinelsAhead(u)' = Count(queue, Sentinel)
      /\ \A t \in TaskId \ {u} : SentinelsAhead(t)' = SentinelsAhead(t)
  BY <1>1, TaskBehind
<1>3. Len(queue) \in Nat /\ queue \in Seq(TaskId \cup {Sentinel})
  BY LenProperties DEF TypeOK
<1>4. status[u] = "absent"
  BY <1>1 DEF OnlySubmitted, TypeOK
<1>5. \A i \in 1..Len(queue) : queue[i] \in TaskId \cup {Sentinel} /\ queue[i] # u
  <2>1. \A i \in 1..Len(queue) : queue[i] \in TaskId \cup {Sentinel}
    BY <1>3, ElementOfSeq
  <2>2. ~InQueue(u)
    BY <1>1, <1>4 DEF EachTaskOnce
  <2>. QED
    BY <2>1, <2>2 DEF InQueue
<1>6. \A t \in TaskId : t # Sentinel /\ t # Idle /\ t \in Nat
  BY TaskQueueAssumption DEF TaskId, Sentinel, Idle
<1>7. TypeOK'
  BY <1>1, <1>2 DEF TypeOK, Status, TaskId
<1>8. EachTaskOnce'
  <2>1. \A t \in TaskId : InQueue(t)' <=> (t = u \/ InQueue(t))
    BY <1>2, <1>3 DEF InQueue
  <2>2. \A t \in TaskId : InQueue(t)' <=> status'[t] = "pending"
    BY <1>1, <2>1 DEF EachTaskOnce, TypeOK
  <2>3. \A i, j \in 1..Len(queue') : queue'[i] = queue'[j] /\ queue'[i] # Sentinel => i = j
    BY <1>2, <1>3, <1>5 DEF EachTaskOnce
  <2>4. \A t \in TaskId : (\E w \in workers' : job'[w] = t) <=> status'[t] = "running"
    BY <1>1, <1>4 DEF EachTaskOnce, TypeOK
  <2>5. \A v, w \in workers' : job'[v] = job'[w] /\ job'[v] # Idle => v = w
    BY <1>1 DEF EachTaskOnce
  <2>. QED
    BY <2>2, <2>3, <2>4, <2>5 DEF EachTaskOnce
<1>9. QueueSorted'
  <2>1. ASSUME NEW i \in 1..Len(queue), queue[i] # Sentinel
        PROVE  queue[i] < u
    <3>1. queue[i] \in TaskId /\ status[queue[i]] = "pending"
      BY <1>5, <2>1 DEF EachTaskOnce, InQueue
    <3>2. ~(queue[i] > submitted)
      BY <3>1 DEF OnlySubmitted
    <3>3. queue[i] \in Nat /\ submitted \in Nat
      BY <1>6, <3>1 DEF TypeOK
    <3>. QED
      BY <1>1, <3>2, <3>3
  <2>. QED
    BY <1>2, <1>3, <2>1 DEF QueueSorted
<1>10. OnlySubmitted'
  BY <1>1, <1>6 DEF OnlySubmitted, TypeOK
<1>11. FifoStart'
  <2>1. \A t \in TaskId : u < t => status[t] = "absent"
    BY <1>1, <1>6 DEF OnlySubmitted, TypeOK
  <2>. QED
    BY <1>1, <2>1 DEF FifoStart, TypeOK
<1>12. PromisedKnown'
  BY <1>1 DEF PromisedKnown, TypeOK
<1>13. PromisedServed'
  <2>1. ASSUME NEW t \in promised', status'[t] = "pending", t # u
        PROVE  Headroom(t)'
    <3>1. t \in promised /\ t \in TaskId /\ status[t] = "pending"
      BY <1>1, <2>1 DEF TypeOK
    <3>. QED
      BY <1>1, <1>2, <2>1, <3>1 DEF PromisedServed, Headroom
  <2>2. u \in promised' => Headroom(u)'
    <3>1. u \notin promised
      BY <1>4 DEF PromisedKnown
    <3>. QED
      BY <1>1, <1>2, <3>1 DEF Headroom
  <2>. QED
    BY <2>1, <2>2 DEF PromisedServed
<1>14. NoWorkers'
  BY <1>1 DEF NoWorkers
<1>. QED
  BY <1>7, <1>8, <1>9, <1>10, <1>11, <1>12, <1>13, <1>14

LEMMA TakeTaskIInv ==
  ASSUME IInv, NEW w \in workers, TakeTask(w)
  PROVE  IInv'
<1> USE DEF IInv
<1> DEFINE h == Head(queue)
<1>1. /\ job[w] = Idle /\ queue # <<>> /\ h # Sentinel
      /\ queue' = Tail(queue)
      /\ job' = [job EXCEPT ![w] = h]
      /\ status' = [status EXCEPT ![h] = "running"]
      /\ UNCHANGED <<phase, submitted, concurrency, workerSeq, changes, boots, promised>>
      /\ workers' = workers
  BY DEF TakeTask, workers, TypeOK
<1>2. /\ queue' \in Seq(TaskId \cup {Sentinel})
      /\ h = queue[1] /\ queue[1] \in TaskId \cup {Sentinel}
      /\ Len(queue) \in Nat \ {0} /\ Len(queue') = Len(queue) - 1
      /\ \A i \in 1..Len(queue') : i + 1 \in 1..Len(queue) /\ queue'[i] = queue[i + 1]
      /\ \A i \in 1..Len(queue) : i # 1 => i - 1 \in 1..Len(queue')
      /\ QueueSorted'
  BY <1>1, HeadTaken
<1>3. h \in TaskId /\ status[h] = "pending"
  BY <1>1, <1>2 DEF EachTaskOnce, InQueue
<1>4. \A t \in TaskId : t # Idle /\ t # Sentinel /\ t \in Nat
  BY TaskQueueAssumption DEF TaskId, Idle, Sentinel
<1>5. \A t \in TaskId : InQueue(t)' <=> (InQueue(t) /\ t # h)
  <2>1. ASSUME NEW t \in TaskId, InQueue(t), t # h
        PROVE  InQueue(t)'
    <3>1. PICK i \in 1..Len(queue) : queue[i] = t
      BY <2>1 DEF InQueue
    <3>2. i - 1 \in 1..Len(queue') /\ queue'[i - 1] = queue[(i - 1) + 1]
      BY <1>2, <2>1, <3>1
    <3>. QED
      BY <3>1, <3>2 DEF InQueue
  <2>2. ASSUME NEW t \in TaskId, InQueue(t)'
        PROVE  InQueue(t) /\ t # h
    <3>1. PICK i \in 1..Len(queue') : queue'[i] = t
      BY <2>2 DEF InQueue
    <3>2. i + 1 \in 1..Len(queue) /\ queue[i + 1] = t /\ i + 1 # 1
      BY <1>2, <3>1
    <3>. QED
      BY <1>2, <1>4, <3>2 DEF InQueue, EachTaskOnce
  <2>. QED
    BY <2>1, <2>2
<1>6. TypeOK'
  BY <1>1, <1>2, <1>3 DEF TypeOK, Status
<1>7. EachTaskOnce'
  <2>1. \A t \in TaskId : InQueue(t)' <=> status'[t] = "pending"
    BY <1>1, <1>3, <1>5 DEF EachTaskOnce, TypeOK
  <2>2. \A i, j \in 1..Len(queue') : queue'[i] = queue'[j] /\ queue'[i] # Sentinel => i = j
    BY <1>2 DEF EachTaskOnce
  <2>3. \A v \in workers : job[v] # h
    BY <1>3 DEF EachTaskOnce
  <2>4. \A t \in TaskId : (\E v \in workers' : job'[v] = t) <=> status'[t] = "running"
    BY <1>1, <1>3, <1>4, <2>3 DEF EachTaskOnce, TypeOK
  <2>5. \A v, x \in workers' : job'[v] = job'[x] /\ job'[v] # Idle => v = x
    BY <1>1, <2>3 DEF EachTaskOnce, TypeOK
  <2>. QED
    BY <2>1, <2>2, <2>4, <2>5 DEF EachTaskOnce
<1>8. OnlySubmitted' /\ PromisedKnown' /\ NoWorkers'
  BY <1>1, <1>3 DEF OnlySubmitted, PromisedKnown, NoWorkers, TypeOK
<1>9. FifoStart'
  <2>1. ASSUME NEW s \in TaskId, s < h, status[s] = "pending"
        PROVE  FALSE
    <3>1. PICK i \in 1..Len(queue) : queue[i] = s
      BY <2>1 DEF EachTaskOnce, InQueue
    <3>. QED
      BY <1>1, <1>2, <1>3, <1>4, <2>1, <3>1 DEF QueueSorted
  <2>. QED
    BY <1>1, <1>3, <2>1 DEF FifoStart, TypeOK
<1>10. PromisedServed'
  <2>1. ASSUME NEW t \in promised', status'[t] = "pending"
        PROVE  Headroom(t)'
    <3>1. t \in promised /\ t \in TaskId /\ status[t] = "pending" /\ t # h
      BY <1>1, <1>3, <2>1 DEF TypeOK
    <3>2. SentinelsAhead(t)' = SentinelsAhead(t)
      BY <1>1, <3>1, SentinelsAfterTake DEF EachTaskOnce
    <3>. QED
      BY <1>1, <3>1, <3>2 DEF PromisedServed, Headroom
  <2>. QED
    BY <2>1 DEF PromisedServed
<1>. QED
  BY <1>2, <1>6, <1>7, <1>8, <1>9, <1>10

LEMMA TakeSentinelIInv ==
  ASSUME IInv, NEW w \in workers, TakeSentinel(w)
  PROVE  IInv'
<1> USE DEF IInv
<1>1. /\ job[w] = Idle /\ queue # <<>> /\ Head(queue) = Sentinel
      /\ queue' = Tail(queue)
      /\ job' = [v \in workers \ {w} |-> job[v]]
      /\ UNCHANGED <<phase, status, submitted, concurrency, workerSeq, changes, boots, promised>>
      /\ workers' = workers \ {w}
  BY DEF TakeSentinel, workers
<1>2. /\ queue' \in Seq(TaskId \cup {Sentinel})
      /\ queue[1] = Sentinel
      /\ Len(queue) \in Nat \ {0} /\ Len(queue') = Len(queue) - 1
      /\ \A i \in 1..Len(queue') : i + 1 \in 1..Len(queue) /\ queue'[i] = queue[i + 1]
      /\ \A i \in 1..Len(queue) : i # 1 => i - 1 \in 1..Len(queue')
      /\ QueueSorted'
  BY <1>1, HeadTaken
<1>3. \A t \in TaskId : t # Idle /\ t # Sentinel
  BY TaskQueueAssumption DEF TaskId, Idle, Sentinel
<1>4. \A t \in TaskId : InQueue(t)' <=> InQueue(t)
  <2>1. ASSUME NEW t \in TaskId, InQueue(t)
        PROVE  InQueue(t)'
    <3>1. PICK i \in 1..Len(queue) : queue[i] = t
      BY <2>1 DEF InQueue
    <3>2. i - 1 \in 1..Len(queue') /\ queue'[i - 1] = queue[(i - 1) + 1]
      BY <1>2, <1>3, <3>1
    <3>. QED
      BY <3>1, <3>2 DEF InQueue
  <2>2. ASSUME NEW t \in TaskId, InQueue(t)'
        PROVE  InQueue(t)
    BY <1>2, <2>2 DEF InQueue
  <2>. QED
    BY <2>1, <2>2
<1>5. TypeOK'
  BY <1>1, <1>2 DEF TypeOK
<1>6. EachTaskOnce'
  <2>1. \A i, j \in 1..Len(queue') : queue'[i] = queue'[j] /\ queue'[i] # Sentinel => i = j
    <3>. SUFFICES ASSUME NEW i \in 1..Len(queue'), NEW j \in 1..Len(queue'),
                         queue'[i] = queue'[j], queue'[i] # Sentinel
                  PROVE  i = j
      OBVIOUS
    <3>1. i + 1 \in 1..Len(queue) /\ j + 1 \in 1..Len(queue)
      BY <1>2
    <3>2. queue[i + 1] = queue[j + 1] /\ queue[i + 1] # Sentinel
      BY <1>2
    <3>3. i + 1 = j + 1
      BY <3>1, <3>2 DEF EachTaskOnce
    <3>. QED
      BY <1>2, <3>3
  <2>2. \A t \in TaskId : (\E v \in workers' : job'[v] = t) <=> status'[t] = "running"
    BY <1>1, <1>3 DEF EachTaskOnce
  <2>. QED
    BY <1>1, <1>4, <2>1, <2>2 DEF EachTaskOnce
<1>7. OnlySubmitted' /\ PromisedKnown' /\ NoWorkers' /\ FifoStart'
  BY <1>1 DEF OnlySubmitted, PromisedKnown, NoWorkers, FifoStart
<1>8. PromisedServed'
  <2>1. ASSUME NEW t \in promised', status'[t] = "pending"
        PROVE  Headroom(t)'
    <3>1. t \in promised /\ t \in TaskId /\ status[t] = "pending"
      BY <1>1, <2>1 DEF TypeOK
    <3>2. SentinelsAhead(t)' = SentinelsAhead(t) - 1 /\ SentinelsAhead(t) \in Nat
      BY <1>1, <1>3, <3>1, SentinelsAfterTake DEF EachTaskOnce
    <3>3. Cardinality(workers) \in Nat /\ Cardinality(workers') = Cardinality(workers) - 1
      BY <1>1, PoolFinite, FS_RemoveElement
    <3>4. Cardinality(workers) > SentinelsAhead(t)
      BY <3>1 DEF PromisedServed, Headroom
    <3>. QED
      BY <3>2, <3>3, <3>4 DEF Headroom
  <2>. QED
    BY <2>1 DEF PromisedServed
<1>. QED
  BY <1>2, <1>5, <1>6, <1>7, <1>8

LEMMA FinishTaskIInv ==
  ASSUME IInv, NEW w \in workers, NEW r \in {"success", "failed"}, FinishTask(w, r)
  PROVE  IInv'
<1> USE DEF IInv
<1>1. /\ job[w] \in TaskId /\ status[job[w]] = "running"
      /\ status' = [status EXCEPT ![job[w]] = r]
      /\ job' = [job EXCEPT ![w] = Idle]
      /\ UNCHANGED <<phase, queue, submitted, concurrency, workerSeq, changes, boots, promised>>
      /\ workers' = workers
  BY DEF FinishTask, workers, TypeOK, EachTaskOnce
<1>2. \A t \in TaskId : t # Idle
  BY TaskQueueAssumption DEF TaskId, Idle
<1>3. TypeOK'
  BY <1>1 DEF TypeOK, Status
<1>4. EachTaskOnce'
  <2>1. \A t \in TaskId : InQueue(t)' <=> status'[t] = "pending"
    BY <1>1 DEF EachTaskOnce, TypeOK, InQueue
  <2>2. \A t \in TaskId : (\E v \in workers' : job'[v] = t) <=> status'[t] = "running"
    BY <1>1, <1>2 DEF EachTaskOnce, TypeOK
  <2>3. \A v, x \in workers' : job'[v] = job'[x] /\ job'[v] # Idle => v = x
    BY <1>1 DEF EachTaskOnce, TypeOK
  <2>. QED
    BY <1>1, <2>1, <2>2, <2>3 DEF EachTaskOnce
<1>5. OnlySubmitted' /\ FifoStart' /\ PromisedKnown' /\ QueueSorted' /\ NoWorkers'
  BY <1>1 DEF OnlySubmitted, FifoStart, PromisedKnown, QueueSorted, NoWorkers, TypeOK
<1>6. PromisedServed'
  BY <1>1 DEF PromisedServed, Headroom, SentinelsAhead, TypeOK
<1>. QED
  BY <1>3, <1>4, <1>5, <1>6

LEMMA StopWorkerIInv ==
  ASSUME IInv, StopWorker
  PROVE  IInv'
<1> USE DEF IInv
<1>1. PICK k \in Nat : k = Cardinality(workers)
  BY PoolFinite
<1>2. /\ queue' = queue \o Sentinels(k)
      /\ phase = "serving" /\ phase' = "stopping"
      /\ UNCHANGED <<status, submitted, job, concurrency, workerSeq, changes, boots, promised>>
      /\ workers' = workers
  BY <1>1 DEF StopWorker, workers
<1>3. /\ queue' \in Seq(TaskId \cup {Sentinel})
      /\ Len(queue') = Len(queue) + k
      /\ \A i \in 1..Len(queue) : queue'[i] = queue[i]
      /\ \A i \in 1..Len(queue') : i > Len(queue) => queue'[i] = Sentinel
      /\ \A t \in TaskId : InQueue(t)' <=> InQueue(t)
      /\ \A t \in TaskId : SentinelsAhead(t)' = SentinelsAhead(t)
      /\ QueueSorted'
  BY <1>2, SentinelsBehind
<1>4. TypeOK'
  BY <1>2, <1>3 DEF TypeOK, Phase
<1>5. Len(queue) \in Nat
  BY LenProperties DEF TypeOK
<1>6. EachTaskOnce'
  <2>1. \A i, j \in 1..Len(queue') : queue'[i] = queue'[j] /\ queue'[i] # Sentinel => i = j
    BY <1>3, <1>5 DEF EachTaskOnce
  <2>. QED
    BY <1>2, <1>3, <2>1 DEF EachTaskOnce
<1>7. OnlySubmitted' /\ FifoStart' /\ PromisedKnown' /\ NoWorkers'
  BY <1>2 DEF OnlySubmitted, FifoStart, PromisedKnown, NoWorkers
<1>8. PromisedServed'
  BY <1>2, <1>3 DEF PromisedServed, Headroom, TypeOK
<1>. QED
  BY <1>3, <1>4, <1>6, <1>7, <1>8

LEMMA StopReturnsIInv ==
  ASSUME IInv, StopReturns
  PROVE  IInv'
BY DEF StopReturns, IInv, TypeOK, EachTaskOnce, InQueue, QueueSorted, OnlySubmitted,
       FifoStart, PromisedKnown, PromisedServed, Headroom, SentinelsAhead, NoWorkers,
       workers, Phase

LEMMA ProcessEndsIInv ==
  ASSUME IInv, ProcessEnds
  PROVE  IInv'
<1>1. <<>> \in Seq(TaskId \cup {Sentinel}) /\ Len(<<>>) = 0
  BY EmptySeq
<1>. QED
  BY <1>1, TaskQueueAssumption
  DEF ProcessEnds, IInv, TypeOK, EachTaskOnce, InQueue, QueueSorted, OnlySubmitted,
      FifoStart, PromisedKnown, PromisedServed, NoWorkers, workers, Status, Phase

LEMMA NextIInv == IInv /\ [Next]_vars => IInv'
<1> SUFFICES ASSUME IInv, [Next]_vars
             PROVE  IInv'
  OBVIOUS
<1>1. ASSUME NEW c \in Settings, StartWorker(c)
      PROVE  IInv'
  BY <1>1, ResizeIInv, TaskQueueAssumption DEF StartWorker, IInv, TypeOK
<1>2. ASSUME NEW c \in Settings, SetConcurrency(c)
      PROVE  IInv'
  BY <1>2, ResizeIInv, TaskQueueAssumption DEF SetConcurrency, IInv, TypeOK
<1>3. CASE AddTask
  BY <1>3, AddTaskIInv
<1>4. ASSUME NEW w \in workers, WorkerStep(w)
      PROVE  IInv'
  BY <1>4, TakeTaskIInv, TakeSentinelIInv, FinishTaskIInv DEF WorkerStep
<1>5. CASE StopWorker
  BY <1>5, StopWorkerIInv
<1>6. CASE StopReturns
  BY <1>6, StopReturnsIInv
<1>7. CASE ProcessEnds
  BY <1>7, ProcessEndsIInv
<1>8. CASE UNCHANGED vars
  BY <1>8 DEF vars, IInv, TypeOK, EachTaskOnce, InQueue, QueueSorted, OnlySubmitted,
     FifoStart, PromisedKnown, PromisedServed, Headroom, SentinelsAhead, NoWorkers, workers
<1>. QED
  BY <1>1, <1>2, <1>3, <1>4, <1>5, <1>6, <1>7, <1>8 DEF Next
-----------------------------------------------------------------------------
\* IInv holds in every reachable state of the queue.
THEOREM QueueInvariant == Spec => []IInv
BY InitIInv, NextIInv, PTL DEF Spec

\* The variables keep their types: the pool's ids stay below the sequence
\* number, and the concurrency at one or more.
THEOREM TypeCorrect == Spec => []TypeOK
<1>1. IInv => TypeOK
  BY DEF IInv
<1>. QED
  BY <1>1, QueueInvariant, PTL

\* No task is executed twice, by two workers, or dropped.
THEOREM RunOnce == Spec => []EachTaskOnce
<1>1. IInv => EachTaskOnce
  BY DEF IInv
<1>. QED
  BY <1>1, QueueInvariant, PTL

\* Tasks are started in the order in which add_task accepted them.
THEOREM StartOrder == Spec => []FifoStart
<1>1. IInv => FifoStart
  BY DEF IInv
<1>. QED
  BY <1>1, QueueInvariant, PTL

\* A promised task keeps a worker to spare until it starts.
THEOREM HeadroomKept == Spec => []PromisedServed
<1>1. IInv => PromisedServed
  BY DEF IInv
<1>. QED
  BY <1>1, QueueInvariant, PTL

\* When stop_worker has returned every promised task has been executed.
THEOREM StopIsDrain == Spec => []StopDrains
<1>1. IInv => StopDrains
  <2> SUFFICES ASSUME IInv, phase = "stopped", NEW t \in promised
               PROVE  status[t] \in {"success", "failed"}
    BY DEF StopDrains
  <2>1. workers = {} /\ Cardinality(workers) = 0
    BY FS_EmptySet DEF IInv, NoWorkers
  <2>2. t \in TaskId /\ status[t] \in Status /\ status[t] # "absent"
    BY DEF IInv, TypeOK, PromisedKnown
  <2>3. status[t] # "running"
    BY <2>1, <2>2 DEF IInv, EachTaskOnce
  <2>4. status[t] # "pending"
    <3>1. SentinelsAhead(t) \in Nat
      BY SentinelsAheadType DEF IInv
    <3>2. status[t] = "pending" => Cardinality(workers) > SentinelsAhead(t)
      BY DEF IInv, PromisedServed, Headroom
    <3>. QED
      BY <2>1, <3>1, <3>2
  <2>. QED
    BY <2>2, <2>3, <2>4 DEF Status
<1>. QED
  BY <1>1, QueueInvariant, PTL
-----------------------------------------------------------------------------
\* The sentinels of the queue can be counted.
LEMMA CountType ==
  ASSUME TypeOK
  PROVE  /\ IsFiniteSet({i \in 1..Len(queue) : queue[i] = Sentinel})
         /\ Count(queue, Sentinel) \in Nat
<1> DEFINE S == {i \in 1..Len(queue) : queue[i] = Sentinel}
<1>1. Len(queue) \in Nat
  BY LenProperties DEF TypeOK
<1>2. S \in SUBSET (1..Len(queue))
  OBVIOUS
<1>3. IsFiniteSet(S) /\ Cardinality(S) \in Nat
  <2> HIDE DEF S
  <2>. QED
    BY <1>1, <1>2, SubsetCardinality
<1>. QED
  BY <1>3 DEF Count

\* Putting something behind the queue removes no sentinel.
LEMMA CountKept ==
  ASSUME TypeOK, TypeOK', Len(queue) <= Len(queue'),
         \A i \in 1..Len(queue) : queue'[i] = queue[i]
  PROVE  /\ Count(queue, Sentinel)' \in Nat
         /\ Count(queue, Sentinel) <= Count(queue, Sentinel)'
<1> DEFINE S == {i \in 1..Len(queue) : queue[i] = Sentinel}
           T == {i \in 1..Len(queue') : queue'[i] = Sentinel}
<1>1. Len(queue) \in Nat /\ Len(queue') \in Nat
  BY LenProperties DEF TypeOK
<1>2. S \in SUBSET T /\ T \in SUBSET (1..Len(queue'))
  BY <1>1
<1>3. Cardinality(S) <= Cardinality(T) /\ Cardinality(T) \in Nat
  <2> HIDE DEF S, T
  <2>. QED
    BY <1>1, <1>2, SubsetCardinality
<1>. QED
  BY <1>3 DEF Count

\* Taking the head removes one sentinel when it is one, and none when it is a task.
LEMMA CountAfterTake ==
  ASSUME TypeOK, TypeOK', queue # <<>>, queue' = Tail(queue)
  PROVE  Count(queue, Sentinel)' = IF Head(queue) = Sentinel
                                   THEN Count(queue, Sentinel) - 1
                                   ELSE Count(queue, Sentinel)
<1> DEFINE S == {i \in 1..Len(queue) : queue[i] = Sentinel}
           T == {i \in 1..Len(queue') : queue'[i] = Sentinel}
<1>1. /\ Head(queue) = queue[1]
      /\ Len(queue) \in Nat \ {0} /\ Len(queue') = Len(queue) - 1
      /\ \A i \in 1..Len(queue') : i + 1 \in 1..Len(queue) /\ queue'[i] = queue[i + 1]
  BY HeadTaken
<1>2. \A i \in 1..Len(queue) : i # 1 => i - 1 \in 1..Len(queue') /\ queue[i] = queue'[i - 1]
  BY <1>1
<1>3. IsFiniteSet(S) /\ IsFiniteSet(T) /\ T \in SUBSET Nat
  <2>1. S \in SUBSET (1..Len(queue)) /\ T \in SUBSET (1..Len(queue'))
    OBVIOUS
  <2>2. Len(queue') \in Nat /\ 1..Len(queue') \subseteq Nat
    BY <1>1
  <2> HIDE DEF S, T
  <2>. QED
    BY <1>1, <2>1, <2>2, SubsetCardinality
<1>4. IsFiniteSet({i + 1 : i \in T}) /\ Cardinality({i + 1 : i \in T}) = Cardinality(T)
  <2> HIDE DEF T
  <2>. QED
    BY <1>3, ShiftCardinality
<1>5. {i + 1 : i \in T} = S \ {1}
  <2>1. ASSUME NEW i \in T PROVE i + 1 \in S \ {1}
    BY <1>1
  <2>2. ASSUME NEW i \in S \ {1} PROVE i - 1 \in T
    BY <1>1, <1>2
  <2>3. \A i \in S : i \in Nat /\ (i - 1) + 1 = i
    BY <1>1
  <2> HIDE DEF S, T
  <2>. QED
    BY <2>1, <2>2, <2>3
<1>6. Cardinality(S \ {1}) = IF 1 \in S THEN Cardinality(S) - 1 ELSE Cardinality(S)
  <2> HIDE DEF S
  <2>. QED
    BY <1>3, FS_RemoveElement
<1>7. 1 \in S <=> Head(queue) = Sentinel
  BY <1>1
<1>8. Count(queue, Sentinel) = Cardinality(S) /\ Count(queue, Sentinel)' = Cardinality(T)
  BY DEF Count
<1>. QED
  BY <1>4, <1>5, <1>6, <1>7, <1>8

\* stop_worker leaves a sentinel for every live worker.
LEMMA StopWorkerReaches ==
  ASSUME IInv, TypeOK', StopWorker
  PROVE  Cardinality(workers') <= Count(queue, Sentinel)'
<1> USE DEF IInv
<1>1. PICK k \in Nat : k = Cardinality(workers)
  BY PoolFinite
<1>2. queue' = queue \o Sentinels(k) /\ workers' = workers
  BY <1>1 DEF StopWorker, workers
<1>3. /\ Len(queue') = Len(queue) + k
      /\ \A i \in 1..Len(queue') : i > Len(queue) => queue'[i] = Sentinel
  BY <1>2, SentinelsBehind
<1>4. Len(queue) \in Nat
  BY LenProperties DEF TypeOK
<1> DEFINE B == (Len(queue) + 1)..(Len(queue) + k)
           T == {i \in 1..Len(queue') : queue'[i] = Sentinel}
<1>5. B \in SUBSET T /\ T \in SUBSET (1..Len(queue'))
  BY <1>3, <1>4
<1>6. Cardinality(B) = k
  BY <1>4, FS_Interval
<1>7. Cardinality(B) <= Cardinality(T)
  <2>1. Len(queue') \in Nat
    BY <1>3, <1>4
  <2> HIDE DEF B, T
  <2>. QED
    BY <1>5, <2>1, SubsetCardinality
<1>. QED
  BY <1>1, <1>2, <1>6, <1>7 DEF Count

\* A step leaves a stopping service with a sentinel for every live worker.
LEMMA ReachesStep == IInv /\ IInv' /\ StopReaches /\ [Next]_vars => StopReaches'
<1> SUFFICES ASSUME IInv, TypeOK', StopReaches, [Next]_vars, phase' = "stopping"
             PROVE  Cardinality(workers') <= Count(queue, Sentinel)'
  BY DEF StopReaches, IInv
<1> USE DEF IInv
<1>1. ASSUME NEW c \in Settings, StartWorker(c) \/ SetConcurrency(c)
      PROVE  FALSE
  BY <1>1 DEF StartWorker, SetConcurrency
<1>2. CASE AddTask
  <2>1. /\ queue' = Append(queue, submitted + 1) /\ submitted + 1 \in TaskId
        /\ phase = "stopping" /\ workers' = workers
    BY <1>2, TaskQueueAssumption DEF AddTask, TypeOK, workers, TaskId
  <2>2. Len(queue) <= Len(queue') /\ \A i \in 1..Len(queue) : queue'[i] = queue[i]
    BY <2>1, LenProperties, TaskBehind DEF TypeOK
  <2>3. /\ Count(queue, Sentinel)' \in Nat /\ Count(queue, Sentinel) \in Nat
        /\ Count(queue, Sentinel) <= Count(queue, Sentinel)'
    BY <2>2, CountKept, CountType
  <2>4. Cardinality(workers) \in Nat /\ Cardinality(workers) <= Count(queue, Sentinel)
    BY <2>1, PoolFinite DEF StopReaches
  <2>. QED
    BY <2>1, <2>3, <2>4
<1>3. ASSUME NEW w \in workers, TakeTask(w)
      PROVE  Cardinality(workers') <= Count(queue, Sentinel)'
  <2>1. /\ queue # <<>> /\ Head(queue) # Sentinel /\ queue' = Tail(queue)
        /\ phase = "stopping" /\ workers' = workers
    BY <1>3 DEF TakeTask, workers, TypeOK
  <2>. QED
    BY <2>1, CountAfterTake DEF StopReaches
<1>4. ASSUME NEW w \in workers, TakeSentinel(w)
      PROVE  Cardinality(workers') <= Count(queue, Sentinel)'
  <2>1. /\ queue # <<>> /\ Head(queue) = Sentinel /\ queue' = Tail(queue)
        /\ phase = "stopping" /\ workers' = workers \ {w}
    BY <1>4 DEF TakeSentinel, workers
  <2>2. Cardinality(workers') = Cardinality(workers) - 1 /\ Cardinality(workers) \in Nat
    BY <2>1, PoolFinite, FS_RemoveElement
  <2>. QED
    BY <2>1, <2>2, CountAfterTake, CountType DEF StopReaches
<1>5. ASSUME NEW w \in workers, NEW s \in {"success", "failed"}, FinishTask(w, s)
      PROVE  Cardinality(workers') <= Count(queue, Sentinel)'
  BY <1>5 DEF FinishTask, workers, TypeOK, StopReaches, Count
<1>6. CASE StopWorker
  BY <1>6, StopWorkerReaches
<1>7. CASE StopReturns \/ ProcessEnds
  BY <1>7 DEF StopReturns, ProcessEnds
<1>8. CASE UNCHANGED vars
  BY <1>8 DEF vars, workers, StopReaches, Count
<1>. QED
  BY <1>1, <1>2, <1>3, <1>4, <1>5, <1>6, <1>7, <1>8 DEF Next, WorkerStep

\* No task is executed twice, dropped or overtaken while the process lives.
THEOREM OnceInOrderKept == Spec => []OnceInOrder
BY RunOnce, StartOrder, PTL DEF OnceInOrder

\* A stop leaves no promised task behind, and a worker it waits for always has a
\* sentinel to end it, however many tasks are queued while it waits.
THEOREM StopIsOrderly == Spec => []OrderlyStop
<1>1. Init => StopReaches
  BY DEF Init, StopReaches
<1>2. Spec => []StopReaches
  BY <1>1, ReachesStep, QueueInvariant, PTL DEF Spec
<1>. QED
  BY <1>2, StopIsDrain, PTL DEF OrderlyStop
-----------------------------------------------------------------------------
\* Every step of the queue is a step of the abstract executor, or hidden from it.
LEMMA StepRefines ==
  ASSUME IInv, IInv', [Next]_vars
  PROVE  [Executor!Next]_Executor!vars
<1> USE DEF IInv, Executor!TaskId, TaskId
<1>1. ASSUME NEW c \in Settings, StartWorker(c)
      PROVE  Executor!Open
  BY <1>1 DEF StartWorker, Executor!Open
<1>2. ASSUME NEW c \in Settings, SetConcurrency(c)
      PROVE  UNCHANGED Executor!vars
  BY <1>2 DEF SetConcurrency, Executor!vars
<1>3. ASSUME AddTask
      PROVE  \E t \in Executor!TaskId : Executor!Submit(t)
  <2>1. PICK u \in TaskId : u = submitted + 1
    BY <1>3, TaskQueueAssumption DEF AddTask, TypeOK
  <2>2. phase = "serving" \/ \E s \in TaskId : status[s] = "running"
    <3>1. ASSUME NEW w \in workers, job[w] # Idle
          PROVE  job[w] \in TaskId /\ status[job[w]] = "running"
      BY <3>1 DEF TypeOK, EachTaskOnce
    <3>. QED
      BY <1>3, <3>1 DEF AddTask
  <2>3. Executor!Submit(u)
    BY <1>3, <2>1, <2>2 DEF AddTask, Executor!Submit
  <2>. QED
    BY <2>3
<1>4. ASSUME NEW w \in workers, TakeTask(w)
      PROVE  \E t \in Executor!TaskId : Executor!Start(t)
  <2>1. queue # <<>> /\ Head(queue) # Sentinel
        /\ status' = [status EXCEPT ![Head(queue)] = "running"]
        /\ UNCHANGED <<phase, submitted, promised>>
    BY <1>4 DEF TakeTask
  <2>2. Head(queue) = queue[1] /\ queue[1] \in TaskId \cup {Sentinel} /\ 1 \in 1..Len(queue)
    BY <1>4, HeadTaken DEF TakeTask
  <2>3. PICK h \in TaskId : h = Head(queue)
    BY <2>1, <2>2
  <2>4. status[h] = "pending" /\ status'[h] = "running"
    BY <2>1, <2>2, <2>3 DEF EachTaskOnce, InQueue, TypeOK
  <2>5. \A s \in TaskId : s < h => status[s] # "pending"
    <3>1. \A s \in TaskId : s < h => status'[s] # "pending" /\ s # h
      BY <2>3, <2>4, TaskQueueAssumption DEF FifoStart
    <3>. QED
      BY <2>1, <2>3, <3>1 DEF TypeOK
  <2>6. Executor!Start(h)
    BY <2>1, <2>3, <2>4, <2>5 DEF Executor!Start
  <2>. QED
    BY <2>6
<1>5. ASSUME NEW w \in workers, TakeSentinel(w)
      PROVE  UNCHANGED Executor!vars
  BY <1>5 DEF TakeSentinel, Executor!vars
<1>6. ASSUME NEW w \in workers, NEW r \in {"success", "failed"}, FinishTask(w, r)
      PROVE  \E t \in Executor!TaskId : Executor!Finish(t)
  <2>1. job[w] \in TaskId /\ status[job[w]] = "running"
    BY <1>6 DEF FinishTask, TypeOK, EachTaskOnce
  <2>2. Executor!Finish(job[w])
    BY <1>6, <2>1 DEF FinishTask, Executor!Finish
  <2>. QED
    BY <2>1, <2>2
<1>7. ASSUME StopWorker
      PROVE  Executor!Close
  BY <1>7 DEF StopWorker, Executor!Close
<1>8. ASSUME StopReturns
      PROVE  Executor!Closed
  <2>1. workers = {} /\ Cardinality(workers) = 0
    BY <1>8, FS_EmptySet DEF StopReturns
  <2>2. \A t \in TaskId : status[t] # "running"
    BY <2>1 DEF EachTaskOnce
  <2>3. ASSUME NEW t \in promised
        PROVE  status[t] # "pending"
    <3>1. SentinelsAhead(t) \in Nat
      BY SentinelsAheadType
    <3>2. status[t] = "pending" => Cardinality(workers) > SentinelsAhead(t)
      BY DEF PromisedServed, Headroom
    <3>. QED
      BY <2>1, <3>1, <3>2
  <2>. QED
    BY <1>8, <2>2, <2>3 DEF StopReturns, Executor!Closed
<1>9. ASSUME ProcessEnds
      PROVE  Executor!End
  BY <1>9 DEF ProcessEnds, Executor!End
<1>10. UNCHANGED vars => UNCHANGED Executor!vars
  BY DEF vars, Executor!vars
<1>. QED
  BY <1>1, <1>2, <1>3, <1>4, <1>5, <1>6, <1>7, <1>8, <1>9, <1>10
  DEF Next, WorkerStep, Executor!Next

\* The queue implements the abstract executor.
THEOREM QueueRefinesExecutor == Spec => ImplementsExecutor
<1>1. Init => Executor!Init
  BY DEF Init, Fresh, Executor!Init, Executor!TaskId, TaskId
<1>2. IInv /\ IInv' /\ [Next]_vars => [Executor!Next]_Executor!vars
  BY StepRefines
<1>. QED
  BY <1>1, <1>2, QueueInvariant, PTL DEF Spec, Executor!Spec, ImplementsExecutor
=============================================================================
