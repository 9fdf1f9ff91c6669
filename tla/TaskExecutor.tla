---------------------------- MODULE TaskExecutor ----------------------------
(***************************************************************************)
(* What the task queue promises to the code that submits tasks, without    *)
(* queue, sentinels or workers: tasks are started in the order they were   *)
(* accepted, each runs at most once, and the service does not report that  *)
(* it has stopped while a task runs or a promised task is still waiting.   *)
(* TaskQueue implements it (TaskQueue!Executor).                           *)
(***************************************************************************)
EXTENDS Naturals

CONSTANT MaxTasks        \* bound: how many tasks are ever submitted

VARIABLES life, status, submitted, promised

vars == <<life, status, submitted, promised>>

TaskId == 1..MaxTasks

Init ==
  /\ life = "down"
  /\ status = [t \in TaskId |-> "absent"]
  /\ submitted = 0
  /\ promised = {}

Open ==
  /\ life = "down"
  /\ life' = "serving"
  /\ UNCHANGED <<status, submitted, promised>>

\* Only a task that runs may submit once the service no longer serves requests.
Submit(t) ==
  /\ t = submitted + 1
  /\ life = "serving" \/ \E s \in TaskId : status[s] = "running"
  /\ submitted' = t
  /\ status' = [status EXCEPT ![t] = "pending"]
  /\ promised' \in {promised, promised \cup {t}}
  /\ UNCHANGED life

Start(t) ==
  /\ status[t] = "pending"
  /\ \A s \in TaskId : s < t => status[s] # "pending"
  /\ status' = [status EXCEPT ![t] = "running"]
  /\ UNCHANGED <<life, submitted, promised>>

Finish(t) ==
  /\ status[t] = "running"
  /\ \E r \in {"success", "failed"} : status' = [status EXCEPT ![t] = r]
  /\ UNCHANGED <<life, submitted, promised>>

Close ==
  /\ life = "serving"
  /\ life' = "stopping"
  /\ UNCHANGED <<status, submitted, promised>>

Closed ==
  /\ life = "stopping"
  /\ \A t \in TaskId : status[t] # "running"
  /\ \A t \in promised : status[t] # "pending"
  /\ life' = "stopped"
  /\ UNCHANGED <<status, submitted, promised>>

\* Nothing outlives the process.
End ==
  /\ life # "down"
  /\ life' = "down"
  /\ status' = [t \in TaskId |-> "absent"]
  /\ promised' = {}
  /\ UNCHANGED submitted

Next ==
  \/ Open \/ Close \/ Closed \/ End
  \/ \E t \in TaskId : Submit(t) \/ Start(t) \/ Finish(t)

Spec == Init /\ [][Next]_vars
=============================================================================
