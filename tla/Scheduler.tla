------------------------------ MODULE Scheduler ------------------------------
(***************************************************************************)
(* The automation scheduler of Foxel: one coroutine that turns cron rows   *)
(* of the AutomationTask table into queue tasks                            *)
(* (domain/tasks/scheduler.py), and the requests that create, update and   *)
(* delete those rows and ask it to reload (domain/tasks/service.py).       *)
(*                                                                         *)
(* A query, and a row's save, suspend; the pass over the due items does    *)
(* not, because add_task never suspends.  Time is counted in units of a    *)
(* cron expression's grain; the loop may be late by any number of units.   *)
(***************************************************************************)
EXTENDS Naturals, FiniteSets

CONSTANTS
  Ids,          \* the rows, in the order their ids are given: 1..n
  Crons,        \* the schedules rows may have: each a set of due times
  Admins,       \* requests in flight at the same time
  MaxTime,      \* bound: the last time
  MaxWrites,    \* bound: how many requests write a row
  MaxFailures,  \* bound: how often a query of the loop fails
  None          \* no row, no snapshot

ASSUME SchedulerAssumption ==
  /\ MaxTime \in Nat
  /\ Ids \subseteq Nat \ {0}
  /\ \A c \in Crons : c \subseteq 1..MaxTime

VARIABLES
  now,          \* datetime.now()
  rows,         \* the AutomationTask table: for each id a row or None
  loop,         \* where the scheduler is
  snap,         \* the rows a running _load_tasks has read, or None
  items,        \* _items: for each scheduled id its schedule and next_run
  reload,       \* _reload_event
  stop,         \* _stop_event
  req,          \* what each request is doing
  enqueued,     \* history: how often each due time of an id was queued
  writes, failures

vars == <<now, rows, loop, snap, items, reload, stop, req, enqueued, writes, failures>>

Row   == [cron : Crons, enabled : BOOLEAN]
Idle  == [at |-> "idle"]
Never == MaxTime + 1

\* croniter.get_next: the first due time after t.
NextAfter(c, t) ==
  LET later == {d \in c : d > t}
  IN  IF later = {} THEN Never ELSE CHOOSE d \in later : \A e \in later : d <= e

TypeOK ==
  /\ now \in 0..MaxTime
  /\ rows \in [Ids -> Row \cup {None}]
  /\ loop \in {"off", "startup", "top", "load", "sleep", "ended", "dead"}
  /\ snap = None \/ snap \in [Ids -> Row \cup {None}]
  /\ DOMAIN items \subseteq Ids
  /\ \A i \in DOMAIN items :
       items[i] \in [cron : Crons, next : 1..Never, since : 0..MaxTime]
  /\ reload \in BOOLEAN /\ stop \in BOOLEAN
  /\ \A a \in Admins : req[a].at \in {"idle", "read", "committed"}
  /\ enqueued \in [Ids -> [1..MaxTime -> Nat]]

Init ==
  /\ now = 0
  /\ rows \in [Ids -> {None} \cup [cron : Crons, enabled : {TRUE}]]
  /\ loop = "off"
  /\ snap = None
  /\ items = [i \in {} |-> None]
  /\ reload = FALSE
  /\ stop = FALSE
  /\ req = [a \in Admins |-> Idle]
  /\ enqueued = [i \in Ids |-> [d \in 1..MaxTime |-> 0]]
  /\ writes = 0
  /\ failures = 0

-----------------------------------------------------------------------------
\* The items _load_tasks builds from the rows it read: enabled ones, due after now.
Build(r, t) ==
  [i \in {j \in Ids : r[j] # None /\ r[j].enabled} |->
     [cron |-> r[i].cron, next |-> NextAfter(r[i].cron, t), since |-> t]]

\* Mutant of Pass: the next due time is taken from the clock.
PassFromNow(its, t) ==
  LET due == {i \in DOMAIN its : its[i].next <= t}
  IN  /\ enqueued' = [i \in Ids |-> IF i \in due
                                    THEN [enqueued[i] EXCEPT ![its[i].next] = @ + 1]
                                    ELSE enqueued[i]]
      /\ items' = [i \in DOMAIN its |-> IF i \in due
                                        THEN [its[i] EXCEPT !.next = NextAfter(its[i].cron, t)]
                                        ELSE its[i]]

\* Mutant of Pass: an item is due only at the very moment.
PassExact(its, t) ==
  LET due == {i \in DOMAIN its : its[i].next = t}
  IN  /\ enqueued' = [i \in Ids |-> IF i \in due
                                    THEN [enqueued[i] EXCEPT ![its[i].next] = @ + 1]
                                    ELSE enqueued[i]]
      /\ items' = [i \in DOMAIN its |-> IF i \in due
                                        THEN [its[i] EXCEPT !.next = NextAfter(its[i].cron, @)]
                                        ELSE its[i]]

\* One pass over `its` at time t: each due item is queued and moves to the due time that
\* follows the one it was queued for.
Pass(its, t) ==
  LET due == {i \in DOMAIN its : its[i].next <= t}
  IN  /\ enqueued' = [i \in Ids |-> IF i \in due
                                    THEN [enqueued[i] EXCEPT ![its[i].next] = @ + 1]
                                    ELSE enqueued[i]]
      /\ items' = [i \in DOMAIN its |-> IF i \in due
                                        THEN [its[i] EXCEPT !.next = NextAfter(its[i].cron, @)]
                                        ELSE its[i]]

\* start(), in the lifespan before the first request; its load is awaited.
Start ==
  /\ loop = "off"
  /\ loop' = "startup"
  /\ UNCHANGED <<now, rows, snap, items, reload, stop, req, enqueued, writes, failures>>

\* The query of _load_tasks is answered.
ReadRows ==
  /\ loop \in {"startup", "load"}
  /\ snap = None
  /\ snap' = rows
  /\ UNCHANGED <<now, rows, loop, items, reload, stop, req, enqueued, writes, failures>>

\* ... or it raises: nothing in _run_loop catches it and the worker is done.
LoadFails ==
  /\ loop = "load"
  /\ failures < MaxFailures
  /\ failures' = failures + 1
  /\ loop' = "dead"
  /\ snap' = None
  /\ UNCHANGED <<now, rows, items, reload, stop, req, enqueued, writes>>

FinishStart ==
  /\ loop = "startup"
  /\ snap # None
  /\ items' = Build(snap, now)
  /\ snap' = None
  /\ loop' = "top"
  /\ UNCHANGED <<now, rows, reload, stop, req, enqueued, writes, failures>>

\* The head of the loop: end, start a reload, or make a pass and sleep.
LoopEnds ==
  /\ loop = "top"
  /\ stop
  /\ loop' = "ended"
  /\ UNCHANGED <<now, rows, snap, items, reload, stop, req, enqueued, writes, failures>>

BeginLoad ==
  /\ loop = "top"
  /\ ~stop
  /\ reload
  /\ reload' = FALSE
  /\ loop' = "load"
  /\ UNCHANGED <<now, rows, snap, items, stop, req, enqueued, writes, failures>>

MakePass ==
  /\ loop = "top"
  /\ ~stop
  /\ ~reload
  /\ Pass(items, now)
  /\ loop' = "sleep"
  /\ UNCHANGED <<now, rows, snap, reload, stop, req, writes, failures>>

\* Mutant of FinishLoad: the reload event is cleared when the load is done.
FinishLoadThenClear ==
  /\ loop = "load"
  /\ snap # None
  /\ now' \in now .. MaxTime
  /\ Pass(Build(snap, now), now')
  /\ snap' = None
  /\ loop' = "sleep"
  /\ reload' = FALSE
  /\ UNCHANGED <<rows, stop, req, writes, failures>>

\* The reload is done; the pass over the new items follows without a suspension, but
\* reads the clock again, which may have gone on since the items were built.
FinishLoad ==
  /\ loop = "load"
  /\ snap # None
  /\ now' \in now .. MaxTime
  /\ Pass(Build(snap, now), now')
  /\ snap' = None
  /\ loop' = "sleep"
  /\ UNCHANGED <<rows, reload, stop, req, writes, failures>>

Wake ==
  /\ loop = "sleep"
  /\ loop' = "top"
  /\ UNCHANGED <<now, rows, snap, items, reload, stop, req, enqueued, writes, failures>>

Tick ==
  /\ now < MaxTime
  /\ now' = now + 1
  /\ UNCHANGED <<rows, loop, snap, items, reload, stop, req, enqueued, writes, failures>>

\* stop(), in the lifespan after the last request.
Stop ==
  /\ loop \notin {"off", "startup"}
  /\ \A a \in Admins : req[a] = Idle
  /\ ~stop
  /\ stop' = TRUE
  /\ reload' = TRUE
  /\ UNCHANGED <<now, rows, loop, snap, items, req, enqueued, writes, failures>>

-----------------------------------------------------------------------------
Serving == loop \notin {"off", "startup"} /\ ~stop

\* create_task up to its return from the database.
Create(a, i, row) ==
  /\ Serving
  /\ writes < MaxWrites
  /\ req[a] = Idle
  /\ rows[i] = None
  /\ rows' = [rows EXCEPT ![i] = row]
  /\ req' = [req EXCEPT ![a] = [at |-> "committed", id |-> i]]
  /\ writes' = writes + 1
  /\ UNCHANGED <<now, loop, snap, items, reload, stop, enqueued, failures>>

\* update_task reads the row and changes some of its fields in memory ...
UpdateRead(a, i, row) ==
  /\ Serving
  /\ writes < MaxWrites
  /\ req[a] = Idle
  /\ rows[i] # None
  /\ row.cron = rows[i].cron \/ row.enabled = rows[i].enabled
  /\ req' = [req EXCEPT ![a] = [at |-> "read", id |-> i, row |-> row]]
  /\ writes' = writes + 1
  /\ UNCHANGED <<now, rows, loop, snap, items, reload, stop, enqueued, failures>>

\* ... and saves all of them; a row deleted meanwhile is not brought back.
UpdateSave(a) ==
  /\ req[a].at = "read"
  /\ rows' = IF rows[req[a].id] = None THEN rows
             ELSE [rows EXCEPT ![req[a].id] = req[a].row]
  /\ req' = [req EXCEPT ![a] = [at |-> "committed", id |-> req[a].id]]
  /\ UNCHANGED <<now, loop, snap, items, reload, stop, enqueued, writes, failures>>

Delete(a, i) ==
  /\ Serving
  /\ writes < MaxWrites
  /\ req[a] = Idle
  /\ rows[i] # None
  /\ rows' = [rows EXCEPT ![i] = None]
  /\ req' = [req EXCEPT ![a] = [at |-> "committed", id |-> i]]
  /\ writes' = writes + 1
  /\ UNCHANGED <<now, loop, snap, items, reload, stop, enqueued, failures>>

\* The request goes on: task_scheduler.refresh(), heard only by a live worker.
Refresh(a) ==
  /\ req[a].at = "committed"
  /\ reload' = IF loop \in {"ended", "dead"} THEN reload ELSE TRUE
  /\ req' = [req EXCEPT ![a] = Idle]
  /\ UNCHANGED <<now, rows, loop, snap, items, stop, enqueued, writes, failures>>

Request(a) ==
  \/ \E i \in Ids, row \in Row : Create(a, i, row) \/ UpdateRead(a, i, row)
  \/ \E i \in Ids : Delete(a, i)
  \/ UpdateSave(a)
  \/ Refresh(a)

LoopStep ==
  \/ Start \/ ReadRows \/ FinishStart \/ FinishLoad
  \/ LoopEnds \/ BeginLoad \/ MakePass \/ Wake

Next ==
  \/ LoopStep
  \/ LoadFails
  \/ Tick
  \/ Stop
  \/ \E a \in Admins : Request(a)

Spec == Init /\ [][Next]_vars

\* The event loop runs the scheduler's coroutine whenever it is ready, queries
\* are answered, requests in flight are finished, and time passes.
FairSpec ==
  /\ Spec
  /\ WF_vars(LoopStep)
  /\ WF_vars(Tick)
  /\ \A a \in Admins : WF_vars(UpdateSave(a) \/ Refresh(a))

-----------------------------------------------------------------------------
\* However late the loop is and however often it reloads, a due time of a row is
\* queued at most once.
OncePerDueTime == \A i \in Ids, d \in 1..MaxTime : enqueued[i][d] <= 1

\* Being late never costs a run: since its item was built, every due time of a
\* row before the item's next_run was queued (get_next goes on from the due time
\* served, not from the clock).
NoGap ==
  \A i \in DOMAIN items : \A d \in items[i].cron :
    items[i].since < d /\ d < items[i].next => enqueued[i][d] = 1

Queues(i) == enqueued'[i] # enqueued[i]

\* A change behind the query of a reload, and told since: that reload's own pass may still
\* queue what came due between its two readings of the clock, and another reload follows.
CaughtInReload(i) ==
  /\ loop = "load" /\ reload
  /\ \A d \in 1..MaxTime : enqueued'[i][d] # enqueued[i][d] => now < d /\ d <= now'

\* Once a request that changed, disabled or deleted a row has told the scheduler,
\* the row is not queued on what it was before, but by the pass that ends a reload in
\* flight with the old rows at that moment, within a moment of the clock.
NeverStale ==
  [][\A i \in Ids : Queues(i) =>
       \/ rows[i] = [cron |-> items'[i].cron, enabled |-> TRUE]
       \/ \E a \in Admins : req[a].at = "committed" /\ req[a].id = i
       \/ CaughtInReload(i)]_vars

\* A due time of a scheduled row is served, unless a reload, a stop, a failed
\* query or a change of the row comes between the due time and the pass that would serve it.
Scheduled(i, d) ==
  i \in DOMAIN items /\ d \in items[i].cron /\ items[i].since < d /\ ~stop
DueTimeServed ==
  \A i \in Ids, d \in 1..MaxTime :
    Scheduled(i, d) ~> (enqueued[i][d] = 1 \/ ~Scheduled(i, d) \/ loop = "dead")

\* stop() returns: the worker it awaits ends, or has died of a failed query.
StopReturns == stop ~> loop \in {"ended", "dead"}

\* A request's change is taken up: the scheduler's items agree with the table
\* again after the last change, unless a failed query has ended the worker.
CatchesUp ==
  <>[](\A a \in Admins : req[a] = Idle) =>
    <>[](stop \/ loop = "dead" \/ \A i \in Ids :
           /\ i \in DOMAIN items <=> rows[i] # None /\ rows[i].enabled
           /\ i \in DOMAIN items => items[i].cron = rows[i].cron)

\* However late the loop is and however often it reloads, each due time that an item has
\* passed since it was built was queued once, and none ever twice.
DueTimesOnce == TypeOK /\ OncePerDueTime /\ NoGap

\* Due times are served, changes are taken up, and stop() returns.
KeepsUp == DueTimeServed /\ CatchesUp /\ StopReturns
=============================================================================
