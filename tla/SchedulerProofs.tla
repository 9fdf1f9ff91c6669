-------------------------- MODULE SchedulerProofs --------------------------
(***************************************************************************)
(* Theorems about Scheduler, for every set of rows, schedules and          *)
(* requests, however far time runs and however late the loop is.           *)
(***************************************************************************)
EXTENDS Scheduler, WellFoundedInduction, TLAPS

Times   == 1 .. MaxTime
Items   == [cron : Crons, next : 1 .. Never, since : 0 .. MaxTime]
Reqs    == [at : {"idle"}] \cup [at : {"read"}, id : Ids, row : Row]
              \cup [at : {"committed"}, id : Ids]
Pending(i) == \E a \in Admins : req[a].at = "committed" /\ req[a].id = i

Typed ==
  /\ TypeOK
  /\ items \in [DOMAIN items -> Items]
  /\ req \in [Admins -> Reqs]

\* An item is built for due times to come, and passes them one by one.
Ahead == \A i \in DOMAIN items : items[i].since <= now /\ items[i].since < items[i].next

\* What was queued was due, and lies before the item's next due time: this is why
\* neither a pass nor a reload can come to it again.
Behind ==
  \A i \in Ids, d \in Times :
    enqueued[i][d] # 0 =>
      /\ enqueued[i][d] = 1
      /\ d <= now
      /\ i \in DOMAIN items => d < items[i].next

Timely == Typed /\ Ahead /\ Behind /\ NoGap

\* No snapshot outlives its load.
SnapOnlyInLoad == loop \notin {"startup", "load"} => snap = None

\* Rows that were read are the table's but for those whose request has yet to tell
\* the scheduler, unless a reload has been asked for since.
SnapFresh ==
  snap # None /\ ~reload => \A i \in Ids : snap[i] = rows[i] \/ Pending(i)

\* The same of the items the loop works with.
ItemsFresh ==
  loop \in {"top", "sleep"} /\ ~reload /\ ~stop =>
    \A i \in DOMAIN items :
      \/ rows[i] = [cron |-> items[i].cron, enabled |-> TRUE]
      \/ Pending(i)

Fresh == Typed /\ SnapOnlyInLoad /\ SnapFresh /\ ItemsFresh
-----------------------------------------------------------------------------
LEMMA Least ==
  ASSUME NEW S, S \subseteq Nat, S # {}
  PROVE  \E x \in S : \A y \in S : x <= y
<1>1. PICK x \in S : \A y \in S : ~ (<<y, x>> \in OpToRel(<, Nat))
  BY NatLessThanWellFounded, WFMin
<1>2. \A y \in S : ~ (y < x)
  BY <1>1 DEF OpToRel
<1>. QED
  BY <1>2

\* The next due time after t is a due time after t, and none lies between.
LEMMA NextAfterIsNext ==
  ASSUME NEW c \in Crons, NEW t \in Nat
  PROVE  /\ t <= MaxTime => NextAfter(c, t) \in 1 .. Never
         /\ t <= MaxTime => NextAfter(c, t) > t
         /\ NextAfter(c, t) # Never => NextAfter(c, t) \in c
         /\ \A d \in c : t < d => NextAfter(c, t) <= d
<1> DEFINE later == {d \in c : d > t}
<1>1. MaxTime \in Nat /\ c \subseteq 1 .. MaxTime
  BY SchedulerAssumption
<1>2. CASE later = {}
  BY <1>1, <1>2 DEF NextAfter, Never
<1>3. CASE later # {}
  <2>1. later \subseteq Nat
    <3>1. c \subseteq Nat
      BY <1>1
    <3>. QED
      BY <3>1
  <2>2. \E x \in later : \A y \in later : x <= y
    <3> HIDE DEF later
    <3>. QED
      BY <1>3, <2>1, Least
  <2>3. /\ NextAfter(c, t) \in later
        /\ \A y \in later : NextAfter(c, t) <= y
    BY <1>3, <2>2, Zenon DEF NextAfter
  <2>4. NextAfter(c, t) \in c /\ NextAfter(c, t) > t /\ NextAfter(c, t) \in 1 .. MaxTime
    BY <1>1, <2>3
  <2>5. \A d \in c : t < d => d \in later
    BY <1>1
  <2>. QED
    BY <1>1, <2>3, <2>4, <2>5 DEF Never
<1>. QED
  BY <1>2, <1>3

\* What a pass does to one item.
LEMMA PassOver ==
  ASSUME NEW its, NEW t \in 0 .. MaxTime, Pass(its, t), DOMAIN its \subseteq Ids,
         its \in [DOMAIN its -> Items], Typed
  PROVE  /\ DOMAIN items' = DOMAIN its
         /\ items' \in [DOMAIN its -> Items]
         /\ enqueued' \in [Ids -> [Times -> Nat]]
         /\ \A i \in Ids, d \in Times :
              enqueued'[i][d] = IF i \in DOMAIN its /\ its[i].next <= t /\ d = its[i].next
                                THEN enqueued[i][d] + 1 ELSE enqueued[i][d]
         /\ \A i \in DOMAIN its :
              /\ items'[i].cron = its[i].cron /\ items'[i].since = its[i].since
              /\ items'[i].next = IF its[i].next <= t
                                  THEN NextAfter(its[i].cron, its[i].next) ELSE its[i].next
<1> DEFINE due == {i \in DOMAIN its : its[i].next <= t}
<1>1. MaxTime \in Nat /\ t \in 0 .. MaxTime /\ enqueued \in [Ids -> [Times -> Nat]]
  BY SchedulerAssumption DEF Typed, TypeOK, Times
<1>2. \A i \in due : its[i].next \in Times /\ its[i].next <= MaxTime /\ its[i].next \in Nat
  BY <1>1 DEF Items, Times
<1>3. enqueued' = [i \in Ids |-> IF i \in due
                                 THEN [enqueued[i] EXCEPT ![its[i].next] = @ + 1]
                                 ELSE enqueued[i]]
  BY DEF Pass
<1>4. items' = [i \in DOMAIN its |-> IF i \in due
                                     THEN [its[i] EXCEPT !.next = NextAfter(its[i].cron, @)]
                                     ELSE its[i]]
  BY DEF Pass
<1>5. \A i \in due : NextAfter(its[i].cron, its[i].next) \in 1 .. Never
  BY <1>2, NextAfterIsNext DEF Items
<1> HIDE DEF due
<1>6. \A i \in DOMAIN its :
        /\ its[i] \in Items
        /\ i \in due => [its[i] EXCEPT !.next = NextAfter(its[i].cron, @)] \in Items
  BY <1>5 DEF Items
<1>7. items' \in [DOMAIN its -> Items]
  BY <1>4, <1>6
<1>8. \A i \in DOMAIN its :
        /\ items'[i].cron = its[i].cron /\ items'[i].since = its[i].since
        /\ items'[i].next = IF i \in due THEN NextAfter(its[i].cron, its[i].next) ELSE its[i].next
  BY <1>4, <1>6 DEF Items
<1>9. \A i \in Ids \cap due : [enqueued[i] EXCEPT ![its[i].next] = @ + 1] \in [Times -> Nat]
  <2> TAKE i \in Ids \cap due
  <2>1. enqueued[i] \in [Times -> Nat] /\ its[i].next \in Times
    BY <1>1, <1>2
  <2>2. enqueued[i][its[i].next] + 1 \in Nat
    BY <2>1
  <2>. QED
    BY <2>1, <2>2
<1>10. enqueued' \in [Ids -> [Times -> Nat]]
  BY <1>1, <1>3, <1>9
<1>11. \A i \in Ids, d \in Times :
         enqueued'[i][d] = IF i \in due /\ d = its[i].next
                           THEN enqueued[i][d] + 1 ELSE enqueued[i][d]
  BY <1>1, <1>2, <1>3
<1>12. \A i : i \in due <=> i \in DOMAIN its /\ its[i].next <= t
  BY DEF due
<1>. QED
  BY <1>4, <1>7, <1>8, <1>10, <1>11, <1>12

\* A reload gives each enabled row an item that is not due at the clock it was built by.
LEMMA Built ==
  ASSUME NEW r \in [Ids -> Row \cup {None}], Typed
  PROVE  LET b == Build(r, now)
         IN  /\ DOMAIN b \subseteq Ids
             /\ b \in [DOMAIN b -> Items]
             /\ \A i \in DOMAIN b :
                  /\ r[i] # None /\ r[i].enabled
                  /\ b[i].cron = r[i].cron /\ b[i].since = now
                  /\ b[i].next = NextAfter(r[i].cron, now) /\ b[i].next > now
<1> DEFINE on == {j \in Ids : r[j] # None /\ r[j].enabled}
<1>1. MaxTime \in Nat /\ now \in 0 .. MaxTime /\ now \in Nat /\ now <= MaxTime
  BY SchedulerAssumption DEF Typed, TypeOK
<1>2. \A i \in on : r[i].cron \in Crons
  BY DEF Row
<1>3. \A i \in on : NextAfter(r[i].cron, now) \in 1 .. Never /\ NextAfter(r[i].cron, now) > now
  BY <1>1, <1>2, NextAfterIsNext
<1>4. Build(r, now) = [i \in on |-> [cron |-> r[i].cron, next |-> NextAfter(r[i].cron, now),
                                     since |-> now]]
  BY DEF Build
<1>5. \A i \in on : r[i] # None /\ r[i].enabled /\ i \in Ids
  OBVIOUS
<1> HIDE DEF on
<1>6. \A i \in on : [cron |-> r[i].cron, next |-> NextAfter(r[i].cron, now), since |-> now] \in Items
  BY <1>1, <1>2, <1>3 DEF Items
<1>. QED
  BY <1>3, <1>4, <1>5, <1>6

-----------------------------------------------------------------------------
LEMMA TypedStep ==
  ASSUME Typed, [Next]_vars
  PROVE  Typed'
<1>1. MaxTime \in Nat
  BY SchedulerAssumption
<1>2. ASSUME UNCHANGED <<items, enqueued>>, UNCHANGED <<now, rows, snap, req>>, stop' \in BOOLEAN,
             reload' \in BOOLEAN,
             loop' \in {"off", "startup", "top", "load", "sleep", "ended", "dead"}
      PROVE  Typed'
  BY <1>2 DEF Typed, TypeOK
<1>3. CASE Start \/ LoopEnds \/ BeginLoad \/ Wake \/ Stop \/ UNCHANGED vars
  BY <1>2, <1>3 DEF Start, LoopEnds, BeginLoad, Wake, Stop, vars, Typed, TypeOK
<1>4. CASE ReadRows \/ LoadFails
  BY <1>4 DEF ReadRows, LoadFails, Typed, TypeOK
<1>5. CASE Tick
  BY <1>1, <1>5 DEF Tick, Typed, TypeOK
<1>6. CASE FinishStart
  <2>1. snap \in [Ids -> Row \cup {None}]
    BY <1>6 DEF FinishStart, Typed, TypeOK
  <2>2. DOMAIN items' \subseteq Ids /\ items' \in [DOMAIN items' -> Items]
    BY <1>6, <2>1, Built DEF FinishStart
  <2>. QED
    BY <1>6, <2>2 DEF FinishStart, Typed, TypeOK, Items
<1>7. CASE FinishLoad \/ MakePass
  <2>1. PICK its : /\ Pass(its, now') /\ now' \in 0 .. MaxTime /\ DOMAIN its \subseteq Ids /\ its \in [DOMAIN its -> Items]
    <3>1. CASE MakePass
      BY <3>1 DEF MakePass, Typed, TypeOK
    <3>2. CASE FinishLoad
      <4>1. snap \in [Ids -> Row \cup {None}] /\ now \in 0 .. MaxTime
        BY <3>2 DEF FinishLoad, Typed, TypeOK
      <4>2. Pass(Build(snap, now), now') /\ now' \in 0 .. MaxTime
        BY <1>1, <3>2, <4>1 DEF FinishLoad
      <4>3. /\ DOMAIN Build(snap, now) \subseteq Ids
            /\ Build(snap, now) \in [DOMAIN Build(snap, now) -> Items]
        BY <4>1, Built
      <4>. QED
        BY <4>2, <4>3
    <3>. QED
      BY <1>7, <3>1, <3>2
  <2>2. /\ DOMAIN items' \subseteq Ids /\ items' \in [DOMAIN items' -> Items]
        /\ enqueued' \in [Ids -> [Times -> Nat]]
    BY <2>1, PassOver
  <2>3. /\ UNCHANGED <<rows, stop, req>> /\ reload' \in BOOLEAN
        /\ snap' = None \/ snap' = snap
        /\ loop' = "sleep"
    BY <1>7 DEF FinishLoad, MakePass, Typed, TypeOK
  <2>. QED
    BY <2>1, <2>2, <2>3 DEF Typed, TypeOK, Items, Times
<1>8. ASSUME NEW a \in Admins, Request(a)
      PROVE  Typed'
  <2>1. /\ UNCHANGED <<now, loop, snap, items, stop, enqueued>> /\ reload' \in BOOLEAN
    BY <1>8 DEF Request, Create, UpdateRead, UpdateSave, Delete, Refresh, Typed, TypeOK
  <2>2. Idle \in Reqs /\ \A i \in Ids : [at |-> "committed", id |-> i] \in Reqs
                      /\ \A row \in Row : [at |-> "read", id |-> i, row |-> row] \in Reqs
    BY DEF Reqs, Idle
  <2>3. req[a] \in Reqs
    BY DEF Typed
  <2>4. req[a].at = "read" => req[a].id \in Ids /\ req[a].row \in Row
    BY <2>3 DEF Reqs
  <2>5. req' \in [Admins -> Reqs]
    <3>1. \E r \in Reqs : req' = [req EXCEPT ![a] = r]
      BY <1>8, <2>2, <2>4 DEF Request, Create, UpdateRead, UpdateSave, Delete, Refresh
    <3>. QED
      BY <3>1 DEF Typed
  <2>6. rows' \in [Ids -> Row \cup {None}]
    BY <1>8, <2>4 DEF Request, Create, UpdateRead, UpdateSave, Delete, Refresh, Typed, TypeOK
  <2>. QED
    BY <2>1, <2>5, <2>6 DEF Typed, TypeOK, Reqs
<1>. QED
  BY <1>3, <1>4, <1>5, <1>6, <1>7, <1>8 DEF Next, LoopStep

\* A pass over items that are ahead of what was queued keeps them so, and leaves no gap.
LEMMA PassIsTimely ==
  ASSUME NEW its, Pass(its, now'), DOMAIN its \subseteq Ids, its \in [DOMAIN its -> Items],
         Typed, now' \in now .. MaxTime,
         \A i \in DOMAIN its : its[i].since <= now /\ its[i].since < its[i].next,
         \A i \in Ids, d \in Times : enqueued[i][d] # 0 =>
           enqueued[i][d] = 1 /\ d <= now /\ (i \in DOMAIN its => d < its[i].next),
         \A i \in DOMAIN its : \A d \in its[i].cron :
           its[i].since < d /\ d < its[i].next => enqueued[i][d] = 1
  PROVE  Ahead' /\ Behind' /\ NoGap'
<1>1. MaxTime \in Nat /\ now \in Nat /\ now' \in Nat /\ now' <= MaxTime /\ now <= now' /\ now' \in 0 .. MaxTime
      /\ enqueued \in [Ids -> [Times -> Nat]]
  BY SchedulerAssumption DEF Typed, TypeOK, Times
<1>2. \A i \in DOMAIN its : /\ its[i].cron \in Crons /\ its[i].cron \subseteq Times
                            /\ its[i].next \in Nat /\ its[i].since \in Nat /\ i \in Ids
  BY <1>1, SchedulerAssumption DEF Items, Times, Never
<1>3. \A i \in DOMAIN its : its[i].next <= now' =>
        /\ its[i].next \in Times
        /\ NextAfter(its[i].cron, its[i].next) \in Nat
        /\ NextAfter(its[i].cron, its[i].next) > its[i].next
        /\ \A d \in its[i].cron : its[i].next < d => NextAfter(its[i].cron, its[i].next) <= d
  <2> SUFFICES ASSUME NEW i \in DOMAIN its, its[i].next <= now'
               PROVE  /\ its[i].next \in Times
                      /\ NextAfter(its[i].cron, its[i].next) \in Nat
                      /\ NextAfter(its[i].cron, its[i].next) > its[i].next
                      /\ \A d \in its[i].cron : its[i].next < d => NextAfter(its[i].cron, its[i].next) <= d
    OBVIOUS
  <2>1. its[i].next \in Times /\ its[i].next <= MaxTime
    BY <1>1 DEF Items, Times
  <2>. QED
    BY <1>1, <1>2, <2>1, NextAfterIsNext DEF Never
<1>4. /\ DOMAIN items' = DOMAIN its
      /\ \A i \in Ids, d \in Times :
           enqueued'[i][d] = IF i \in DOMAIN its /\ its[i].next <= now' /\ d = its[i].next
                             THEN enqueued[i][d] + 1 ELSE enqueued[i][d]
      /\ \A i \in DOMAIN its :
           /\ items'[i].cron = its[i].cron /\ items'[i].since = its[i].since
           /\ items'[i].next = IF its[i].next <= now'
                               THEN NextAfter(its[i].cron, its[i].next) ELSE its[i].next
  BY <1>1, PassOver
<1>5. Ahead'
  BY <1>1, <1>2, <1>3, <1>4 DEF Ahead
<1>6. Behind'
  <2> SUFFICES ASSUME NEW i \in Ids, NEW d \in Times, enqueued'[i][d] # 0
               PROVE  enqueued'[i][d] = 1 /\ d <= now' /\ (i \in DOMAIN its => d < items'[i].next)
    BY <1>4 DEF Behind
  <2>1. CASE i \in DOMAIN its /\ its[i].next <= now' /\ d = its[i].next
    BY <1>1, <1>2, <1>3, <1>4, <2>1
  <2>2. CASE ~ (i \in DOMAIN its /\ its[i].next <= now' /\ d = its[i].next)
    <3>1. enqueued'[i][d] = enqueued[i][d]
      BY <1>4, <2>2
    <3>2. enqueued[i][d] = 1 /\ d <= now /\ (i \in DOMAIN its => d < its[i].next)
      BY <3>1
    <3>3. d \in Nat /\ d <= now'
      BY <1>1, <3>2 DEF Times
    <3>. QED
      BY <1>1, <1>2, <1>3, <1>4, <3>1, <3>2, <3>3
  <2>. QED
    BY <2>1, <2>2
<1>7. NoGap'
  <2> SUFFICES ASSUME NEW i \in DOMAIN its, NEW d \in its[i].cron,
                      its[i].since < d, d < items'[i].next
               PROVE  enqueued'[i][d] = 1
    BY <1>4 DEF NoGap
  <2>1. d \in Times /\ d \in Nat /\ i \in Ids /\ enqueued[i][d] \in Nat
    BY <1>1, <1>2 DEF Times
  <2>2. CASE d < its[i].next
    <3>1. enqueued[i][d] = 1
      BY <2>2
    <3>. QED
      BY <1>2, <1>4, <2>1, <2>2, <3>1
  <2>3. CASE ~ (d < its[i].next)
    <3>1. its[i].next <= now' /\ d = its[i].next
      BY <1>2, <1>3, <1>4, <2>1, <2>3
    <3>2. enqueued[i][d] = 0
      BY <2>1, <2>3
    <3>. QED
      BY <1>4, <2>1, <3>1, <3>2
  <2>. QED
    BY <2>2, <2>3
<1>. QED
  BY <1>5, <1>6, <1>7

\* Items just built are ahead of everything that was queued, and have passed nothing.
LEMMA BuiltIsTimely ==
  ASSUME Timely, NEW r \in [Ids -> Row \cup {None}]
  PROVE  LET b == Build(r, now)
         IN  /\ \A i \in DOMAIN b : b[i].since <= now /\ b[i].since < b[i].next
             /\ \A i \in Ids, d \in Times : enqueued[i][d] # 0 =>
                  enqueued[i][d] = 1 /\ d <= now /\ (i \in DOMAIN b => d < b[i].next)
             /\ \A i \in DOMAIN b : \A d \in b[i].cron :
                  b[i].since < d /\ d < b[i].next => enqueued[i][d] = 1
<1> DEFINE b == Build(r, now)
<1>1. now \in Nat /\ now <= MaxTime /\ MaxTime \in Nat
  BY SchedulerAssumption DEF Timely, Typed, TypeOK
<1>2. /\ b \in [DOMAIN b -> Items]
      /\ \A i \in DOMAIN b : /\ r[i] # None /\ r[i].enabled /\ i \in Ids
                             /\ b[i].cron = r[i].cron /\ b[i].since = now
                             /\ b[i].next = NextAfter(r[i].cron, now) /\ b[i].next > now
  BY Built DEF Timely
<1> HIDE DEF b
<1>3. \A i \in DOMAIN b : \A d \in b[i].cron : d \in Nat /\ (now < d => b[i].next <= d)
  <2> TAKE i \in DOMAIN b
  <2>1. b[i].cron \in Crons
    BY <1>2 DEF Items
  <2>2. \A d \in b[i].cron : d \in Nat
    BY <1>1, <2>1, SchedulerAssumption
  <2>. QED
    BY <1>1, <1>2, <2>1, <2>2, NextAfterIsNext
<1>4. \A i \in DOMAIN b : b[i].next \in Nat
  BY <1>1, <1>2 DEF Items, Never
<1>5. /\ \A i \in DOMAIN b : b[i].since <= now /\ b[i].since < b[i].next
      /\ \A i \in Ids, d \in Times : enqueued[i][d] # 0 =>
           enqueued[i][d] = 1 /\ d <= now /\ (i \in DOMAIN b => d < b[i].next)
      /\ \A i \in DOMAIN b : \A d \in b[i].cron :
           b[i].since < d /\ d < b[i].next => enqueued[i][d] = 1
  BY <1>1, <1>2, <1>3, <1>4 DEF Timely, Behind, Times
<1>. QED
  BY <1>5 DEF b

LEMMA TimelyStep ==
  ASSUME Timely, [Next]_vars
  PROVE  Timely'
<1>1. Typed'
  BY TypedStep DEF Timely
<1>2. ASSUME UNCHANGED <<items, enqueued, now>>
      PROVE  Ahead' /\ Behind' /\ NoGap'
  BY <1>2 DEF Timely, Ahead, Behind, NoGap
<1>3. CASE Tick
  <2>1. now \in Nat /\ now' = now + 1 /\ UNCHANGED <<items, enqueued>>
    BY <1>3 DEF Tick, Timely, Typed, TypeOK
  <2>2. \A i \in DOMAIN items : items[i].since \in Nat
    BY DEF Timely, Typed, Items
  <2>3. \A d \in Times : d \in Nat
    BY DEF Times
  <2>. QED
    BY <2>1, <2>2, <2>3, <1>1 DEF Timely, Ahead, Behind, NoGap
<1>4. CASE MakePass
  <2>1. /\ DOMAIN items \subseteq Ids /\ items \in [DOMAIN items -> Items] /\ Pass(items, now')
        /\ Typed /\ now' = now
    BY <1>4 DEF MakePass, Timely, Typed, TypeOK
  <2>2. now \in Nat /\ now <= MaxTime /\ now' \in now .. MaxTime
    BY <2>1, SchedulerAssumption DEF Typed, TypeOK
  <2>3. /\ \A i \in DOMAIN items : items[i].since <= now /\ items[i].since < items[i].next
        /\ \A i \in Ids, d \in Times : enqueued[i][d] # 0 =>
             enqueued[i][d] = 1 /\ d <= now /\ (i \in DOMAIN items => d < items[i].next)
        /\ \A i \in DOMAIN items : \A d \in items[i].cron :
             items[i].since < d /\ d < items[i].next => enqueued[i][d] = 1
    BY DEF Timely, Ahead, Behind, NoGap
  <2>. QED
    BY <1>1, <2>1, <2>2, <2>3, PassIsTimely DEF Timely
<1>5. CASE FinishLoad \/ FinishStart
  <2> DEFINE b == Build(snap, now)
  <2>1. snap \in [Ids -> Row \cup {None}] /\ Typed /\ (FinishLoad => now' \in now .. MaxTime)
    BY <1>5 DEF FinishLoad, FinishStart, Timely, Typed, TypeOK
  <2>2. /\ DOMAIN b \subseteq Ids /\ b \in [DOMAIN b -> Items]
        /\ \A i \in DOMAIN b : b[i].since <= now /\ b[i].since < b[i].next
        /\ \A i \in Ids, d \in Times : enqueued[i][d] # 0 =>
             enqueued[i][d] = 1 /\ d <= now /\ (i \in DOMAIN b => d < b[i].next)
        /\ \A i \in DOMAIN b : \A d \in b[i].cron :
             b[i].since < d /\ d < b[i].next => enqueued[i][d] = 1
    BY <2>1, Built, BuiltIsTimely
  <2> HIDE DEF b
  <2>3. CASE FinishLoad
    <3>1. Pass(b, now') /\ now' \in now .. MaxTime
      BY <2>1, <2>3 DEF FinishLoad, b
    <3>. QED
      BY <1>1, <2>1, <2>2, <3>1, PassIsTimely DEF Timely
  <2>4. CASE FinishStart
    <3>1. items' = b /\ UNCHANGED <<now, enqueued>>
      BY <2>4 DEF FinishStart, b
    <3>. QED
      BY <1>1, <2>2, <3>1 DEF Timely, Ahead, Behind, NoGap
  <2>. QED
    BY <1>5, <2>3, <2>4
<1>6. ASSUME \/ Start \/ ReadRows \/ LoopEnds \/ BeginLoad \/ Wake \/ LoadFails \/ Stop
             \/ \E a \in Admins : Request(a)
             \/ UNCHANGED vars
      PROVE  UNCHANGED <<items, enqueued, now>>
  BY <1>6 DEF Start, ReadRows, LoopEnds, BeginLoad, Wake, LoadFails, Stop, Request, Create,
              UpdateRead, UpdateSave, Delete, Refresh, vars
<1>. QED
  BY <1>1, <1>2, <1>3, <1>4, <1>5, <1>6 DEF Next, LoopStep, Timely
-----------------------------------------------------------------------------
\* A request changes a row only while it is one the scheduler has yet to hear of, and stops
\* being one only by asking a loop that is alive for a reload.
LEMMA RequestsTold ==
  ASSUME Typed, NEW a \in Admins, Request(a)
  PROVE  /\ UNCHANGED <<loop, snap, items, enqueued, stop>>
         /\ \A i \in Ids : rows'[i] # rows[i] => Pending(i)'
         /\ ~reload' => /\ ~reload
                        /\ loop \in {"ended", "dead"} \/ \A i \in Ids : Pending(i) => Pending(i)'
<1>1. req[a] \in Reqs /\ req \in [Admins -> Reqs] /\ rows \in [Ids -> Row \cup {None}]
      /\ reload \in BOOLEAN
  BY DEF Typed, TypeOK
<1>2. CASE Refresh(a)
  BY <1>1, <1>2 DEF Refresh, Pending
<1>3. ASSUME NEW i \in Ids, NEW row \in Row, UpdateRead(a, i, row)
      PROVE  /\ UNCHANGED <<loop, snap, items, enqueued, stop, rows, reload>>
             /\ \A j \in Ids : Pending(j) => Pending(j)'
  <2>1. \A b \in Admins : req[b].at = "committed" => req'[b] = req[b]
    BY <1>1, <1>3 DEF UpdateRead, Idle
  <2>. QED
    BY <1>3, <2>1 DEF UpdateRead, Pending
<1>4. ASSUME NEW i \in Ids, req[a].at # "committed",
             req' = [req EXCEPT ![a] = [at |-> "committed", id |-> i]],
             \A j \in Ids \ {i} : rows'[j] = rows[j],
             UNCHANGED <<loop, snap, items, enqueued, stop, reload>>
      PROVE  /\ \A j \in Ids : rows'[j] # rows[j] => Pending(j)'
             /\ \A j \in Ids : Pending(j) => Pending(j)'
  <2>1. req'[a].at = "committed" /\ req'[a].id = i
    BY <1>1, <1>4
  <2>2. \A b \in Admins : req[b].at = "committed" => req'[b] = req[b]
    BY <1>1, <1>4
  <2>3. Pending(i)'
    BY <2>1 DEF Pending
  <2>4. \A j \in Ids : Pending(j) => Pending(j)'
    BY <2>2 DEF Pending
  <2>. QED
    BY <1>4, <2>3, <2>4
<1>5. CASE \E i \in Ids, row \in Row : Create(a, i, row)
  <2>1. PICK i \in Ids, row \in Row : Create(a, i, row)
    BY <1>5
  <2>2. req[a].at # "committed" /\ \A j \in Ids \ {i} : rows'[j] = rows[j]
    BY <1>1, <2>1 DEF Create, Idle
  <2>. QED
    BY <1>4, <2>1, <2>2 DEF Create
<1>6. CASE \E i \in Ids : Delete(a, i)
  <2>1. PICK i \in Ids : Delete(a, i)
    BY <1>6
  <2>2. req[a].at # "committed" /\ \A j \in Ids \ {i} : rows'[j] = rows[j]
    BY <1>1, <2>1 DEF Delete, Idle
  <2>. QED
    BY <1>4, <2>1, <2>2 DEF Delete
<1>7. CASE UpdateSave(a)
  <2>1. req[a].at # "committed" /\ req[a].id \in Ids
        /\ \A j \in Ids \ {req[a].id} : rows'[j] = rows[j]
    BY <1>1, <1>7 DEF UpdateSave, Reqs
  <2>. QED
    BY <1>4, <1>7, <2>1 DEF UpdateSave
<1>8. CASE \E i \in Ids, row \in Row : UpdateRead(a, i, row)
  BY <1>3, <1>8
<1>. QED
  BY <1>2, <1>5, <1>6, <1>7, <1>8 DEF Request

\* Items built from fresh rows are fresh.
LEMMA BuiltIsFresh ==
  ASSUME Fresh, snap # None, ~reload
  PROVE  \A i \in DOMAIN Build(snap, now) :
           \/ rows[i] = [cron |-> Build(snap, now)[i].cron, enabled |-> TRUE]
           \/ Pending(i)
<1>1. snap \in [Ids -> Row \cup {None}] /\ Typed
  BY DEF Fresh, Typed, TypeOK
<1>2. TAKE i \in DOMAIN Build(snap, now)
<1>3. i \in Ids /\ snap[i] # None /\ snap[i].enabled /\ Build(snap, now)[i].cron = snap[i].cron
  BY <1>1, Built
<1>4. snap[i] = [cron |-> snap[i].cron, enabled |-> TRUE]
  BY <1>1, <1>3 DEF Row
<1>. QED
  BY <1>3, <1>4 DEF Fresh, SnapFresh

LEMMA FreshStep ==
  ASSUME Fresh, [Next]_vars
  PROVE  Fresh'
<1>1. Typed'
  BY TypedStep DEF Fresh
<1>2. CASE UNCHANGED vars
  BY <1>1, <1>2 DEF vars, Fresh, SnapOnlyInLoad, SnapFresh, ItemsFresh, Pending
<1>3. CASE Start \/ LoopEnds \/ Wake \/ Stop \/ Tick \/ LoadFails
  BY <1>1, <1>3 DEF Start, LoopEnds, Wake, Stop, Tick, LoadFails,
                    Fresh, SnapOnlyInLoad, SnapFresh, ItemsFresh, Pending
<1>4. CASE ReadRows \/ BeginLoad
  BY <1>1, <1>4 DEF ReadRows, BeginLoad, Fresh, SnapOnlyInLoad, SnapFresh, ItemsFresh, Pending
<1>5. CASE FinishStart
  <2>1. items' = Build(snap, now) /\ snap # None /\ snap' = None /\ UNCHANGED <<rows, req, reload>>
    BY <1>5 DEF FinishStart
  <2>. QED
    BY <1>1, <2>1, BuiltIsFresh DEF Fresh, SnapOnlyInLoad, SnapFresh, ItemsFresh, Pending
<1>6. CASE MakePass
  <2>1. /\ DOMAIN items' = DOMAIN items
        /\ \A i \in DOMAIN items : items'[i].cron = items[i].cron
    <3>1. Pass(items, now) /\ DOMAIN items \subseteq Ids /\ items \in [DOMAIN items -> Items] /\ Typed
      BY <1>6 DEF MakePass, Fresh, Typed, TypeOK
    <3>2. now \in 0 .. MaxTime
      BY DEF Fresh, Typed, TypeOK
    <3>. QED
      BY <3>1, <3>2, PassOver
  <2>2. loop = "top" /\ UNCHANGED <<rows, req, reload, snap, stop>> /\ loop' = "sleep"
    BY <1>6 DEF MakePass
  <2>. QED
    BY <1>1, <2>1, <2>2 DEF Fresh, SnapOnlyInLoad, SnapFresh, ItemsFresh, Pending
<1>7. CASE FinishLoad
  <2> DEFINE b == Build(snap, now)
  <2>1. Pass(b, now') /\ snap # None /\ snap' = None /\ UNCHANGED <<rows, req, reload>>
    BY <1>7 DEF FinishLoad
  <2>0. now' \in 0 .. MaxTime
    BY <1>1 DEF Typed, TypeOK
  <2>2. DOMAIN items' = DOMAIN b /\ \A i \in DOMAIN b : items'[i].cron = b[i].cron
    <3>1. snap \in [Ids -> Row \cup {None}] /\ Typed
      BY <2>1 DEF Fresh, Typed, TypeOK
    <3>2. DOMAIN b \subseteq Ids /\ b \in [DOMAIN b -> Items]
      BY <3>1, Built
    <3> HIDE DEF b
    <3>. QED
      BY <2>0, <2>1, <3>1, <3>2, PassOver
  <2>3. ~reload => \A i \in DOMAIN b : \/ rows[i] = [cron |-> b[i].cron, enabled |-> TRUE]
                                      \/ Pending(i)
    BY <2>1, BuiltIsFresh
  <2> HIDE DEF b
  <2>. QED
    BY <1>1, <2>1, <2>2, <2>3 DEF Fresh, SnapOnlyInLoad, SnapFresh, ItemsFresh, Pending
<1>8. ASSUME NEW a \in Admins, Request(a)
      PROVE  Fresh'
  <2>1. DOMAIN items \subseteq Ids /\ Typed
    BY DEF Fresh, Typed, TypeOK
  <2>. QED
    BY <1>1, <1>8, <2>1, RequestsTold DEF Fresh, SnapOnlyInLoad, SnapFresh, ItemsFresh
<1>. QED
  BY <1>2, <1>3, <1>4, <1>5, <1>6, <1>7, <1>8 DEF Next, LoopStep

\* Nothing is queued but by a pass, over items that are fresh, or by the one that ends a
\* reload whose rows are known to be old; and what it finds due was not when it was built.
LEMMA QueuedFresh ==
  ASSUME Fresh, [Next]_vars, NEW i \in Ids, Queues(i)
  PROVE  \/ rows[i] = [cron |-> items'[i].cron, enabled |-> TRUE]
         \/ \E a \in Admins : req[a].at = "committed" /\ req[a].id = i
         \/ CaughtInReload(i)
<1>1. enqueued'[i] # enqueued[i]
  BY DEF Queues
<1>2. /\ enqueued \in [Ids -> [Times -> Nat]] /\ Typed
      /\ now \in 0 .. MaxTime /\ now \in Nat /\ MaxTime \in Nat
  BY SchedulerAssumption DEF Fresh, Typed, TypeOK, Times
<1>3. CASE MakePass
  <2>1. i \in DOMAIN items
    BY <1>1, <1>2, <1>3 DEF MakePass, Pass
  <2>2. Pass(items, now) /\ DOMAIN items \subseteq Ids /\ items \in [DOMAIN items -> Items]
    BY <1>2, <1>3 DEF MakePass, Typed, TypeOK
  <2>3. items'[i].cron = items[i].cron
    BY <1>2, <2>1, <2>2, PassOver
  <2>. QED
    BY <1>3, <2>1, <2>3 DEF MakePass, Fresh, ItemsFresh, Pending
<1>4. CASE FinishLoad
  <2> DEFINE b == Build(snap, now)
  <2>1. /\ snap \in [Ids -> Row \cup {None}] /\ snap # None /\ loop = "load" /\ reload \in BOOLEAN
        /\ Pass(b, now') /\ now' \in 0 .. MaxTime
    BY <1>2, <1>4 DEF FinishLoad, Typed, TypeOK
  <2>2. /\ DOMAIN b \subseteq Ids /\ b \in [DOMAIN b -> Items]
        /\ \A j \in DOMAIN b : b[j].next > now
    BY <1>2, <2>1, Built
  <2>3. ~reload => \A j \in DOMAIN b : \/ rows[j] = [cron |-> b[j].cron, enabled |-> TRUE]
                                      \/ Pending(j)
    BY <2>1, BuiltIsFresh
  <2> HIDE DEF b
  <2>4. i \in DOMAIN b
    BY <1>1, <1>2, <2>1 DEF Pass
  <2>5. /\ items'[i].cron = b[i].cron
        /\ \A d \in Times : enqueued'[i][d] # enqueued[i][d] => d = b[i].next /\ b[i].next <= now'
    BY <1>2, <2>1, <2>2, <2>4, PassOver
  <2>6. CASE reload
    BY <2>1, <2>2, <2>4, <2>5, <2>6 DEF CaughtInReload, Times
  <2>7. CASE ~reload
    BY <2>3, <2>4, <2>5, <2>7 DEF Pending
  <2>. QED
    BY <2>6, <2>7
<1>5. CASE ~MakePass /\ ~FinishLoad
  BY <1>1, <1>5 DEF Next, LoopStep, Start, ReadRows, FinishStart, LoopEnds, BeginLoad, Wake,
                    LoadFails, Tick, Stop, Request, Create, UpdateRead, UpdateSave, Delete,
                    Refresh, vars
<1>. QED
  BY <1>3, <1>4, <1>5

LEMMA Initially == Init => Timely /\ Fresh
<1> SUFFICES ASSUME Init PROVE Timely /\ Fresh
  OBVIOUS
<1>1. MaxTime \in Nat
  BY SchedulerAssumption
<1>2. rows \in [Ids -> Row \cup {None}]
  BY DEF Init, Row
<1>3. req \in [Admins -> Reqs] /\ \A a \in Admins : req[a].at = "idle"
  BY DEF Init, Idle, Reqs
<1>4. DOMAIN items = {} /\ items \in [DOMAIN items -> Items]
  BY DEF Init
<1>5. enqueued \in [Ids -> [Times -> Nat]] /\ \A i \in Ids, d \in Times : enqueued[i][d] = 0
  BY DEF Init, Times
<1>6. Typed
  <2>1. now \in 0 .. MaxTime /\ loop = "off" /\ snap = None
    BY <1>1 DEF Init
  <2>4. reload \in BOOLEAN /\ stop \in BOOLEAN
    BY Zenon DEF Init
  <2>2. DOMAIN items \subseteq Ids /\ \A i \in DOMAIN items :
          items[i] \in [cron : Crons, next : 1 .. Never, since : 0 .. MaxTime]
    BY <1>4
  <2>3. \A a \in Admins : req[a].at \in {"idle", "read", "committed"}
    BY <1>3
  <2>. QED
    BY <1>2, <1>3, <1>4, <1>5, <2>1, <2>2, <2>3, <2>4 DEF Typed, TypeOK, Times
<1>. QED
  BY <1>4, <1>5, <1>6 DEF Init, Timely, Fresh, Ahead, Behind, NoGap, SnapOnlyInLoad, SnapFresh,
                          ItemsFresh

LEMMA Invariants == Spec => [](Timely /\ Fresh)
<1>1. Timely /\ Fresh /\ [Next]_vars => (Timely /\ Fresh)'
  BY TimelyStep, FreshStep
<1>. QED
  BY <1>1, Initially, PTL DEF Spec
-----------------------------------------------------------------------------
\* Every due time an item has passed was queued once and no due time of a row is ever queued
\* twice, for every number of rows, requests and reloads and however late the loop is.
THEOREM DueTimesKept == Spec => []DueTimesOnce
<1>1. Timely => DueTimesOnce
  <2>1. Timely => OncePerDueTime
    <3> SUFFICES ASSUME Timely, NEW i \in Ids, NEW d \in Times PROVE enqueued[i][d] <= 1
      BY DEF OncePerDueTime, Times
    <3>1. enqueued[i][d] = 0 \/ enqueued[i][d] = 1
      BY DEF Timely, Behind
    <3>. QED
      BY <3>1
  <2>. QED
    BY <2>1 DEF Timely, Typed, DueTimesOnce
<1>. QED
  BY <1>1, Invariants, PTL

\* A row is not queued on what it was before a change the scheduler was told of, also when
\* that change was made while a reload was reading the table, but for what came due in the very
\* moment in which that reload ended.
THEOREM StaleNeverQueued == Spec => NeverStale
<1>1. Fresh /\ [Next]_vars =>
        [\A i \in Ids : Queues(i) =>
           \/ rows[i] = [cron |-> items'[i].cron, enabled |-> TRUE]
           \/ \E a \in Admins : req[a].at = "committed" /\ req[a].id = i
           \/ CaughtInReload(i)]_vars
  BY QueuedFresh
<1>. QED
  BY <1>1, Invariants, PTL DEF Spec, NeverStale
=============================================================================
