---------------------------- MODULE AdapterRegistry ----------------------------
(***************************************************************************)
(* The registry of adapter instances (domain/adapters/registry.py) and the *)
(* cache of their usage (domain/adapters/service.py), between the requests *)
(* that look an adapter up (domain/virtual_fs/resolver.py) and the         *)
(* administrators who change the table of adapters.                        *)
(*                                                                         *)
(* The instances are a cache of the table with no time to live.  A request *)
(* that misses clears it, awaits a query of the table and fills it again;  *)
(* an update awaits the save of its row and then puts its own instance in. *)
(*                                                                         *)
(* A row is the number of the write that made it and its kind: "on",       *)
(* "off" (not enabled), or "broken" (enabled, but its factory raises).     *)
(* Mount paths are left out: a request asks for the adapter its path leads *)
(* to.  Types are in lower case from the refresh at start on, so neither   *)
(* refresh nor upsert has one to normalise and save.                       *)
(***************************************************************************)
EXTENDS Integers, FiniteSets

CONSTANTS Ids, Requests, Admins,
          MaxWrites,   \* bound on the writes to the table
          None

ASSUME WritesAssumption == MaxWrites \in Nat
ASSUME NoneAssumption ==
    /\ None \notin 0 .. MaxWrites
    /\ None \notin [ver : 0 .. MaxWrites, kind : {"on", "off", "broken"}]
    /\ None \notin [named : 0 .. MaxWrites, got : 0 .. MaxWrites]

VARIABLES
    row,         \* StorageAdapter: the rows by their ids
    unused,      \* the ids the table has not given yet; it gives each one once
    instances,   \* _instances: the version of the row each was built from
    usage,       \* _usage_cache: the versions of the row it names and of the instance asked
    request,     \* the requests that look an adapter up
    admin,       \* the operations of administrators
    writes,      \* writes to the table, for versions and MaxWrites
    raced,       \* history: the instance was put in from a row since changed
    mixed        \* history: the usage was put in from rows of which one is since changed

vars == <<row, unused, instances, usage, request, admin, writes, raced, mixed>>

Versions == 0 .. MaxWrites
Kinds == {"on", "off", "broken"}
Rows == [ver : Versions, kind : Kinds]
Usages == [named : Versions, got : Versions]
Free == [pc |-> "free"]

Enabled(r) == r # None /\ r.kind # "off"
Builds(r) == r # None /\ r.kind = "on"

\* What the registry holds when it agrees with a row.
Instance(r) == IF Builds(r) THEN r.ver ELSE None

-----------------------------------------------------------------------------
(* The registry. *)

\* The end of refresh: the rows it read are put in, whatever came in between.
Filled(built) == [d \in Ids |-> IF built[d] # None THEN built[d] ELSE instances[d]]

\* Mutant: a row that is not enabled is not removed.
UpsertKeeps(d, r) ==
    /\ instances' = IF Enabled(r) THEN [instances EXCEPT ![d] = Instance(r)] ELSE instances
    /\ raced' = [raced EXCEPT ![d] = r # row[d]]

\* upsert: a row that is not enabled, or whose factory raises, is removed.
Upsert(d, r) ==
    /\ instances' = [instances EXCEPT ![d] = Instance(r)]
    /\ raced' = [raced EXCEPT ![d] = r # row[d]]

Remove(d) ==
    /\ instances' = [instances EXCEPT ![d] = None]
    /\ raced' = [raced EXCEPT ![d] = FALSE]

-----------------------------------------------------------------------------
(* Requests: a path is resolved, or the usage of an adapter is asked for.   *)

\* The row is queried; a path needs an enabled one.
Ask(i, d, kind) ==
    /\ request[i].pc \in {"answered", "missing"}
    /\ IF row[d] = None \/ (kind = "resolve" /\ ~Enabled(row[d]))
       THEN request' = [request EXCEPT ![i] = [pc |-> "missing"]]
       ELSE request' = [request EXCEPT ![i] =
                [pc |-> "look", kind |-> kind, id |-> d, seen |-> row[d]]]
    /\ UNCHANGED <<row, unused, instances, usage, admin, writes, raced, mixed>>

\* What is cached of the usage answers at once; a row that is not enabled needs
\* no instance.
Shortcut(i) ==
    LET q == request[i] IN
    q.kind = "usage" /\ (usage[q.id] # None \/ ~Enabled(q.seen))

\* With an instance in hand a path is resolved; the usage is still to be awaited.
Answered(q, got) ==
    IF q.kind = "usage" /\ got # None
    THEN [pc |-> "usage", id |-> q.id, named |-> q.seen.ver, got |-> got]
    ELSE [pc |-> IF got = None THEN "missing" ELSE "answered"]

\* Mutant: a request that finds the registry being filled does not wait for it.
HitOrGone(i) ==
    /\ request[i].pc = "look"
    /\ Shortcut(i) \/ instances[request[i].id] # None
       \/ \E j \in Requests : request[j].pc = "fill"
    /\ LET q == request[i] IN
       request' = [request EXCEPT ![i] =
            IF Shortcut(i) THEN [pc |-> "answered"] ELSE Answered(q, instances[q.id])]
    /\ UNCHANGED <<row, unused, instances, usage, admin, writes, raced, mixed>>

Hit(i) ==
    /\ request[i].pc = "look"
    /\ Shortcut(i) \/ instances[request[i].id] # None
    /\ LET q == request[i] IN
       request' = [request EXCEPT ![i] =
            IF Shortcut(i) THEN [pc |-> "answered"] ELSE Answered(q, instances[q.id])]
    /\ UNCHANGED <<row, unused, instances, usage, admin, writes, raced, mixed>>

\* A miss: refresh clears the registry and awaits the enabled rows.
Miss(i) ==
    /\ request[i].pc = "look"
    /\ ~Shortcut(i) /\ instances[request[i].id] = None
    /\ instances' = [d \in Ids |-> None]
    /\ raced' = [d \in Ids |-> FALSE]
    /\ request' = [request EXCEPT ![i] =
            [pc |-> "query", kind |-> @.kind, id |-> @.id, seen |-> @.seen]]
    /\ UNCHANGED <<row, unused, usage, admin, writes, mixed>>

QueryRows(i) ==
    /\ request[i].pc = "query"
    /\ request' = [request EXCEPT ![i] =
            [pc |-> "fill", kind |-> @.kind, id |-> @.id, seen |-> @.seen,
             built |-> [d \in Ids |-> Instance(row[d])]]]
    /\ UNCHANGED <<row, unused, instances, usage, admin, writes, raced, mixed>>

\* The registry is filled and looked at once more, without an await in between.
Fill(i) ==
    /\ request[i].pc = "fill"
    /\ LET built == request[i].built IN
       /\ instances' = Filled(built)
       /\ raced' = [d \in Ids |-> IF built[d] # None THEN built[d] # Instance(row[d])
                                  ELSE raced[d]]
    /\ request' = [request EXCEPT ![i] = Answered(@, instances'[@.id])]
    /\ UNCHANGED <<row, unused, usage, admin, writes, mixed>>

\* The usage of a row: its name, type, paths and figures are all of that row.
UsageOf(r) == [named |-> r.ver, got |-> r.ver]

\* The adapter answers and its answer is cached, under the name, type and paths of the row
\* that was read before it was asked; or it fails.
StoreUsage(i) ==
    /\ request[i].pc = "usage"
    /\ LET q == request[i] IN
       \/ LET answer == [named |-> q.named, got |-> q.got] IN
          /\ usage' = [usage EXCEPT ![q.id] = answer]
          /\ mixed' = [mixed EXCEPT ![q.id] = row[q.id] = None \/ answer # UsageOf(row[q.id])]
       \/ UNCHANGED <<usage, mixed>>
    /\ request' = [request EXCEPT ![i] = [pc |-> "answered"]]
    /\ UNCHANGED <<row, unused, instances, admin, writes, raced>>

\* Mutant: an expired entry is found and kept.
ExpireNot(d) == usage[d] # None /\ UNCHANGED vars

\* _usage_cache_ttl has passed.
Expire(d) ==
    /\ usage[d] # None
    /\ usage' = [usage EXCEPT ![d] = None]
    /\ mixed' = [mixed EXCEPT ![d] = FALSE]
    /\ UNCHANGED <<row, unused, instances, request, admin, writes, raced>>

-----------------------------------------------------------------------------
(* Administrators.  Each awaits its statement and goes on in memory after.  *)

Written(kind) == [ver |-> writes + 1, kind |-> kind]

\* Mutant: the id of a new row is given again.
CreateKeepingId(a, d, kind) ==
    /\ admin[a] = Free /\ writes < MaxWrites
    /\ d \in unused
    /\ row' = [row EXCEPT ![d] = Written(kind)]
    /\ writes' = writes + 1
    /\ admin' = [admin EXCEPT ![a] = [pc |-> "created", id |-> d, row |-> Written(kind)]]
    /\ UNCHANGED <<unused, instances, usage, request, raced, mixed>>

CreateAdapter(a, d, kind) ==
    /\ admin[a] = Free /\ writes < MaxWrites
    /\ d \in unused
    /\ row' = [row EXCEPT ![d] = Written(kind)]
    /\ unused' = unused \ {d}
    /\ writes' = writes + 1
    /\ admin' = [admin EXCEPT ![a] = [pc |-> "created", id |-> d, row |-> Written(kind)]]
    /\ UNCHANGED <<instances, usage, request, raced, mixed>>

\* update_adapter reads the row, to change all of it ...
ReadToUpdate(a, d, kind) ==
    /\ admin[a] = Free /\ writes < MaxWrites
    /\ row[d] # None
    /\ writes' = writes + 1
    /\ admin' = [admin EXCEPT ![a] = [pc |-> "read", id |-> d, row |-> Written(kind)]]
    /\ UNCHANGED <<row, unused, instances, usage, request, raced, mixed>>

\* ... and saves it; a row deleted meanwhile is not brought back.
Save(a) ==
    /\ admin[a].pc = "read"
    /\ LET d == admin[a].id IN
       row' = IF row[d] = None THEN row ELSE [row EXCEPT ![d] = admin[a].row]
    /\ admin' = [admin EXCEPT ![a] = [pc |-> "saved", id |-> @.id, row |-> @.row]]
    /\ UNCHANGED <<unused, instances, usage, request, writes, raced, mixed>>

\* create_adapter and update_adapter put their row in.
PutIn(a) ==
    /\ admin[a].pc \in {"created", "saved"}
    /\ LET d == admin[a].id IN
       /\ Upsert(d, admin[a].row)
       /\ IF admin[a].pc = "saved"
          THEN usage' = [usage EXCEPT ![d] = None] /\ mixed' = [mixed EXCEPT ![d] = FALSE]
          ELSE UNCHANGED <<usage, mixed>>
    /\ admin' = [admin EXCEPT ![a] = Free]
    /\ UNCHANGED <<row, unused, request, writes>>

DeleteAdapter(a, d) ==
    /\ admin[a] = Free
    /\ row[d] # None
    /\ row' = [row EXCEPT ![d] = None]
    /\ admin' = [admin EXCEPT ![a] = [pc |-> "deleted", id |-> d]]
    /\ UNCHANGED <<unused, instances, usage, request, writes, raced, mixed>>

TakeOut(a) ==
    /\ admin[a].pc = "deleted"
    /\ LET d == admin[a].id IN
       /\ Remove(d)
       /\ usage' = [usage EXCEPT ![d] = None]
       /\ mixed' = [mixed EXCEPT ![d] = FALSE]
    /\ admin' = [admin EXCEPT ![a] = Free]
    /\ UNCHANGED <<row, unused, request, writes>>

\* A backup import replaces the rows, or merges its own into them, and touches
\* neither cache.
Import ==
    /\ writes < MaxWrites
    /\ \E S \in SUBSET Ids, kind \in {"on", "off"}, merge \in BOOLEAN :
        LET new == [d \in Ids |-> IF d \in S THEN Written(kind)
                                  ELSE IF merge THEN row[d] ELSE None]
            changed == {d \in Ids : new[d] # row[d]}
        IN  /\ row' = new
            /\ unused' = unused \ S
            /\ raced' = [d \in Ids |-> raced[d] \/ (d \in changed /\ instances[d] # None)]
            /\ mixed' = [d \in Ids |-> mixed[d] \/ (d \in changed /\ usage[d] # None)]
    /\ writes' = writes + 1
    /\ UNCHANGED <<instances, usage, request, admin>>

-----------------------------------------------------------------------------
\* The refresh of start-up has run.
Init ==
    /\ row \in [Ids -> {None} \cup [ver : {0}, kind : Kinds]]
    /\ unused = {d \in Ids : row[d] = None}
    /\ instances = [d \in Ids |-> Instance(row[d])]
    /\ usage = [d \in Ids |-> None]
    /\ request = [i \in Requests |-> [pc |-> "answered"]]
    /\ admin = [a \in Admins |-> Free]
    /\ writes = 0
    /\ raced = [d \in Ids |-> FALSE]
    /\ mixed = [d \in Ids |-> FALSE]

RequestStep(i) == Hit(i) \/ Miss(i) \/ QueryRows(i) \/ Fill(i) \/ StoreUsage(i)
AdminStep(a) == Save(a) \/ PutIn(a) \/ TakeOut(a)

Next ==
    \/ \E i \in Requests, d \in Ids, k \in {"resolve", "usage"} : Ask(i, d, k)
    \/ \E i \in Requests : RequestStep(i)
    \/ \E d \in Ids : Expire(d)
    \/ \E a \in Admins, d \in Ids, k \in Kinds :
        CreateAdapter(a, d, k) \/ ReadToUpdate(a, d, k)
    \/ \E a \in Admins, d \in Ids : DeleteAdapter(a, d)
    \/ \E a \in Admins : AdminStep(a)
    \/ Import

Spec == Init /\ [][Next]_vars

\* Queries and adapters return, and time passes.
Fairness ==
    /\ \A i \in Requests : WF_vars(RequestStep(i))
    /\ \A a \in Admins : WF_vars(AdminStep(a))
    /\ \A d \in Ids : WF_vars(Expire(d))

FairSpec == Spec /\ Fairness

-----------------------------------------------------------------------------
(* Properties. *)

Changing(d) == \E a \in Admins : admin[a] # Free /\ admin[a].id = d

TypeOK ==
    /\ row \in [Ids -> Rows \cup {None}]
    /\ unused \subseteq Ids /\ \A d \in unused : row[d] = None
    /\ instances \in [Ids -> Versions \cup {None}]
    /\ usage \in [Ids -> Usages \cup {None}]
    /\ request \in [Requests ->
            [pc : {"answered", "missing"}] \cup
            [pc : {"look", "query"}, kind : {"resolve", "usage"}, id : Ids, seen : Rows] \cup
            [pc : {"fill"}, kind : {"resolve", "usage"}, id : Ids, seen : Rows,
             built : [Ids -> Versions \cup {None}]] \cup
            [pc : {"usage"}, id : Ids, named : Versions, got : Versions]]
    /\ admin \in [Admins -> {Free} \cup [pc : {"deleted"}, id : Ids] \cup
                            [pc : {"created", "read", "saved"}, id : Ids, row : Rows]]
    /\ writes \in Versions
    /\ raced \in [Ids -> BOOLEAN] /\ mixed \in [Ids -> BOOLEAN]

\* The registry serves an instance of anything but the row as it is now, or of no
\* row at all, only while an administrator's operation on it is under way, after an
\* import, or after a refresh or an upsert put in a row that had changed since it
\* was read.
InstanceCurrent ==
    \A d \in Ids : instances[d] # None =>
        raced[d] \/ Changing(d) \/ instances[d] = Instance(row[d])

\* The same of the usage of an adapter, which is cached for an hour, asked of an
\* instance that may itself be replaced before it has answered, and stored under what
\* the row said before that.
UsageCurrent ==
    \A d \in Ids : usage[d] # None =>
        mixed[d] \/ Changing(d) \/ (row[d] # None /\ usage[d] = UsageOf(row[d]))

\* Both caches are those of the rows as they are now, but in the races named.
CachesCurrent == InstanceCurrent /\ UsageCurrent

\* However many refreshes clear the registry at once, a path under an adapter that
\* is enabled and can be built, and stays as it was while the request is under way,
\* is never answered 404.
NoSpurious404 ==
    [][\A i \in Requests :
        request[i].pc \in {"look", "fill"} /\ request[i].kind = "resolve" /\ Builds(request[i].seen)
            /\ row[request[i].id] = request[i].seen
        => request'[i].pc # "missing"]_vars

\* The usage of a row since changed does not stay cached for good, unless it is
\* asked again of an instance of that row.
OldUsageEnds ==
    \A d \in Ids : <>[](usage[d] # None /\ ~raced[d] => row[d] # None /\ usage[d] = UsageOf(row[d]))
===============================================================================
