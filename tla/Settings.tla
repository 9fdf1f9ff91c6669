-------------------------------- MODULE Settings --------------------------------
(***************************************************************************)
(* The settings of Foxel (domain/config/service.py): rows of the           *)
(* Configuration table behind a process-wide cache that nothing expires.   *)
(* Settings are independent of each other, so one of them is modelled.     *)
(* A value is the number of the write that made it.  Between a query's     *)
(* answer and the assignment to the cache other requests run.              *)
(***************************************************************************)
EXTENDS Naturals

CONSTANTS Clients,
          MaxSets,     \* bound on the writes
          MaxFailures, \* bound on failing queries
          Env,         \* the value of the environment variable of that name
          None

VARIABLES stored,    \* Configuration: the row's value, or None
          cached,    \* _cache
          call,      \* what each client awaits
          sets,      \* values given so far, for MaxSets
          failures,
          doubtful   \* history: the cache was filled from a row since changed

vars == <<stored, cached, call, sets, failures, doubtful>>

Ready == [at |-> "ready"]
Becomes(c, r) == call' = [call EXCEPT ![c] = r]

\* History: what is put in the cache is in doubt if it is not the row's value.
Put(v) == cached' = v /\ doubtful' = (v # stored)

-----------------------------------------------------------------------------
\* get: a cached value answers at once, otherwise the row is queried.
Get(c) ==
    /\ call[c] = Ready /\ cached = None
    /\ Becomes(c, [at |-> "get"])
    /\ UNCHANGED <<stored, cached, sets, failures, doubtful>>

\* get_all queries every row, cached or not.
GetAll(c) ==
    /\ call[c] = Ready
    /\ Becomes(c, [at |-> "getall"])
    /\ UNCHANGED <<stored, cached, sets, failures, doubtful>>

ReadRow(c) ==
    /\ call[c].at \in {"get", "getall"}
    /\ Becomes(c, [at |-> "got", of |-> call[c].at, row |-> stored])
    /\ UNCHANGED <<stored, cached, sets, failures, doubtful>>

\* A query that raises is no row for get, and the end of get_all.
ReadFails(c) ==
    /\ call[c].at \in {"get", "getall"} /\ failures < MaxFailures
    /\ failures' = failures + 1
    /\ Becomes(c, IF call[c].at = "get" THEN [at |-> "got", of |-> "get", row |-> None] ELSE Ready)
    /\ UNCHANGED <<stored, cached, sets, doubtful>>

\* The row is cached; for get, without one, the environment's value.
Fill(c) ==
    /\ call[c].at = "got"
    /\ LET v == IF call[c].row = None /\ call[c].of = "get" THEN Env ELSE call[c].row IN
       IF v = None THEN UNCHANGED <<cached, doubtful>>
       ELSE cached' = v /\ doubtful' = (call[c].row # stored)
    /\ Becomes(c, Ready)
    /\ UNCHANGED <<stored, sets, failures>>

-----------------------------------------------------------------------------
\* set: get_or_create makes the row with the value if there is none ...
Set(c) ==
    /\ call[c] = Ready /\ sets < MaxSets
    /\ sets' = sets + 1
    /\ stored' = IF stored = None THEN sets' ELSE stored
    /\ Becomes(c, [at |-> "save", v |-> sets'])
    /\ UNCHANGED <<cached, failures, doubtful>>

\* ... save writes it, if the row is still there ...
Save(c) ==
    /\ call[c].at = "save"
    /\ stored' = IF stored = None THEN None ELSE call[c].v
    /\ Becomes(c, [at |-> "cache", v |-> call[c].v])
    /\ UNCHANGED <<cached, sets, failures, doubtful>>

\* ... or raises, and nothing is cached, although the row may be new.
SaveFails(c) ==
    /\ call[c].at = "save" /\ failures < MaxFailures
    /\ failures' = failures + 1
    /\ doubtful' = (doubtful \/ (cached = Env /\ stored # None))
    /\ Becomes(c, Ready)
    /\ UNCHANGED <<stored, cached, sets>>

\* Mutant: the cache is left to be filled by the next get.
CacheSetNot(c) ==
    /\ call[c].at = "cache"
    /\ Becomes(c, Ready)
    /\ UNCHANGED <<stored, cached, sets, failures, doubtful>>

\* The cache follows without another await.
CacheSet(c) ==
    /\ call[c].at = "cache"
    /\ Put(call[c].v)
    /\ Becomes(c, Ready)
    /\ UNCHANGED <<stored, sets, failures>>

\* An import writes the rows behind the cache (backup/service.py).
Import ==
    /\ sets < MaxSets
    /\ sets' = sets + 1
    /\ stored' \in {None, sets'}
    /\ doubtful' = (doubtful \/ cached # None)
    /\ UNCHANGED <<cached, call, failures>>

Init ==
    /\ stored = None /\ cached = None
    /\ call = [c \in Clients |-> Ready]
    /\ sets = 0 /\ failures = 0 /\ doubtful = FALSE

Next ==
    \/ \E c \in Clients :
        \/ Get(c) \/ GetAll(c) \/ ReadRow(c) \/ ReadFails(c) \/ Fill(c)
        \/ Set(c) \/ Save(c) \/ SaveFails(c) \/ CacheSet(c)
    \/ Import

Spec == Init /\ [][Next]_vars

-----------------------------------------------------------------------------
TypeOK ==
    /\ {stored, cached} \subseteq 1 .. MaxSets \cup {Env, None} /\ stored # Env
    /\ \A c \in Clients : call[c].at \in {"ready", "get", "getall", "got", "save", "cache"}
    /\ sets \in 0 .. MaxSets /\ failures \in 0 .. MaxFailures /\ doubtful \in BOOLEAN

Writing == \E c \in Clients : call[c].at \in {"save", "cache"}

\* The cache, once filled, answers what the table says (or, with no row, what the
\* environment says), but while a set is under way, and where the code leaves it
\* wrong for good: a reader, or an earlier set, puts in what it saw of a row changed
\* meanwhile, a failed query passes for a missing row, a set fails after it made the
\* row, or a backup is imported.
CacheIsTable ==
    cached = None \/ doubtful \/ Writing \/ cached = stored \/ (stored = None /\ cached = Env)
=================================================================================
