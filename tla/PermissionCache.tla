--------------------------- MODULE PermissionCache ---------------------------
(***************************************************************************)
(* The path-permission cache of domain/permission/service.py under the     *)
(* writers of domain/user/service.py, domain/role/service.py and the       *)
(* backup import.  Requests read the user, the roles and the rules in      *)
(* three awaited queries and fill two in-memory caches with a time to      *)
(* live; administrators change the tables one statement at a time and      *)
(* clear the caches when they are done.                                    *)
(*                                                                         *)
(* Time is counted in ticks and kept as the age of each entry, so that it  *)
(* need not be bounded.  One action code (read) is modelled: the others    *)
(* have cache keys of their own.  A rule is a record of RulePool: the role *)
(* it belongs to, the paths its pattern matches, its answer, and its rank  *)
(* in the order _sort_path_rules gives.                                    *)
(***************************************************************************)
EXTENDS Integers, FiniteSets, Sequences, SequencesExt

CONSTANTS Users, Roles, Readers, Admins,
          Paths,      \* sequences of names, closed under prefixes; <<>> is "/"
          Listings,   \* the lists of paths filter_paths_by_permission gets
          RulePool,   \* the rules an administrator may create
          Ttl,        \* _cache_ttl, in ticks
          MaxOps,     \* bound on administrator operations
          MaxAge,     \* ages of database reads are counted up to this bound
          None

ASSUME PathsAssumption ==
    /\ \A p \in Paths : Prefixes(p) \subseteq Paths
    /\ \A l \in Listings : l \in Seq(Paths)
ASSUME RulesAssumption ==
    /\ \A x \in RulePool : /\ x.role \in Roles
                           /\ x.covers \subseteq Paths
                           /\ x.allow \in BOOLEAN
    /\ \A x, y \in RulePool : x.rank = y.rank => x = y
ASSUME BoundsAssumption == Ttl \in Nat \ {0} /\ MaxOps \in Nat /\ MaxAge \in Nat

VARIABLES
    user,      \* UserAccount: "new" (not created yet), "member", "admin", "deleted"
    roles,     \* UserRole: the roles of each user
    live,      \* Role: the roles that exist
    rules,     \* PathRule
    context,   \* _context_cache
    cache,     \* _cache
    reader,    \* the requests being served
    admin,     \* the statements each administrator has still to run
    ops,       \* operations started, for MaxOps
    tainted    \* history: the caches of the user may rest on rows since changed

db     == <<user, roles, live, rules>>
caches == <<context, cache>>
vars   == <<user, roles, live, rules, context, cache, reader, admin, ops, tainted>>

Contexts == [exists : BOOLEAN, is_admin : BOOLEAN, path_rules : SUBSET RulePool]
NoContext == [exists |-> FALSE, is_admin |-> FALSE, path_rules |-> {}]

Idle == [pc |-> "idle"]
Done == [todo |-> <<>>, clear |-> {}]

-----------------------------------------------------------------------------
(* What the rules say, with no cache in the way. *)

\* _match_sorted_path_rules: the first rule that matches decides.
Verdict(S, p) ==
    LET hits == {x \in S : p \in x.covers}
    IN  IF hits = {} THEN None
        ELSE (CHOOSE x \in hits : \A y \in hits : y.rank <= x.rank).allow

Deepest(S) == CHOOSE q \in S : \A r \in S : Len(r) <= Len(q)

\* The nearest ancestor with a matching rule decides; with none, refused.
Reference(cv, p) ==
    LET ruled == {q \in Prefixes(p) : Verdict(cv.path_rules, q) # None}
    IN  cv.exists /\ (cv.is_admin \/ (ruled # {} /\ Verdict(cv.path_rules, Deepest(ruled))))

Exists(u) == user[u] \in {"member", "admin"}

\* The context the tables give for a user.
FreshContext(u) ==
    IF ~Exists(u) THEN NoContext
    ELSE IF user[u] = "admin" THEN [exists |-> TRUE, is_admin |-> TRUE, path_rules |-> {}]
    ELSE [exists |-> TRUE, is_admin |-> FALSE,
          path_rules |-> {x \in rules : x.role \in roles[u]}]

-----------------------------------------------------------------------------
(* The caches.  An entry is its value, the ticks since it was stored (age)  *)
(* and, as history, the ticks since the oldest query it rests on (born).    *)

Older(n) == IF n < MaxAge THEN n + 1 ELSE MaxAge
Oldest(m, n) == IF m < n THEN n ELSE m

\* Mutant: an entry never expires.
AgedForever(e) == IF e = None THEN None
                  ELSE [e EXCEPT !.age = IF @ + 1 < Ttl THEN @ + 1 ELSE @, !.born = Older(@)]

\* _is_cache_valid: an entry counts while it is younger than the time to live.
\* The code drops an expired entry when it next looks it up; here the tick does.
Aged(e) == IF e = None \/ e.age + 1 >= Ttl THEN None
           ELSE [e EXCEPT !.age = @ + 1, !.born = Older(@)]

\* The walk of _check_path_permission_with_context up the ancestors of p, in
\* the result cache c: the answer, what it rests on, and the keys to store.
Walk(c, u, p, cv, born) ==
    LET hit(q) == c[<<u, q>>] # None
        stops  == {q \in Prefixes(p) : hit(q) \/ Verdict(cv.path_rules, q) # None}
        stop   == Deepest(stops)
        below  == {q \in Prefixes(p) : Len(q) > Len(stop)}
    IN  IF stops = {} THEN [ok |-> FALSE, born |-> born, keys |-> Prefixes(p)]
        ELSE IF hit(stop)
        THEN [ok |-> c[<<u, stop>>].ok, born |-> Oldest(born, c[<<u, stop>>].born),
              keys |-> below]
        ELSE [ok |-> Verdict(cv.path_rules, stop), born |-> born, keys |-> below \cup {stop}]

Stored(c, u, keys, ok, born) ==
    [k \in DOMAIN c |-> IF k \in {u} \X keys THEN [ok |-> ok, age |-> 0, born |-> born]
                        ELSE c[k]]

\* _check_path_permission_with_context for a user that is not the administrator.
Walked(c, u, p, cv, born) ==
    LET w == Walk(c, u, p, cv, born) IN Stored(c, u, w.keys, w.ok, w.born)

\* check_path_permission stores the answer under the requested path as well.
Checked(c, u, p, cv, born) ==
    IF cv.exists /\ ~cv.is_admin
    THEN LET w == Walk(c, u, p, cv, born) IN Stored(c, u, w.keys \cup {p}, w.ok, w.born)
    ELSE Stored(c, u, {p}, cv.exists, born)

\* filter_paths_by_permission walks each path of the list in turn.
Filtered(c, u, l, cv, born) ==
    IF cv.exists /\ ~cv.is_admin
    THEN FoldLeft(LAMBDA d, p : Walked(d, u, p, cv, born), c, l)
    ELSE c

Served(r, cv, born) ==
    IF r.call = "check" THEN Checked(cache, r.u, Head(r.list), cv, born)
                        ELSE Filtered(cache, r.u, r.list, cv, born)

-----------------------------------------------------------------------------
(* Requests. *)

Calls == [call : {"check"}, list : {<<p>> : p \in Paths}] \cup
         [call : {"filter"}, list : Listings]

Unanswered(u, q) == q.call = "check" => cache[<<u, Head(q.list)>>] = None

\* A request whose answer, or whose user's context, is cached is served at once.
\* (A check that finds its own answer cached changes nothing.)
ServeFromContext(u, q) ==
    LET r == [call |-> q.call, u |-> u, list |-> q.list] IN
    /\ user[u] # "new" /\ context[u] # None
    /\ Unanswered(u, q)
    /\ cache' = Served(r, context[u].val, context[u].born)
    /\ UNCHANGED <<db, context, reader, admin, ops, tainted>>

\* Otherwise it awaits the query of the user's row.
Request(i, u, q) ==
    /\ reader[i] = Idle
    /\ user[u] # "new" /\ context[u] = None
    /\ Unanswered(u, q)
    /\ reader' = [reader EXCEPT ![i] = [pc |-> "user", call |-> q.call, u |-> u, list |-> q.list,
                     ctx |-> NoContext, ids |-> {}, born |-> 0, torn |-> FALSE, late |-> FALSE]]
    /\ UNCHANGED <<db, caches, admin, ops, tainted>>

\* The user's row; no user, or an administrator, needs no further query.
ReadUser(i) ==
    /\ reader[i].pc = "user"
    /\ reader' = [reader EXCEPT
            ![i].pc = IF user[reader[i].u] = "member" THEN "roles" ELSE "answer",
            ![i].ctx = [NoContext EXCEPT !.exists = Exists(reader[i].u),
                                         !.is_admin = user[reader[i].u] = "admin"],
            ![i].born = 0]
    /\ UNCHANGED <<db, caches, admin, ops, tainted>>

\* The user's roles; with none there are no rules to query.
ReadRoles(i) ==
    /\ reader[i].pc = "roles"
    /\ LET ids == roles[reader[i].u] IN
       reader' = [reader EXCEPT ![i].ids = ids,
                                ![i].pc = IF ids = {} THEN "answer" ELSE "rules"]
    /\ UNCHANGED <<db, caches, admin, ops, tainted>>

ReadRules(i) ==
    /\ reader[i].pc = "rules"
    /\ reader' = [reader EXCEPT ![i].ctx.path_rules = {x \in rules : x.role \in reader[i].ids},
                                ![i].pc = "answer"]
    /\ UNCHANGED <<db, caches, admin, ops, tainted>>

\* The rest runs without an await: store the context, walk, store the answers.
Answer(i) ==
    /\ reader[i].pc = "answer"
    /\ LET r == reader[i] IN
       /\ context' = [context EXCEPT ![r.u] = [val |-> r.ctx, age |-> 0, born |-> r.born]]
       /\ cache' = Served(r, r.ctx, r.born)
       /\ tainted' = [tainted EXCEPT ![r.u] = @ \/ r.torn]
    /\ reader' = [reader EXCEPT ![i] = Idle]
    /\ UNCHANGED <<db, admin, ops>>

-----------------------------------------------------------------------------
(* Administrators.  An operation is the statements it awaits, one by one,   *)
(* and the users whose cache it clears when the last one has returned.      *)

Deletes(u)   == [do |-> "drop_roles", u |-> u]
Grants(u, S) == [k \in 1 .. Len(S) |-> [do |-> "add_role", u |-> u, role |-> S[k]]]

RoleLists == {SetToSeq(S) : S \in SUBSET Roles}

SetUserRoles == {[todo |-> <<Deletes(u)>> \o Grants(u, S), clear |-> {u}] :
                    u \in {v \in Users : Exists(v)}, S \in RoleLists}
RemoveUserRole == {[todo |-> <<[do |-> "remove_role", u |-> u, role |-> x]>>, clear |-> {u}] :
                    u \in {v \in Users : Exists(v)}, x \in Roles}
UpdateUser == {[todo |-> <<[do |-> "save_user", u |-> u, as |-> s]>>, clear |-> {u}] :
                    u \in {v \in Users : Exists(v)}, s \in {"member", "admin"}}
DeleteUser == {[todo |-> <<Deletes(u), [do |-> "delete_user", u |-> u]>>, clear |-> {u}] :
                    u \in {v \in Users : Exists(v)}}
\* create_user and register_user clear no cache.
CreateUser == {[todo |-> <<[do |-> "insert_user", u |-> u]>> \o Grants(u, S), clear |-> {}] :
                    u \in {v \in Users : user[v] = "new"}, S \in RoleLists}
AddPathRule == {[todo |-> <<[do |-> "add_rule", rule |-> x]>>, clear |-> Users] :
                    x \in {y \in RulePool \ rules : y.role \in live}}
UpdatePathRule == {[todo |-> <<[do |-> "save_rule", rule |-> x, as |-> y]>>, clear |-> Users] :
                    x \in rules, y \in {z \in RulePool \ rules : \E x \in rules : x.role = z.role}}
DeletePathRule == {[todo |-> <<[do |-> "delete_rule", rule |-> x]>>, clear |-> Users] : x \in rules}
\* delete_role refuses a role some user has, as counted before it deletes.
DeleteRole == {[todo |-> <<[do |-> "delete_role", role |-> x]>>, clear |-> Users] :
                    x \in {y \in live : \A u \in Users : y \notin roles[u]}}

Operations == UNION {SetUserRoles, RemoveUserRole, UpdateUser, DeleteUser, CreateUser,
                     AddPathRule, UpdatePathRule, DeletePathRule, DeleteRole}

StartOp(a) ==
    /\ admin[a] = Done /\ ops < MaxOps
    /\ \E o \in Operations : admin' = [admin EXCEPT ![a] = o]
    /\ ops' = ops + 1
    /\ UNCHANGED <<db, caches, reader, tainted>>

\* A statement changed rows of the users in U: requests that have begun to
\* read them hold torn data, and what is cached may be out of date.
Touched(U) ==
    /\ reader' = [i \in Readers |->
            IF reader[i] # Idle /\ reader[i].pc # "user" /\ reader[i].u \in U
            THEN [reader[i] EXCEPT !.torn = TRUE] ELSE reader[i]]
    /\ tainted' = [u \in Users |-> tainted[u] \/ u \in U]

UserStatement(s) ==
    /\ s.do \in {"insert_user", "save_user", "delete_user"}
    /\ user' = [user EXCEPT ![s.u] =
            IF s.do = "insert_user" /\ @ = "new" THEN "member"
            ELSE IF s.do = "save_user" /\ Exists(s.u) THEN s.as
            ELSE IF s.do = "delete_user" THEN "deleted" ELSE @]
    /\ roles' = IF s.do = "delete_user" THEN [roles EXCEPT ![s.u] = {}] ELSE roles
    /\ Touched({s.u})
    /\ UNCHANGED <<live, rules>>

RoleStatement(s) ==
    /\ \/ s.do = "drop_roles" /\ roles' = [roles EXCEPT ![s.u] = {}]
       \/ s.do = "remove_role" /\ roles' = [roles EXCEPT ![s.u] = @ \ {s.role}]
       \/ s.do = "add_role" /\ roles' = [roles EXCEPT ![s.u] = @ \cup {s.role}]
    /\ Touched({s.u})
    /\ UNCHANGED <<user, live, rules>>

RuleStatement(s) ==
    /\ \/ s.do = "add_rule" /\ rules' = rules \cup {s.rule}
       \/ s.do = "delete_rule" /\ rules' = rules \ {s.rule}
       \/ s.do = "save_rule" /\ rules' = IF s.rule \in rules THEN (rules \ {s.rule}) \cup {s.as}
                                         ELSE rules
    /\ Touched(Users)
    /\ UNCHANGED <<user, roles, live>>

\* Deleting a role deletes its rules and its assignments (on_delete CASCADE).
CascadeRole(s) ==
    /\ s.do = "delete_role"
    /\ live' = live \ {s.role}
    /\ roles' = [u \in Users |-> roles[u] \ {s.role}]
    /\ rules' = {x \in rules : x.role # s.role}
    /\ Touched(Users)
    /\ UNCHANGED user

\* The unique and foreign keys: a second grant of a role, or a row of a role or
\* user that is gone, is refused by the database.
Refused(s) ==
    \/ s.do = "add_role" /\ (~Exists(s.u) \/ s.role \notin live \/ s.role \in roles[s.u])
    \/ s.do = "add_rule" /\ s.rule.role \notin live

Statement(a) ==
    /\ admin[a].todo # <<>>
    /\ LET s == Head(admin[a].todo) IN
       /\ ~Refused(s)
       /\ UserStatement(s) \/ RoleStatement(s) \/ RuleStatement(s) \/ CascadeRole(s)
    /\ admin' = [admin EXCEPT ![a].todo = Tail(@)]
    /\ UNCHANGED <<caches, ops>>

\* The exception ends the operation: the statements before it stay, and the
\* cache is not cleared.
StatementRefused(a) ==
    /\ admin[a].todo # <<>>
    /\ Refused(Head(admin[a].todo))
    /\ admin' = [admin EXCEPT ![a] = Done]
    /\ UNCHANGED <<db, caches, reader, ops, tainted>>

\* Mutant: the contexts are cleared and the answers kept.
ClearContexts(U) ==
    /\ context' = [u \in Users |-> IF u \in U THEN None ELSE context[u]]
    /\ UNCHANGED cache

\* clear_cache.
ClearCache(U) ==
    /\ context' = [u \in Users |-> IF u \in U THEN None ELSE context[u]]
    /\ cache' = [k \in DOMAIN cache |-> IF k[1] \in U THEN None ELSE cache[k]]

FinishOp(a) ==
    /\ admin[a].todo = <<>> /\ admin[a].clear # {}
    /\ ClearCache(admin[a].clear)
    /\ tainted' = [u \in Users |-> tainted[u] /\ u \notin admin[a].clear]
    /\ admin' = [admin EXCEPT ![a] = Done]
    /\ UNCHANGED <<db, reader, ops>>

\* A backup import (domain/backup/service.py) writes the users of the backup in
\* one transaction and clears nothing.  Replacing deletes every user first, and
\* their roles with them; merging keeps the rest.  Roles and rules are not in it.
Import ==
    /\ ops < MaxOps
    /\ \E U \in SUBSET Users, s \in {"member", "admin"} :
         \/ /\ user' = [u \in Users |-> IF u \in U THEN s
                                      ELSE IF Exists(u) THEN "deleted" ELSE user[u]]
            /\ roles' = [u \in Users |-> {}]
         \/ /\ user' = [u \in Users |-> IF u \in U THEN s ELSE user[u]]
            /\ UNCHANGED roles
    /\ Touched(Users)
    /\ ops' = ops + 1
    /\ UNCHANGED <<live, rules, caches, admin>>

\* Time passes.  A request is assumed to be answered within two ticks.
Tick ==
    /\ \A i \in Readers : reader[i] # Idle => ~reader[i].late
    /\ context' = [u \in Users |-> Aged(context[u])]
    /\ cache' = [k \in DOMAIN cache |-> Aged(cache[k])]
    /\ reader' = [i \in Readers |->
            IF reader[i] = Idle THEN Idle
            ELSE [reader[i] EXCEPT !.late = TRUE, !.born = Older(@)]]
    /\ UNCHANGED <<db, admin, ops, tainted>>

-----------------------------------------------------------------------------
Init ==
    /\ user \in [Users -> {"new", "member"}]
    /\ roles \in [Users -> SUBSET Roles]
    /\ \A u \in Users : user[u] = "new" => roles[u] = {}
    /\ live = Roles
    /\ \E S \in SUBSET RulePool : Cardinality(S) <= 1 /\ rules = S
    /\ context = [u \in Users |-> None]
    /\ cache = [k \in Users \X Paths |-> None]
    /\ reader = [i \in Readers |-> Idle]
    /\ admin = [a \in Admins |-> Done]
    /\ ops = 0
    /\ tainted = [u \in Users |-> FALSE]

ReaderStep(i) == ReadUser(i) \/ ReadRoles(i) \/ ReadRules(i) \/ Answer(i)
AdminStep(a) == Statement(a) \/ StatementRefused(a) \/ FinishOp(a)

Next ==
    \/ \E u \in Users, q \in Calls : ServeFromContext(u, q)
    \/ \E i \in Readers, u \in Users, q \in Calls : Request(i, u, q)
    \/ \E i \in Readers : ReaderStep(i)
    \/ \E a \in Admins : StartOp(a) \/ AdminStep(a)
    \/ Import
    \/ Tick

Spec == Init /\ [][Next]_vars

\* Queries return and time passes (the first conjunct is the weak fairness of
\* ReaderStep(i), which is enabled whenever the request is under way); that anyone asks,
\* or changes a rule, is not assumed.
Fairness ==
    /\ \A i \in Readers : <>[](reader[i] # Idle) => []<><<ReaderStep(i)>>_vars
    /\ \A a \in Admins : WF_vars(AdminStep(a))
    /\ WF_vars(Tick)

FairSpec == Spec /\ Fairness

-----------------------------------------------------------------------------
(* Properties. *)

TypeOK ==
    /\ user \in [Users -> {"new", "member", "admin", "deleted"}]
    /\ roles \in [Users -> SUBSET Roles]
    /\ live \subseteq Roles /\ rules \subseteq RulePool
    /\ context \in [Users -> {None} \cup
                     [val : Contexts, age : 0 .. Ttl - 1, born : 0 .. MaxAge]]
    /\ cache \in [Users \X Paths -> {None} \cup
                     [ok : BOOLEAN, age : 0 .. Ttl - 1, born : 0 .. MaxAge]]
    /\ \A i \in Readers : reader[i].pc \in {"idle", "user", "roles", "rules", "answer"}
    /\ \A a \in Admins : admin[a].clear \subseteq Users
    /\ ops \in 0 .. MaxOps
    /\ tainted \in [Users -> BOOLEAN]

\* Every cached context and answer of a user is what the tables say now.
Exact(u) ==
    /\ context[u] # None => context[u].val = FreshContext(u)
    /\ \A p \in Paths : cache[<<u, p>>] # None =>
            cache[<<u, p>>].ok = Reference(FreshContext(u), p)

\* The cache is transparent but for its races: it differs from a fresh
\* evaluation of the tables, with the inheritance from the nearest ruled
\* ancestor, only between a change and the clear_cache that follows it, or when
\* a request that had begun to read before the change stored its answer after.
StaleOnlyByRace == \A u \in Users : tainted[u] \/ Exact(u)

\* An answer rests on rows read at most a bounded time ago, although answers
\* derived from a cached parent are stored with a time of their own: a time to live
\* for the context, one for each ancestor an answer may pass through, one for the
\* entry, and two ticks of queries under way.
AgeBounded ==
    \A u \in Users, p \in Paths :
        cache[<<u, p>>] # None => cache[<<u, p>>].born <= (Len(p) + 2) * (Ttl - 1) + 2

\* No entry is kept past its time to live, and no answer rests on older rows than that.
AgesBounded == TypeOK /\ AgeBounded

\* Stale answers do not survive: once the administrators are done, every cache
\* agrees with the tables for good, even after a race or an import.
StaleEnds == <>[](\A u \in Users : Exact(u))
=============================================================================
