------------------------ MODULE ServicesProofs ------------------------
(***************************************************************************)
(* Theorems about the services side by side, for every number of clients,  *)
(* accounts, tokens, calls and requests: the settings, the accounts, the   *)
(* plugins, the agent's chat.                                              *)
(***************************************************************************)
EXTENDS MCServices, FiniteSetTheorems, SequenceTheorems, WellFoundedInduction, TLAPS

\* While a service has its turn its steps are its own, and otherwise it rests.
LEMMA Turns ==
  ASSUME [Next]_vars
  PROVE  /\ [ST!Next]_settingsvars /\ [AC!Next]_accountsvars /\ [GW!Next]_gatewayvars
         /\ [LS!Next]_listingvars /\ [TH!Next]_thumbsvars /\ [VR!Next]_roomvars
         /\ [NT!Next]_noticesvars /\ [WR!Next]_writersvars /\ [BK!Next]_backupvars
         /\ [AG!Next]_agentvars /\ [PL!Next]_pluginsvars
BY DEF Next, vars
-----------------------------------------------------------------------------
(* Settings: config/service.py.                                             *)

SettingValues == 1 .. MaxSets

SettingCalls ==
    [at : {"ready", "get", "getall"}]
        \cup [at : {"got"}, of : {"get", "getall"}, row : SettingValues \cup {None}]
        \cup [at : {"save", "cache"}, v : SettingValues]

SettingsTyped ==
    /\ stored \in SettingValues \cup {None}
    /\ cached \in SettingValues \cup {Env, None}
    /\ setting \in [Clients -> SettingCalls]
    /\ sets \in 0 .. MaxSets /\ failures \in 0 .. MaxFailures /\ doubtful \in BOOLEAN

CacheRight == cached = stored \/ (stored = None /\ cached = Env)

\* While nobody is about to fill the cache it is right, or what made it wrong is known:
\* a set under way that has just made the row is one such thing, and its end, good or
\* bad, another.
CacheExplained ==
    \/ cached = None \/ doubtful \/ CacheRight
    \/ \E c \in Clients : setting[c].at = "cache"
    \/ cached = Env /\ \E c \in Clients : setting[c].at = "save"

SettingsInv == SettingsTyped /\ CacheExplained

LEMMA SettingsTypedStep ==
  ASSUME SettingsTyped, [ST!Next]_settingsvars
  PROVE  SettingsTyped'
<1> USE DEF SettingsTyped
<1>1. ASSUME NEW c \in Clients, NEW r \in SettingCalls, ST!Becomes(c, r)
      PROVE  setting' \in [Clients -> SettingCalls]
  BY <1>1 DEF ST!Becomes
<1>2. ST!Ready \in SettingCalls /\ [at |-> "get"] \in SettingCalls /\ [at |-> "getall"] \in SettingCalls
  BY DEF ST!Ready, SettingCalls
<1>3. \A k \in {"get", "getall"}, r \in SettingValues \cup {None} :
         [at |-> "got", of |-> k, row |-> r] \in SettingCalls
  BY DEF SettingCalls
<1>4. \A k \in {"save", "cache"}, n \in SettingValues : [at |-> k, v |-> n] \in SettingCalls
  BY DEF SettingCalls
<1>5. sets < MaxSets => sets + 1 \in SettingValues /\ sets + 1 \in 0 .. MaxSets
  BY SettingsAssumption DEF SettingValues
<1>6. failures < MaxFailures => failures + 1 \in 0 .. MaxFailures
  BY SettingsAssumption
<1>7. ASSUME NEW c \in Clients, ST!Get(c) \/ ST!GetAll(c)
      PROVE  SettingsTyped'
  BY <1>1, <1>2, <1>7 DEF ST!Get, ST!GetAll
<1>8. ASSUME NEW c \in Clients, ST!ReadRow(c)
      PROVE  SettingsTyped'
  <2>1. [at |-> "got", of |-> setting[c].at, row |-> stored] \in SettingCalls
    BY <1>3, <1>8 DEF ST!ReadRow
  <2>. QED
    BY <1>1, <1>8, <2>1 DEF ST!ReadRow
<1>9. ASSUME NEW c \in Clients, ST!ReadFails(c)
      PROVE  SettingsTyped'
  <2>1. (IF setting[c].at = "get" THEN [at |-> "got", of |-> "get", row |-> None] ELSE ST!Ready) \in SettingCalls
    BY <1>2, <1>3
  <2>. QED
    BY <1>1, <1>6, <1>9, <2>1 DEF ST!ReadFails
<1>10. ASSUME NEW c \in Clients, ST!Fill(c)
       PROVE  SettingsTyped'
  <2>1. setting[c].row \in SettingValues \cup {None}
    BY <1>10 DEF ST!Fill, SettingCalls
  <2>. QED
    BY <1>1, <1>2, <1>10, <2>1, Zenon DEF ST!Fill
<1>11. ASSUME NEW c \in Clients, ST!Set(c)
       PROVE  SettingsTyped'
  <2>1. [at |-> "save", v |-> sets'] \in SettingCalls
    BY <1>4, <1>5, <1>11 DEF ST!Set
  <2>. QED
    BY <1>1, <1>5, <1>11, <2>1 DEF ST!Set
<1>12. ASSUME NEW c \in Clients, ST!Save(c)
       PROVE  SettingsTyped'
  <2>1. setting[c].v \in SettingValues
    BY <1>12 DEF ST!Save, SettingCalls
  <2>2. [at |-> "cache", v |-> setting[c].v] \in SettingCalls
    BY <1>4, <2>1
  <2>. QED
    BY <1>1, <1>12, <2>1, <2>2 DEF ST!Save
<1>13. ASSUME NEW c \in Clients, ST!SaveFails(c)
       PROVE  SettingsTyped'
  BY <1>1, <1>2, <1>6, <1>13 DEF ST!SaveFails
<1>14. ASSUME NEW c \in Clients, ST!CacheSet(c)
       PROVE  SettingsTyped'
  <2>1. setting[c].v \in SettingValues
    BY <1>14 DEF ST!CacheSet, SettingCalls
  <2>. QED
    BY <1>1, <1>2, <1>14, <2>1 DEF ST!CacheSet, ST!Put
<1>15. CASE ST!Import
  BY <1>5, <1>15 DEF ST!Import
<1>16. CASE UNCHANGED settingsvars
  BY <1>16 DEF settingsvars
<1>. QED
  BY <1>7, <1>8, <1>9, <1>10, <1>11, <1>12, <1>13, <1>14, <1>15, <1>16 DEF ST!Next

LEMMA CacheExplainedStep ==
  ASSUME SettingsInv, [ST!Next]_settingsvars
  PROVE  CacheExplained'
<1> USE DEF SettingsInv
<1>1. \A c \in Clients : \A r : ST!Becomes(c, r) =>
         setting'[c] = r /\ \A d \in Clients \ {c} : setting'[d] = setting[d]
  BY DEF ST!Becomes, SettingsTyped
<1>2. ASSUME NEW c \in Clients, ST!Get(c) \/ ST!GetAll(c) \/ ST!ReadRow(c) \/ ST!ReadFails(c)
      PROVE  CacheExplained'
  <2>1. /\ setting[c].at \notin {"cache", "save"}
        /\ \A d \in Clients \ {c} : setting'[d] = setting[d]
        /\ UNCHANGED <<stored, cached, doubtful>>
    BY <1>1, <1>2 DEF ST!Get, ST!GetAll, ST!ReadRow, ST!ReadFails, ST!Ready
  <2>. QED
    BY <2>1 DEF CacheExplained, CacheRight
<1>3. ASSUME NEW c \in Clients, ST!Fill(c)
      PROVE  CacheExplained'
  <2>1. /\ setting[c].at = "got" /\ stored' = stored
        /\ \A d \in Clients \ {c} : setting'[d] = setting[d]
    BY <1>1, <1>3 DEF ST!Fill
  <2>2. CASE UNCHANGED <<cached, doubtful>>
    BY <2>1, <2>2 DEF CacheExplained, CacheRight
  <2>3. CASE doubtful' = (setting[c].row # stored)
             /\ cached' = IF setting[c].row = None /\ setting[c].of = "get" THEN Env ELSE setting[c].row
    BY <2>1, <2>3, Zenon DEF CacheExplained, CacheRight
  <2>. QED
    BY <1>3, <2>2, <2>3 DEF ST!Fill
<1>4. ASSUME NEW c \in Clients, ST!Set(c)
      PROVE  CacheExplained'
  <2>1. /\ setting[c] = ST!Ready /\ setting'[c] = [at |-> "save", v |-> sets']
        /\ \A d \in Clients \ {c} : setting'[d] = setting[d]
        /\ stored' = IF stored = None THEN sets' ELSE stored
        /\ UNCHANGED <<cached, doubtful>>
    BY <1>1, <1>4 DEF ST!Set
  <2>2. setting'[c].at = "save" /\ setting[c].at \notin {"save", "cache"}
    BY <2>1 DEF ST!Ready
  <2>. QED
    BY <2>1, <2>2 DEF CacheExplained, CacheRight
<1>5. ASSUME NEW c \in Clients, ST!Save(c)
      PROVE  CacheExplained'
  <2>1. setting'[c].at = "cache"
    BY <1>1, <1>5 DEF ST!Save
  <2>. QED
    BY <2>1 DEF CacheExplained
<1>6. ASSUME NEW c \in Clients, ST!SaveFails(c)
      PROVE  CacheExplained'
  <2>1. /\ setting[c].at = "save"
        /\ \A d \in Clients \ {c} : setting'[d] = setting[d]
        /\ doubtful' = (doubtful \/ (cached = Env /\ stored # None))
        /\ UNCHANGED <<stored, cached>>
    BY <1>1, <1>6 DEF ST!SaveFails
  <2>. QED
    BY <2>1, Zenon DEF CacheExplained, CacheRight
<1>7. ASSUME NEW c \in Clients, ST!CacheSet(c)
      PROVE  CacheExplained'
  BY <1>7, Zenon DEF ST!CacheSet, ST!Put, CacheExplained, CacheRight
<1>8. CASE ST!Import
  BY <1>8, Zenon DEF ST!Import, CacheExplained, CacheRight
<1>9. CASE UNCHANGED settingsvars
  BY <1>9 DEF settingsvars, CacheExplained, CacheRight
<1>. QED
  BY <1>2, <1>3, <1>4, <1>5, <1>6, <1>7, <1>8, <1>9 DEF ST!Next

LEMMA SettingsBegin == ST!Init => SettingsInv
<1>1. ST!Ready \in SettingCalls
  BY DEF ST!Ready, SettingCalls
<1>2. MaxSets \in Nat /\ MaxFailures \in Nat
  BY SettingsAssumption
<1>3. ST!Init => SettingsTyped
  <2> SUFFICES ASSUME ST!Init PROVE SettingsTyped
    OBVIOUS
  <2>1. setting \in [Clients -> SettingCalls] /\ doubtful \in BOOLEAN
    BY <1>1, Zenon DEF ST!Init
  <2>2. sets \in 0 .. MaxSets /\ failures \in 0 .. MaxFailures
    BY <1>2 DEF ST!Init
  <2>3. stored \in SettingValues \cup {None} /\ cached \in SettingValues \cup {Env, None}
    BY DEF ST!Init
  <2>. QED
    BY <2>1, <2>2, <2>3 DEF SettingsTyped
<1>4. ST!Init => CacheExplained
  BY DEF ST!Init, CacheExplained
<1>. QED
  BY <1>3, <1>4 DEF SettingsInv

LEMMA SettingsStay ==
  ASSUME SettingsInv, [ST!Next]_settingsvars
  PROVE  SettingsInv'
BY SettingsTypedStep, CacheExplainedStep DEF SettingsInv

LEMMA SettingsInvariant == ST!Spec => []SettingsInv
<1>1. SettingsInv /\ [ST!Next]_(ST!vars) => SettingsInv'
  BY SettingsStay DEF ST!vars, settingsvars
<1>. QED
  BY SettingsBegin, <1>1, PTL DEF ST!Spec

LEMMA SettingsRight == SettingsInv => ST!TypeOK /\ ST!CacheIsTable
<1>1. SettingsInv => ST!TypeOK
  BY SettingsAssumption DEF SettingsInv, SettingsTyped, ST!TypeOK, SettingCalls, SettingValues
<1>2. SettingsInv => ST!CacheIsTable
  BY DEF SettingsInv, CacheExplained, CacheRight, ST!CacheIsTable, ST!Writing
<1>. QED
  BY <1>1, <1>2

\* A row never holds the environment's value, and what is cached is a value somebody
\* wrote or the environment's (config/service.py).
THEOREM SettingsTypeCorrect == ST!Spec => []ST!TypeOK
BY SettingsInvariant, SettingsRight, PTL

\* A setting that is cached is that of its row, or, without a row, that of the
\* environment, but while a set is under way and after the races that are named.
THEOREM SettingsCacheKept == ST!Spec => []ST!CacheIsTable
BY SettingsInvariant, SettingsRight, PTL

\* What get answers from the cache is what the table says: whatever the number of
\* clients, writes and failures (config/service.py).
THEOREM SettingsAreServed == Spec => []SettingsServed
<1>1. Init => SettingsInv
  BY SettingsBegin DEF Init
<1>2. SettingsInv /\ [Next]_vars => SettingsInv'
  BY Turns, SettingsStay
<1>3. SettingsInv => SettingsServed
  BY SettingsRight DEF SettingsServed
<1>. QED
  BY <1>1, <1>2, <1>3, PTL DEF Spec
-----------------------------------------------------------------------------
(* Accounts: auth/service.py and user/service.py.                           *)

AccountFields == {"name", "pass", "admin", "disabled"}
AccountRow == [name : Names, pass : Nat, admin : BOOLEAN, disabled : BOOLEAN]
AccountValues == Names \cup Nat \cup BOOLEAN

Join    == [at : {"name", "insert"}, name : Names, admin : BOOLEAN,
            by : {"register", "create"}, met : BOOLEAN]
Editing == [at : {"edit"}, u : Uids, row : AccountRow, field : AccountFields, value : AccountValues, stale : BOOLEAN]
OneStep  == [at : {"delete", "ask", "mail"}, u : Uids]
Confirmation == [at : {"look", "reset", "mark"}, t : Tokens, u : Uids, pass : Nat,
                 row : AccountRow \cup {None}]
AccountCalls == [at : {"ready"}] \cup Join \cup Editing \cup OneStep \cup Confirmation

AccountsKeyed ==
    /\ asking \in [Clients -> AccountCalls]
    /\ users \in [Uids -> AccountRow \cup {None}]
    /\ valid \in [Tokens -> Uids \cup {None}] /\ uses \in [Tokens -> Nat]
    /\ requests \in Nat
    /\ unused \subseteq Uids /\ \A u \in unused : users[u] = None
    /\ \A t \in Tokens \ issued : valid[t] = None /\ uses[t] = 0

JoinsIn(c) == asking[c].at \in {"name", "insert"}
Confirms(c) == asking[c].at \in {"look", "reset", "mark"}

\* An edit nobody has written under will save the row it finds, with its field changed.
EditsFresh == \A c \in Clients :
    asking[c].at = "edit" /\ ~asking[c].stale =>
        /\ users[asking[c].u] # None
        /\ \A f \in AccountFields \ {asking[c].field} : asking[c].row[f] = users[asking[c].u][f]
        /\ asking[c].row[asking[c].field] = asking[c].value

\* Two who make accounts at once know of it, and one who makes an account alone, and is to
\* be an administrator for having found no user, still finds none.
JoinersMeet ==
    /\ \A c, d \in Clients : c # d /\ JoinsIn(c) /\ JoinsIn(d) => asking[c].met
    /\ \A c \in Clients : JoinsIn(c) /\ asking[c].by = "register" /\ ~asking[c].met /\ asking[c].admin
            => AC!Existing = {}

\* A token that set a password is dead, or its confirmation is about to say so; and two
\* who hold one token are known.
TokensHeld ==
    /\ \A t \in Tokens : uses[t] > 0 =>
            valid[t] = None \/ \E c \in Clients : asking[c].at = "mark" /\ asking[c].t = t
    /\ \A t \in Tokens : uses[t] > 1 => t \in doubled
    /\ \A c, d \in Clients : c # d /\ Confirms(c) /\ Confirms(d) /\ asking[c].t = asking[d].t
            => asking[c].t \in doubled
    /\ \A c \in Clients : asking[c].at \in {"look", "reset"} /\ uses[asking[c].t] > 0
            => asking[c].t \in doubled
    /\ \A c \in Clients : Confirms(c) => asking[c].t \in issued

OneToken == \A s, t \in Tokens : valid[s] = valid[t] /\ valid[s] # None => s = t

AccountsInv == AccountsKeyed /\ EditsFresh /\ JoinersMeet /\ TokensHeld /\ OneToken
-----------------------------------------------------------------------------
\* What a request holds at each of its steps.
LEMMA AccountKinds ==
  ASSUME AccountsKeyed, NEW c \in Clients
  PROVE  /\ JoinsIn(c) => asking[c] \in Join
         /\ asking[c].at = "edit" => asking[c] \in Editing
         /\ asking[c].at \in {"delete", "ask", "mail"} => asking[c] \in OneStep
         /\ Confirms(c) => asking[c] \in Confirmation
         /\ asking[c].at \in {"ready", "name", "insert", "edit", "delete", "ask", "mail", "look",
                            "reset", "mark"}
<1>1. asking[c] \in AccountCalls
  BY DEF AccountsKeyed
<1>. QED
  BY <1>1 DEF JoinsIn, Confirms, AccountCalls, Join, Editing, OneStep, Confirmation

\* The request of one client changes, and no other's.
LEMMA AccountBecomes ==
  ASSUME AccountsKeyed, NEW c \in Clients, NEW r \in AccountCalls, AC!Becomes(c, r)
  PROVE  asking' \in [Clients -> AccountCalls] /\ asking'[c] = r /\ \A d \in Clients \ {c} : asking'[d] = asking[d]
BY DEF AC!Becomes, AccountsKeyed

\* Writing to a row makes the edits of it stale.
LEMMA StaleMarks ==
  ASSUME AccountsKeyed, NEW u \in Uids
  PROVE  /\ AC!Stale(u) \in [Clients -> AccountCalls]
         /\ \A d \in Clients : IF asking[d].at = "edit" /\ asking[d].u = u
                               THEN AC!Stale(u)[d].at = "edit" /\ AC!Stale(u)[d].stale
                               ELSE AC!Stale(u)[d] = asking[d]
<1>1. ASSUME NEW d \in Clients, asking[d].at = "edit" /\ asking[d].u = u
      PROVE  /\ [asking[d] EXCEPT !.stale = TRUE] \in Editing
             /\ [asking[d] EXCEPT !.stale = TRUE].at = "edit"
             /\ [asking[d] EXCEPT !.stale = TRUE].stale
  <2>1. asking[d] \in Editing
    BY <1>1, AccountKinds
  <2>. QED
    BY <2>1, Zenon DEF Editing
<1>2. \A d \in Clients : AC!Stale(u)[d] = IF asking[d].at = "edit" /\ asking[d].u = u
                                       THEN [asking[d] EXCEPT !.stale = TRUE] ELSE asking[d]
  BY DEF AC!Stale
<1>3. \A d \in Clients : AC!Stale(u)[d] \in AccountCalls
  BY <1>1, <1>2, Zenon DEF AccountsKeyed, AccountCalls
<1>. QED
  BY <1>1, <1>2, <1>3 DEF AC!Stale

LEMMA Meeting ==
  ASSUME AccountsKeyed, NEW c \in Clients
  PROVE  /\ AC!Met(c) \in [Clients -> AccountCalls]
         /\ \A d \in Clients : IF JoinsIn(d)
                               THEN AC!Met(c)[d].at = asking[d].at /\ AC!Met(c)[d].met
                               ELSE AC!Met(c)[d] = asking[d]
<1>1. ASSUME NEW d \in Clients, JoinsIn(d)
      PROVE  /\ [asking[d] EXCEPT !.met = TRUE] \in Join
             /\ [asking[d] EXCEPT !.met = TRUE].at = asking[d].at
             /\ [asking[d] EXCEPT !.met = TRUE].met
  <2>1. asking[d] \in Join
    BY <1>1, AccountKinds
  <2>. QED
    BY <2>1, Zenon DEF Join
<1>2. \A d \in Clients : AC!Met(c)[d] = IF JoinsIn(d) THEN [asking[d] EXCEPT !.met = TRUE] ELSE asking[d]
  BY DEF AC!Met, JoinsIn
<1>3. \A d \in Clients : AC!Met(c)[d] \in AccountCalls
  BY <1>1, <1>2, Zenon DEF AccountsKeyed, AccountCalls
<1>. QED
  BY <1>1, <1>2, <1>3, Zenon DEF AC!Met
-----------------------------------------------------------------------------
\* Requests that make an account.
LEMMA JoinStep ==
  ASSUME AccountsInv, NEW c \in Clients, NEW r \in Join, AC!Starts(c),
         r.at = "name", r.met = AC!Joining, r.by = "register" /\ r.admin => AC!Existing = {},
         asking' = [AC!Met(c) EXCEPT ![c] = r],
         UNCHANGED <<users, unused, valid, issued, uses, doubled>>
  PROVE  AccountsInv'
<1> USE DEF AccountsInv
<1>1. asking[c].at = "ready" /\ requests' \in Nat
  BY DEF AC!Starts, AC!Ready, AccountsKeyed
<1>2. r \in AccountCalls
  BY DEF AccountCalls
<1>3. /\ asking' \in [Clients -> AccountCalls] /\ asking'[c] = r
      /\ \A d \in Clients \ {c} : IF JoinsIn(d) THEN asking'[d].at = asking[d].at /\ asking'[d].met
                                  ELSE asking'[d] = asking[d]
  BY <1>2, Meeting
<1>4. AccountsKeyed'
  BY <1>1, <1>3 DEF AccountsKeyed
<1>5. \A d \in Clients : ~JoinsIn(d) /\ d # c => asking'[d] = asking[d]
  BY <1>3
<1>6. \A d \in Clients : JoinsIn(d) \/ d = c => asking'[d].at \in {"name", "insert"} /\ ~Confirms(d)
  BY <1>1, <1>3 DEF JoinsIn, Confirms
<1>7. EditsFresh'
  BY <1>5, <1>6 DEF EditsFresh
<1>8. JoinersMeet'
  <2>1. AC!Existing' = AC!Existing
    BY DEF AC!Existing
  <2>2. \A d \in Clients : JoinsIn(d)' <=> JoinsIn(d) \/ d = c
    BY <1>1, <1>3, <1>5 DEF JoinsIn
  <2>3. \A d \in Clients \ {c} : JoinsIn(d) => asking'[d].met /\ asking'[c].met
    BY <1>3, Zenon DEF AC!Joining, JoinsIn
  <2>. QED
    BY <1>3, <2>1, <2>2, <2>3 DEF JoinersMeet
<1>9. TokensHeld'
  <2>1. \A d \in Clients : Confirms(d)' => Confirms(d) /\ asking'[d] = asking[d]
    BY <1>5, <1>6 DEF Confirms
  <2>2. \A d \in Clients : Confirms(d) => asking'[d] = asking[d]
    BY <1>1, <1>3 DEF JoinsIn, Confirms
  <2>. QED
    BY <2>1, <2>2 DEF TokensHeld, Confirms
<1>10. OneToken'
  BY DEF OneToken
<1>. QED
  BY <1>4, <1>7, <1>8, <1>9, <1>10

\* A request goes on, or ends, and changes nothing.
LEMMA QuietAccounts ==
  ASSUME AccountsInv, NEW c \in Clients, NEW r \in AccountCalls, AC!Becomes(c, r), requests' \in Nat,
         \/ r.at \in {"ready", "ask", "mail", "delete"}
         \/ r.at = "edit" /\ ~Confirms(c) /\ EditsFresh'
         \/ JoinsIn(c) /\ r.at = "insert" /\ r.by = asking[c].by /\ r.met = asking[c].met
              /\ r.admin = asking[c].admin
         \/ asking[c].at = "look" /\ r.at = "reset" /\ r.t = asking[c].t,
         asking[c].at # "mark",
         UNCHANGED <<users, unused, valid, issued, uses, doubled>>
  PROVE  AccountsInv'
<1> USE DEF AccountsInv
<1>1. asking' \in [Clients -> AccountCalls] /\ asking'[c] = r /\ \A d \in Clients \ {c} : asking'[d] = asking[d]
  BY AccountBecomes
<1>2. AccountsKeyed'
  BY <1>1 DEF AccountsKeyed
<1>3. EditsFresh'
  <2>1. CASE r.at # "edit"
    BY <1>1, <2>1 DEF EditsFresh
  <2>. QED
    BY <2>1 DEF JoinsIn
<1>4. JoinersMeet'
  <2>1. AC!Existing' = AC!Existing
    BY DEF AC!Existing
  <2>2. \A d \in Clients : JoinsIn(d)' =>
           /\ JoinsIn(d) /\ asking'[d].met = asking[d].met /\ asking'[d].by = asking[d].by
           /\ asking'[d].admin = asking[d].admin
    BY <1>1 DEF JoinsIn
  <2>. QED
    BY <2>1, <2>2 DEF JoinersMeet
<1>5. TokensHeld'
  <2>1. \A d \in Clients : Confirms(d)' => Confirms(d) /\ asking'[d].t = asking[d].t
    BY <1>1 DEF Confirms, JoinsIn
  <2>2. \A d \in Clients : asking[d].at = "mark" => asking'[d] = asking[d]
    BY <1>1
  <2>3. \A d \in Clients : asking'[d].at \in {"look", "reset"} => asking[d].at \in {"look", "reset"}
    BY <1>1 DEF JoinsIn
  <2>. QED
    BY <2>1, <2>2, <2>3 DEF TokensHeld, Confirms
<1>6. OneToken'
  BY DEF OneToken
<1>. QED
  BY <1>2, <1>3, <1>4, <1>5, <1>6

\* An edit is asked for.
LEMMA AccountEditStep ==
  ASSUME AccountsInv, NEW c \in Clients, NEW u \in AC!Existing, NEW field \in AccountFields, NEW value \in AccountValues,
         AC!Edit(c, u, field, value), [users[u] EXCEPT ![field] = value] \in AccountRow,
         [users[u] EXCEPT ![field] = value][field] = value,
         \A f \in AccountFields \ {field} : [users[u] EXCEPT ![field] = value][f] = users[u][f]
  PROVE  AccountsInv'
<1> DEFINE wrote == [users[u] EXCEPT ![field] = value]
           r == [at |-> "edit", u |-> u, row |-> wrote, field |-> field, value |-> value,
                 stale |-> FALSE]
<1>0. u \in Uids /\ users[u] # None
  BY DEF AC!Existing
<1> HIDE DEF wrote
<1>1. /\ r \in AccountCalls /\ r.at = "edit" /\ r.u = u /\ r.row = wrote /\ r.field = field
      /\ r.value = value
  <2>1. wrote \in AccountRow
    BY DEF wrote
  <2>2. r \in Editing
    BY <1>0, <2>1 DEF Editing
  <2>. QED
    BY <2>2 DEF AccountCalls
<1>2. /\ AC!Becomes(c, r) /\ requests' \in Nat /\ asking[c].at = "ready"
      /\ UNCHANGED <<users, unused, valid, issued, uses, doubled>>
  BY DEF AC!Edit, AC!Starts, AC!Ready, AccountsInv, AccountsKeyed, wrote
<1>3. wrote[field] = value /\ \A f \in AccountFields \ {field} : wrote[f] = users[u][f]
  BY DEF wrote
<1> HIDE DEF r
<1>4. asking'[c] = r /\ \A d \in Clients \ {c} : asking'[d] = asking[d]
  BY <1>1, <1>2, AccountBecomes DEF AccountsInv
<1>5. EditsFresh'
  <2> SUFFICES ASSUME NEW d \in Clients, asking'[d].at = "edit" /\ ~asking'[d].stale
               PROVE  /\ users[asking'[d].u] # None
                      /\ \A f \in AccountFields \ {asking'[d].field} : asking'[d].row[f] = users[asking'[d].u][f]
                      /\ asking'[d].row[asking'[d].field] = asking'[d].value
    BY <1>2 DEF EditsFresh
  <2>1. CASE d = c
    BY <1>0, <1>1, <1>3, <1>4, <2>1
  <2>2. CASE d # c
    BY <1>4, <2>2 DEF EditsFresh, AccountsInv
  <2>. QED
    BY <2>1, <2>2
<1>. QED
  <2>1. ~Confirms(c) /\ asking[c].at # "mark"
    BY <1>2 DEF Confirms
  <2>. QED
    BY <1>1, <1>2, <1>5, <2>1, QuietAccounts

\* A row is written, and the request goes on or ends: no other request changes, but that
\* edits of the row are stale.
LEMMA AccountRowStep ==
  ASSUME AccountsInv, NEW c \in Clients, NEW u \in Uids, NEW wrote \in AccountRow \cup {None}, NEW r \in AccountCalls,
         users' = [users EXCEPT ![u] = wrote], asking' = [AC!Stale(u) EXCEPT ![c] = r],
         r.at \in {"ready", "mark"}
  PROVE  /\ asking' \in [Clients -> AccountCalls] /\ users' \in [Uids -> AccountRow \cup {None}]
         /\ asking'[c] = r /\ users'[u] = wrote /\ \A v \in Uids \ {u} : users'[v] = users[v]
         /\ \A d \in Clients \ {c} : asking[d].at # "edit" => asking'[d] = asking[d]
         /\ \A d \in Clients \ {c} : asking[d].at = "edit" => asking'[d].at = "edit"
         /\ EditsFresh'
<1> USE DEF AccountsInv
<1>1. /\ asking' \in [Clients -> AccountCalls] /\ asking'[c] = r
      /\ \A d \in Clients \ {c} : IF asking[d].at = "edit" /\ asking[d].u = u
                                  THEN asking'[d].at = "edit" /\ asking'[d].stale
                                  ELSE asking'[d] = asking[d]
  BY StaleMarks
<1>2. /\ users' \in [Uids -> AccountRow \cup {None}] /\ users'[u] = wrote
      /\ \A v \in Uids \ {u} : users'[v] = users[v]
  BY DEF AccountsKeyed
<1>3. EditsFresh'
  <2> SUFFICES ASSUME NEW d \in Clients, asking'[d].at = "edit" /\ ~asking'[d].stale
               PROVE  /\ users'[asking'[d].u] # None
                      /\ \A f \in AccountFields \ {asking'[d].field} : asking'[d].row[f] = users'[asking'[d].u][f]
                      /\ asking'[d].row[asking'[d].field] = asking'[d].value
    BY DEF EditsFresh
  <2>1. d # c /\ asking'[d] = asking[d] /\ asking[d].u # u
    BY <1>1
  <2>2. asking[d].u \in Uids
    BY <2>1, AccountKinds DEF Editing
  <2>3. users'[asking[d].u] = users[asking[d].u]
    BY <1>2, <2>1, <2>2
  <2>. QED
    BY <2>1, <2>3 DEF EditsFresh
<1>. QED
  BY <1>1, <1>2, <1>3

\* What a write keeps of tokens and of registrations, if the request made no confirmation
\* and the rows that were there are there, or nobody registers.
LEMMA AccountRowKeeps ==
  ASSUME AccountsInv, NEW c \in Clients, NEW u \in Uids, NEW wrote \in AccountRow \cup {None},
         AC!Write(c, u, wrote), ~Confirms(c), \/ wrote = None \/ users[u] # None \/ JoinsIn(c),
         unused' \in {unused, unused \ {u}}, users[u] = None => u \notin unused' \/ wrote = None,
         UNCHANGED <<valid, issued, requests, uses, doubled>>
  PROVE  AccountsInv'
<1> USE DEF AccountsInv
<1>1. AC!Ready \in AccountCalls /\ AC!Ready.at = "ready"
  BY DEF AC!Ready, AccountCalls
<1>2. /\ asking' \in [Clients -> AccountCalls] /\ users' \in [Uids -> AccountRow \cup {None}]
      /\ asking'[c] = AC!Ready /\ users'[u] = wrote /\ \A v \in Uids \ {u} : users'[v] = users[v]
      /\ \A d \in Clients \ {c} : asking[d].at # "edit" => asking'[d] = asking[d]
      /\ \A d \in Clients \ {c} : asking[d].at = "edit" => asking'[d].at = "edit"
      /\ EditsFresh'
  BY <1>1, AccountRowStep, Zenon DEF AC!Write
<1>3. AccountsKeyed'
  <2>1. users[u] # None => u \notin unused
    BY DEF AccountsKeyed
  <2>. QED
    BY <1>2, <2>1 DEF AccountsKeyed
<1>4. \A d \in Clients : Confirms(d)' <=> Confirms(d)
  BY <1>1, <1>2 DEF Confirms
<1>5. \A d \in Clients : Confirms(d) => asking'[d] = asking[d]
  BY <1>2 DEF Confirms
<1>6. TokensHeld'
  BY <1>4, <1>5 DEF TokensHeld, Confirms
<1>7. \A d \in Clients : JoinsIn(d)' => JoinsIn(d) /\ asking'[d] = asking[d] /\ d # c
  BY <1>1, <1>2 DEF JoinsIn
<1>8. JoinersMeet'
  <2>1. \A d \in Clients : JoinsIn(d) /\ ~asking[d].met /\ d # c => AC!Existing' \subseteq AC!Existing
    BY <1>2 DEF JoinersMeet, AC!Existing
  <2>. QED
    BY <1>7, <2>1 DEF JoinersMeet
<1>. QED
  BY <1>2, <1>3, <1>6, <1>8 DEF OneToken

LEMMA InsertStep ==
  ASSUME AccountsInv, NEW c \in Clients, AC!Insert(c)
  PROVE  AccountsInv'
<1>1. JoinsIn(c) /\ asking[c] \in Join /\ requests \in Nat /\ ~Confirms(c)
  BY AccountKinds DEF AC!Insert, JoinsIn, Confirms, AccountsInv, AccountsKeyed
<1>2. CASE AC!Becomes(c, AC!Ready) /\ UNCHANGED <<users, unused>>
  <2>1. AC!Ready \in AccountCalls /\ AC!Ready.at = "ready" /\ requests' \in Nat /\ asking[c].at # "mark"
    BY <1>1 DEF AC!Ready, AccountCalls, AC!Insert
  <2>. QED
    BY <1>2, <2>1, QuietAccounts DEF AC!Insert
<1>3. CASE \E u \in unused :
            /\ AC!Write(c, u, [name |-> asking[c].name, pass |-> requests, admin |-> asking[c].admin,
                            disabled |-> FALSE])
            /\ unused' = unused \ {u}
  <2>1. PICK u \in unused :
            /\ AC!Write(c, u, [name |-> asking[c].name, pass |-> requests, admin |-> asking[c].admin,
                            disabled |-> FALSE])
            /\ unused' = unused \ {u}
    BY <1>3
  <2>2. [name |-> asking[c].name, pass |-> requests, admin |-> asking[c].admin, disabled |-> FALSE]
            \in AccountRow
    BY <1>1 DEF Join, AccountRow
  <2>3. u \in Uids
    BY DEF AccountsInv, AccountsKeyed
  <2>. QED
    BY <1>1, <2>1, <2>2, <2>3, AccountRowKeeps DEF AC!Insert
<1>. QED
  BY <1>2, <1>3, Zenon DEF AC!Insert

LEMMA SaveEditStep ==
  ASSUME AccountsInv, NEW c \in Clients, AC!SaveEdit(c)
  PROVE  AccountsInv'
<1>1. ~Confirms(c) /\ asking[c] \in Editing /\ requests \in Nat
  BY AccountKinds DEF AC!SaveEdit, Confirms, AccountsInv, AccountsKeyed
<1>2. CASE AC!Becomes(c, AC!Ready) /\ UNCHANGED users
  <2>1. AC!Ready \in AccountCalls /\ AC!Ready.at = "ready" /\ requests' \in Nat /\ asking[c].at # "mark"
    BY <1>1 DEF AC!Ready, AccountCalls, AC!SaveEdit
  <2>. QED
    BY <1>2, <2>1, QuietAccounts DEF AC!SaveEdit
<1>3. CASE users[asking[c].u] # None /\ AC!Write(c, asking[c].u, asking[c].row)
  <2>1. asking[c].u \in Uids /\ asking[c].row \in AccountRow
    BY <1>1 DEF Editing
  <2>. QED
    BY <1>1, <1>3, <2>1, AccountRowKeeps DEF AC!SaveEdit
<1>. QED
  BY <1>2, <1>3 DEF AC!SaveEdit

LEMMA RemoveStep ==
  ASSUME AccountsInv, NEW c \in Clients, AC!Remove(c)
  PROVE  AccountsInv'
<1>1. ~Confirms(c) /\ asking[c].u \in Uids
  BY AccountKinds DEF AC!Remove, Confirms, AccountsInv, OneStep
<1>. QED
  BY <1>1, AccountRowKeeps DEF AC!Remove

\* A reset sets the password: no row appears or goes, and the token counts one use more.
LEMMA SavePasswordStep ==
  ASSUME AccountsInv, NEW c \in Clients, AC!SavePassword(c)
  PROVE  AccountsInv'
<1> USE DEF AccountsInv
<1> DEFINE t == asking[c].t
           u == asking[c].u
<1>1. /\ asking[c] \in Confirmation /\ asking[c].at = "reset" /\ t \in Tokens /\ u \in Uids
      /\ asking[c].pass \in Nat /\ t \in issued
  BY AccountKinds DEF AC!SavePassword, Confirms, Confirmation, TokensHeld
<1>2. /\ asking' \in [Clients -> AccountCalls] /\ users' \in [Uids -> AccountRow \cup {None}]
      /\ asking'[c].at = "mark" /\ asking'[c].t = t
      /\ \A v \in Uids : users'[v] = None <=> users[v] = None
      /\ \A d \in Clients \ {c} : asking[d].at # "edit" => asking'[d] = asking[d]
      /\ \A d \in Clients \ {c} : asking[d].at = "edit" => asking'[d].at = "edit"
      /\ EditsFresh'
  <2> DEFINE r == [asking[c] EXCEPT !.at = "mark"]
  <2>1. r \in Confirmation /\ r.at = "mark" /\ r.t = t
    BY <1>1 DEF Confirmation
  <2>2. r \in AccountCalls
    BY <2>1 DEF AccountCalls
  <2>3. CASE users[u] = None
    <3>1. UNCHANGED users /\ AC!Becomes(c, r)
      BY <2>3 DEF AC!SavePassword
    <3> HIDE DEF r
    <3>2. /\ asking' \in [Clients -> AccountCalls] /\ asking'[c] = r
          /\ \A d \in Clients \ {c} : asking'[d] = asking[d]
      BY <2>2, <3>1, AccountBecomes
    <3>3. EditsFresh'
      BY <2>1, <3>1, <3>2 DEF EditsFresh
    <3>. QED
      BY <2>1, <3>1, <3>2, <3>3 DEF AccountsKeyed
  <2>4. CASE users[u] # None
    <3> DEFINE wrote == [users[u] EXCEPT !.pass = asking[c].pass]
    <3>1. users[u] \in AccountRow
      BY <1>1, <2>4 DEF AccountsKeyed
    <3>2. wrote \in AccountRow
      BY <1>1, <3>1 DEF AccountRow
    <3>3. users' = [users EXCEPT ![u] = wrote] /\ asking' = [AC!Stale(u) EXCEPT ![c].at = "mark"]
      BY <2>4 DEF AC!SavePassword
    <3>4. AC!Stale(u)[c] = asking[c] /\ AC!Stale(u) \in [Clients -> AccountCalls]
      BY <1>1, StaleMarks
    <3>5. asking' = [AC!Stale(u) EXCEPT ![c] = r]
      BY <3>3, <3>4
    <3> HIDE DEF wrote, r, u, t
    <3>6. wrote # None /\ users[u] # None
      BY <2>4, <3>2, AccountsAssumption DEF AccountRow
    <3>7. /\ asking' \in [Clients -> AccountCalls] /\ users' \in [Uids -> AccountRow \cup {None}]
          /\ asking'[c] = r /\ users'[u] = wrote /\ \A v \in Uids \ {u} : users'[v] = users[v]
          /\ \A d \in Clients \ {c} : asking[d].at # "edit" => asking'[d] = asking[d]
          /\ \A d \in Clients \ {c} : asking[d].at = "edit" => asking'[d].at = "edit"
          /\ EditsFresh'
      BY <1>1, <2>1, <2>2, <3>2, <3>3, <3>5, AccountRowStep, Zenon
    <3>. QED
      BY <2>1, <3>6, <3>7
  <2>. QED
    BY <2>3, <2>4
<1>3. /\ UNCHANGED <<unused, valid, issued, requests, doubled>> /\ uses' \in [Tokens -> Nat]
      /\ uses'[t] = uses[t] + 1 /\ \A s \in Tokens \ {t} : uses'[s] = uses[s]
  BY <1>1 DEF AC!SavePassword, AccountsKeyed
<1> HIDE DEF t, u
<1>4. AccountsKeyed'
  <2>1. \A s \in Tokens \ issued : uses'[s] = uses[s]
    BY <1>1, <1>3
  <2>. QED
    BY <1>2, <1>3, <2>1 DEF AccountsKeyed
<1>5. JoinersMeet'
  <2>1. \A d \in Clients : JoinsIn(d)' => JoinsIn(d) /\ asking'[d] = asking[d]
    BY <1>2 DEF JoinsIn
  <2>2. AC!Existing' = AC!Existing
    BY <1>2 DEF AC!Existing
  <2>. QED
    BY <2>1, <2>2 DEF JoinersMeet
<1>6. TokensHeld'
  <2>1. \A d \in Clients : Confirms(d)' => Confirms(d) /\ (d = c \/ asking'[d] = asking[d])
    BY <1>1, <1>2 DEF Confirms
  <2>2. Confirms(c) /\ asking[c].t = t
    BY <1>1 DEF Confirms, t
  <2>3. \A s \in Tokens : uses'[s] > 0 =>
            valid'[s] = None \/ \E d \in Clients : asking'[d].at = "mark" /\ asking'[d].t = s
    <3>1. \A d \in Clients : asking[d].at = "mark" => asking'[d] = asking[d]
      BY <1>1, <1>2
    <3>. QED
      BY <1>2, <1>3, <3>1 DEF TokensHeld
  <2>4. \A s \in Tokens : uses'[s] > 1 => s \in doubled
    BY <1>1, <1>3, <2>2 DEF TokensHeld, AccountsKeyed
  <2>5. \A d \in Clients : Confirms(d)' => asking'[d].t = asking[d].t
    BY <1>2, <2>1, <2>2
  <2>6. \A d \in Clients : asking'[d].at \in {"look", "reset"} /\ uses'[asking'[d].t] > 0
            => asking'[d].t \in doubled
    <3> SUFFICES ASSUME NEW d \in Clients, asking'[d].at \in {"look", "reset"},
                        uses'[asking'[d].t] > 0
                 PROVE  asking'[d].t \in doubled
      OBVIOUS
    <3>1. d # c /\ asking'[d] = asking[d] /\ Confirms(d)
      BY <1>2, <2>1 DEF Confirms
    <3>2. asking[d].t \in Tokens
      BY <3>1, AccountKinds DEF Confirmation
    <3>3. CASE asking[d].t = t
      BY <2>2, <3>1, <3>3 DEF TokensHeld
    <3>4. CASE asking[d].t # t
      BY <1>3, <3>1, <3>2, <3>4 DEF TokensHeld
    <3>. QED
      BY <3>3, <3>4
  <2>. QED
    BY <1>3, <2>1, <2>3, <2>4, <2>5, <2>6 DEF TokensHeld
<1>. QED
  BY <1>2, <1>3, <1>4, <1>5, <1>6 DEF OneToken
-----------------------------------------------------------------------------
(* Tokens. *)

\* A step that changes tokens but no account: what accounts and registrations need is kept,
\* if no client starts to edit or to register.
LEMMA TokenKeeps ==
  ASSUME AccountsInv, NEW c \in Clients, NEW r \in AccountCalls, AC!Becomes(c, r), r.at \notin {"name", "insert", "edit"},
         valid' \in [Tokens -> Uids \cup {None}], requests' \in Nat,
         \A t \in Tokens \ issued' : valid'[t] = None /\ t \notin issued,
         UNCHANGED <<users, unused, uses>>
  PROVE  /\ AccountsKeyed' /\ EditsFresh' /\ JoinersMeet'
         /\ asking'[c] = r /\ \A d \in Clients \ {c} : asking'[d] = asking[d]
<1> USE DEF AccountsInv
<1>1. asking' \in [Clients -> AccountCalls] /\ asking'[c] = r /\ \A d \in Clients \ {c} : asking'[d] = asking[d]
  BY AccountBecomes
<1>2. AccountsKeyed'
  BY <1>1 DEF AccountsKeyed
<1>3. EditsFresh'
  BY <1>1 DEF EditsFresh
<1>4. JoinersMeet'
  <2>1. AC!Existing' = AC!Existing
    BY DEF AC!Existing
  <2>2. \A d \in Clients : JoinsIn(d)' => JoinsIn(d) /\ asking'[d] = asking[d]
    BY <1>1 DEF JoinsIn
  <2>. QED
    BY <2>1, <2>2 DEF JoinersMeet
<1>. QED
  BY <1>1, <1>2, <1>3, <1>4

\* A new token takes the place of all others of its user.
LEMMA CreateTokenStep ==
  ASSUME AccountsInv, NEW c \in Clients, NEW t \in Tokens, AC!CreateToken(c, t)
  PROVE  AccountsInv'
<1> DEFINE u == asking[c].u
           r == [asking[c] EXCEPT !.at = "mail"]
<1>1. asking[c] \in OneStep /\ asking[c].at = "ask" /\ u \in Uids /\ u # None
  BY AccountKinds, AccountsAssumption DEF AC!CreateToken, OneStep, AccountsInv, AccountRow
<1>2. r \in AccountCalls /\ r.at = "mail"
  <2>1. r \in OneStep /\ r.at = "mail"
    BY <1>1 DEF OneStep
  <2>. QED
    BY <2>1 DEF AccountCalls
<1>3. /\ AC!Becomes(c, r) /\ issued' = issued \cup {t} /\ t \notin issued
      /\ UNCHANGED <<users, unused, requests, uses, doubled>>
  BY DEF AC!CreateToken
<1> HIDE DEF r
<1>4. /\ valid' \in [Tokens -> Uids \cup {None}] /\ valid'[t] = u
      /\ \A s \in Tokens \ {t} : valid'[s] = IF valid[s] = u THEN None ELSE valid[s]
  BY <1>1 DEF AC!CreateToken, AC!Without, AccountsInv, AccountsKeyed
<1> HIDE DEF u
<1>5. requests' \in Nat /\ \A s \in Tokens \ issued' : valid'[s] = None /\ s \notin issued
  BY <1>3, <1>4 DEF AccountsInv, AccountsKeyed
<1>6. /\ AccountsKeyed' /\ EditsFresh' /\ JoinersMeet'
      /\ asking'[c] = r /\ \A d \in Clients \ {c} : asking'[d] = asking[d]
  BY <1>2, <1>3, <1>4, <1>5, TokenKeeps
<1>7. TokensHeld'
  <2>1. \A d \in Clients : Confirms(d)' => Confirms(d) /\ asking'[d] = asking[d]
    BY <1>2, <1>6 DEF Confirms
  <2>2. \A d \in Clients : Confirms(d) => asking'[d] = asking[d]
    BY <1>1, <1>6 DEF Confirms
  <2>3. uses[t] = 0
    BY <1>3 DEF AccountsInv, AccountsKeyed
  <2>4. \A s \in Tokens : uses[s] > 0 => s # t /\ (valid[s] = None => valid'[s] = None)
    BY <1>4, <2>3
  <2>. QED
    BY <1>3, <2>1, <2>2, <2>4 DEF TokensHeld, Confirms, AccountsInv
<1>8. OneToken'
  BY <1>1, <1>4 DEF OneToken, AccountsInv, u
<1>. QED
  BY <1>6, <1>7, <1>8 DEF AccountsInv

\* The e-mail is queued, or its failure takes the user's tokens away.
LEMMA MailStep ==
  ASSUME AccountsInv, NEW c \in Clients, AC!Mail(c)
  PROVE  AccountsInv'
<1>1. AC!Ready \in AccountCalls /\ AC!Ready.at = "ready" /\ asking[c].at = "mail"
  BY DEF AC!Ready, AccountCalls, AC!Mail
<1>2. /\ AC!Becomes(c, AC!Ready)
      /\ UNCHANGED <<users, unused, issued, requests, uses, doubled>>
  BY DEF AC!Mail
<1>3. /\ valid' \in [Tokens -> Uids \cup {None}]
      /\ \A s \in Tokens : valid'[s] \in {None, valid[s]}
  BY DEF AC!Mail, AC!Without, AccountsInv, AccountsKeyed
<1>4. requests' \in Nat /\ \A s \in Tokens \ issued' : valid'[s] = None /\ s \notin issued
  BY <1>2, <1>3 DEF AccountsInv, AccountsKeyed
<1>5. /\ AccountsKeyed' /\ EditsFresh' /\ JoinersMeet'
      /\ asking'[c] = AC!Ready /\ \A d \in Clients \ {c} : asking'[d] = asking[d]
  BY <1>1, <1>2, <1>3, <1>4, TokenKeeps
<1>6. TokensHeld'
  <2>1. \A d \in Clients : Confirms(d)' <=> Confirms(d)
    BY <1>1, <1>5 DEF Confirms
  <2>2. \A d \in Clients : Confirms(d) => asking'[d] = asking[d]
    BY <1>1, <1>5 DEF Confirms
  <2>3. \A s \in Tokens : valid[s] = None => valid'[s] = None
    BY <1>3
  <2>. QED
    BY <1>2, <2>1, <2>2, <2>3 DEF TokensHeld, Confirms, AccountsInv
<1>7. OneToken'
  BY <1>3 DEF OneToken, AccountsInv
<1>. QED
  BY <1>5, <1>6, <1>7 DEF AccountsInv

\* A confirmation looks its token up; another that holds it is known from now on.
LEMMA ConfirmStep ==
  ASSUME AccountsInv, NEW c \in Clients, NEW t \in Tokens, AC!Confirm(c, t)
  PROVE  AccountsInv'
<1> DEFINE r == [at |-> "look", t |-> t, u |-> valid[t], pass |-> requests + 1, row |-> None]
<1>1. /\ AC!Becomes(c, r) /\ asking[c].at = "ready" /\ valid[t] # None /\ requests' = requests + 1
      /\ doubled' = (IF \E d \in Clients : AC!Holds(d, t) THEN doubled \cup {t} ELSE doubled)
      /\ UNCHANGED <<users, unused, valid, issued, uses>>
  BY DEF AC!Confirm, AC!Starts, AC!Ready
<1>2. requests' \in Nat /\ valid[t] \in Uids /\ t \in issued
  BY <1>1 DEF AccountsInv, AccountsKeyed
<1>3. r \in AccountCalls /\ r.at = "look" /\ r.t = t
  <2>1. r \in Confirmation
    BY <1>1, <1>2 DEF Confirmation
  <2>. QED
    BY <2>1 DEF AccountCalls
<1> HIDE DEF r
<1>4. valid' \in [Tokens -> Uids \cup {None}] /\ \A s \in Tokens \ issued' : valid'[s] = None /\ s \notin issued
  BY <1>1 DEF AccountsInv, AccountsKeyed
<1>5. /\ AccountsKeyed' /\ EditsFresh' /\ JoinersMeet'
      /\ asking'[c] = r /\ \A d \in Clients \ {c} : asking'[d] = asking[d]
  BY <1>1, <1>2, <1>3, <1>4, TokenKeeps
<1>6. TokensHeld'
  <2>1. doubled \subseteq doubled' /\ \A d \in Clients : Confirms(d) /\ asking[d].t = t => t \in doubled'
    BY <1>1 DEF AC!Holds, Confirms
  <2>2. \A d \in Clients : Confirms(d)' <=> Confirms(d) \/ d = c
    BY <1>3, <1>5 DEF Confirms
  <2>3. ~Confirms(c)
    BY <1>1 DEF Confirms
  <2>4. uses[t] > 0 => t \in doubled'
    BY <1>1, <2>1 DEF TokensHeld, Confirms, AccountsInv
  <2>5. \A s \in Tokens : uses'[s] > 0 =>
            valid'[s] = None \/ \E d \in Clients : asking'[d].at = "mark" /\ asking'[d].t = s
    BY <1>1, <1>5 DEF TokensHeld, AccountsInv
  <2>6. \A d, e \in Clients : d # e /\ Confirms(d)' /\ Confirms(e)' /\ asking'[d].t = asking'[e].t
            => asking'[d].t \in doubled'
    BY <1>3, <1>5, <2>1, <2>2, <2>3 DEF TokensHeld, AccountsInv
  <2>7. \A d \in Clients : asking'[d].at \in {"look", "reset"} /\ uses'[asking'[d].t] > 0
            => asking'[d].t \in doubled'
    BY <1>1, <1>3, <1>5, <2>1, <2>4 DEF TokensHeld, AccountsInv
  <2>8. \A d \in Clients : Confirms(d)' => asking'[d].t \in issued
    BY <1>2, <1>3, <1>5, <2>2 DEF TokensHeld, AccountsInv
  <2>9. \A s \in Tokens : uses'[s] > 1 => s \in doubled'
    BY <1>1, <2>1 DEF TokensHeld, AccountsInv
  <2>. QED
    BY <1>1, <2>5, <2>6, <2>7, <2>8, <2>9 DEF TokensHeld
<1>7. OneToken'
  BY <1>1 DEF OneToken, AccountsInv
<1>. QED
  BY <1>5, <1>6, <1>7 DEF AccountsInv

\* A token that has set a password leaves the store.
LEMMA MarkUsedStep ==
  ASSUME AccountsInv, NEW c \in Clients, AC!MarkUsed(c)
  PROVE  AccountsInv'
<1>1. /\ AC!Ready \in AccountCalls /\ AC!Ready.at = "ready" /\ asking[c].at = "mark"
      /\ asking[c].t \in Tokens
  BY AccountKinds DEF AC!Ready, AccountCalls, AC!MarkUsed, Confirms, Confirmation, AccountsInv
<1>2. /\ AC!Becomes(c, AC!Ready)
      /\ UNCHANGED <<users, unused, issued, requests, uses, doubled>>
  BY DEF AC!MarkUsed
<1>3. /\ valid' \in [Tokens -> Uids \cup {None}] /\ valid'[asking[c].t] = None
      /\ \A s \in Tokens : valid'[s] \in {None, valid[s]}
  BY <1>1 DEF AC!MarkUsed, AC!Without, AccountsInv, AccountsKeyed
<1>4. requests' \in Nat /\ \A s \in Tokens \ issued' : valid'[s] = None /\ s \notin issued
  BY <1>2, <1>3 DEF AccountsInv, AccountsKeyed
<1>5. /\ AccountsKeyed' /\ EditsFresh' /\ JoinersMeet'
      /\ asking'[c] = AC!Ready /\ \A d \in Clients \ {c} : asking'[d] = asking[d]
  BY <1>1, <1>2, <1>3, <1>4, TokenKeeps
<1>6. TokensHeld'
  <2>1. \A d \in Clients : Confirms(d)' => Confirms(d) /\ d # c /\ asking'[d] = asking[d]
    BY <1>1, <1>5 DEF Confirms
  <2>2. \A s \in Tokens : uses'[s] > 0 =>
            valid'[s] = None \/ \E d \in Clients : asking'[d].at = "mark" /\ asking'[d].t = s
    BY <1>2, <1>3, <1>5 DEF TokensHeld, AccountsInv
  <2>. QED
    BY <1>2, <2>1, <2>2 DEF TokensHeld, Confirms, AccountsInv
<1>7. OneToken'
  BY <1>3 DEF OneToken, AccountsInv
<1>. QED
  BY <1>5, <1>6, <1>7 DEF AccountsInv

LEMMA ExpireStep ==
  ASSUME AccountsInv, NEW t \in Tokens, AC!Expire(t)
  PROVE  AccountsInv'
<1>1. /\ valid' \in [Tokens -> Uids \cup {None}]
      /\ \A s \in Tokens : valid'[s] \in {None, valid[s]}
      /\ UNCHANGED <<users, unused, issued, asking, requests, uses, doubled>>
  BY DEF AC!Expire, AccountsInv, AccountsKeyed
<1>2. AccountsKeyed'
  BY <1>1 DEF AccountsInv, AccountsKeyed
<1>3. EditsFresh' /\ JoinersMeet'
  BY <1>1 DEF EditsFresh, JoinersMeet, JoinsIn, AC!Existing, AccountsInv
<1>4. TokensHeld'
  BY <1>1 DEF TokensHeld, Confirms, AccountsInv
<1>5. OneToken'
  BY <1>1 DEF OneToken, AccountsInv
<1>. QED
  BY <1>2, <1>3, <1>4, <1>5 DEF AccountsInv
-----------------------------------------------------------------------------
LEMMA RegisterStep ==
  ASSUME AccountsInv, NEW c \in Clients, NEW n \in Names, AC!Register(c, n)
  PROVE  AccountsInv'
<1>1. /\ AC!Starts(c) /\ UNCHANGED <<users, unused, valid, issued, uses, doubled>>
      /\ asking[c] = AC!Ready /\ requests' \in Nat
  BY DEF AC!Register, AC!Starts, AccountsInv, AccountsKeyed
<1>2. CASE asking' = [AC!Met(c) EXCEPT ![c] =
              [at |-> "name", name |-> n, admin |-> AC!Existing = {}, by |-> "register", met |-> AC!Joining]]
  <2> DEFINE r == [at |-> "name", name |-> n, admin |-> AC!Existing = {}, by |-> "register", met |-> AC!Joining]
  <2>1. (AC!Existing = {}) \in BOOLEAN /\ AC!Joining \in BOOLEAN
    BY DEF AC!Joining
  <2>2. /\ r \in Join /\ r.at = "name" /\ r.met = AC!Joining
        /\ (r.by = "register" /\ r.admin => AC!Existing = {})
    BY <2>1, Zenon DEF Join
  <2> HIDE DEF r
  <2>. QED
    BY <1>1, <1>2, <2>2, JoinStep DEF r
<1>3. CASE UNCHANGED asking
  <2>1. AC!Becomes(c, AC!Ready)
    BY <1>1, <1>3 DEF AC!Becomes, AccountsInv, AccountsKeyed
  <2>2. AC!Ready \in AccountCalls /\ AC!Ready.at = "ready" /\ asking[c].at # "mark"
    BY <1>1 DEF AC!Ready, AccountCalls
  <2>. QED
    BY <1>1, <2>1, <2>2, QuietAccounts
<1>. QED
  BY <1>2, <1>3 DEF AC!Register

LEMMA CreateUserStep ==
  ASSUME AccountsInv, NEW c \in Clients, NEW n \in Names, NEW b \in BOOLEAN, AC!CreateUser(c, n, b)
  PROVE  AccountsInv'
<1> DEFINE r == [at |-> "name", name |-> n, admin |-> b, by |-> "create", met |-> AC!Joining]
<1>1. AC!Joining \in BOOLEAN
  BY DEF AC!Joining
<1>2. r \in Join /\ r.at = "name" /\ r.met = AC!Joining /\ r.by = "create"
  BY <1>1 DEF Join
<1>3. /\ AC!Starts(c) /\ asking' = [AC!Met(c) EXCEPT ![c] = r]
      /\ UNCHANGED <<users, unused, valid, issued, uses, doubled>>
  BY DEF AC!CreateUser
<1> HIDE DEF r
<1>. QED
  BY <1>2, <1>3, JoinStep, Zenon

\* What can be written to a field of a row.
LEMMA FieldSet ==
  ASSUME NEW wrote \in AccountRow
  PROVE  /\ \A n \in Names :
              /\ [wrote EXCEPT !["name"] = n] \in AccountRow /\ [wrote EXCEPT !["name"] = n]["name"] = n
              /\ \A f \in AccountFields \ {"name"} : [wrote EXCEPT !["name"] = n][f] = wrote[f]
         /\ \A n \in Nat :
              /\ [wrote EXCEPT !["pass"] = n] \in AccountRow /\ [wrote EXCEPT !["pass"] = n]["pass"] = n
              /\ \A f \in AccountFields \ {"pass"} : [wrote EXCEPT !["pass"] = n][f] = wrote[f]
         /\ \A g \in {"admin", "disabled"}, b \in BOOLEAN :
              /\ [wrote EXCEPT ![g] = b] \in AccountRow /\ [wrote EXCEPT ![g] = b][g] = b
              /\ \A f \in AccountFields \ {g} : [wrote EXCEPT ![g] = b][f] = wrote[f]
BY DEF AccountRow, AccountFields

LEMMA UpdateStep ==
  ASSUME AccountsInv, NEW c \in Clients, NEW u \in Uids, AC!UpdateMe(c, u) \/ AC!UpdateUser(c, u)
  PROVE  AccountsInv'
<1>1. u \in AC!Existing /\ users[u] \in AccountRow
  BY DEF AC!UpdateMe, AC!UpdateUser, AC!Existing, AccountsInv, AccountsKeyed
<1>2. \/ \E n \in Names : AC!Edit(c, u, "name", n)
      \/ AC!Edit(c, u, "pass", requests + 1)
      \/ \E g \in {"admin", "disabled"}, b \in BOOLEAN : AC!Edit(c, u, g, b)
  BY DEF AC!UpdateMe, AC!UpdateUser
<1>3. CASE \E n \in Names : AC!Edit(c, u, "name", n)
  <2>1. PICK n \in Names : AC!Edit(c, u, "name", n)
    BY <1>3
  <2>2. "name" \in AccountFields /\ n \in AccountValues
    BY DEF AccountFields, AccountValues
  <2>3. /\ [users[u] EXCEPT !["name"] = n] \in AccountRow /\ [users[u] EXCEPT !["name"] = n]["name"] = n
        /\ \A f \in AccountFields \ {"name"} : [users[u] EXCEPT !["name"] = n][f] = users[u][f]
    BY <1>1, FieldSet
  <2>. QED
    BY <1>1, <2>1, <2>2, <2>3, AccountEditStep
<1>4. CASE AC!Edit(c, u, "pass", requests + 1)
  <2>1. "pass" \in AccountFields /\ requests + 1 \in Nat /\ requests + 1 \in AccountValues
    BY DEF AccountFields, AccountValues, AccountsInv, AccountsKeyed
  <2>3. /\ [users[u] EXCEPT !["pass"] = requests + 1] \in AccountRow /\ [users[u] EXCEPT !["pass"] = requests + 1]["pass"] = requests + 1
        /\ \A f \in AccountFields \ {"pass"} : [users[u] EXCEPT !["pass"] = requests + 1][f] = users[u][f]
    BY <1>1, <2>1, FieldSet
  <2>. QED
    BY <1>1, <1>4, <2>1, <2>3, AccountEditStep
<1>5. CASE \E g \in {"admin", "disabled"}, b \in BOOLEAN : AC!Edit(c, u, g, b)
  <2>1. PICK g \in {"admin", "disabled"}, b \in BOOLEAN : AC!Edit(c, u, g, b)
    BY <1>5
  <2>2. g \in AccountFields /\ b \in AccountValues
    BY DEF AccountFields, AccountValues
  <2>3. /\ [users[u] EXCEPT ![g] = b] \in AccountRow /\ [users[u] EXCEPT ![g] = b][g] = b
        /\ \A f \in AccountFields \ {g} : [users[u] EXCEPT ![g] = b][f] = users[u][f]
    BY <1>1, FieldSet
  <2>. QED
    BY <1>1, <2>1, <2>2, <2>3, AccountEditStep
<1>. QED
  BY <1>2, <1>3, <1>4, <1>5

\* Requests that wait for something else and change nothing themselves.
LEMMA WaitStep ==
  ASSUME AccountsInv, NEW c \in Clients,
         \/ AC!CheckName(c) \/ AC!FindUser(c)
         \/ \E u \in Uids : AC!DeleteUser(c, u) \/ AC!AskReset(c, u)
  PROVE  AccountsInv'
<1>1. AC!Ready \in AccountCalls /\ AC!Ready.at = "ready"
  BY DEF AC!Ready, AccountCalls
<1>2. CASE AC!CheckName(c)
  <2> DEFINE r == [asking[c] EXCEPT !.at = "insert"]
  <2>1. asking[c] \in Join /\ JoinsIn(c) /\ asking[c].at # "mark"
    BY <1>2, AccountKinds DEF AC!CheckName, JoinsIn, AccountsInv
  <2>2. r \in Join /\ r.at = "insert" /\ r.by = asking[c].by /\ r.met = asking[c].met
        /\ r.admin = asking[c].admin
    BY <2>1 DEF Join
  <2>3. r \in AccountCalls
    BY <2>2 DEF AccountCalls
  <2>4. /\ AC!Becomes(c, r) \/ AC!Becomes(c, AC!Ready)
        /\ requests' \in Nat /\ UNCHANGED <<users, unused, valid, issued, uses, doubled>>
    BY <1>2 DEF AC!CheckName, AccountsInv, AccountsKeyed
  <2> HIDE DEF r
  <2>5. CASE AC!Becomes(c, r)
    BY <2>1, <2>2, <2>3, <2>4, <2>5, QuietAccounts
  <2>6. CASE AC!Becomes(c, AC!Ready)
    BY <1>1, <2>1, <2>4, <2>6, QuietAccounts
  <2>. QED
    BY <2>4, <2>5, <2>6
<1>3. CASE AC!FindUser(c)
  <2>1. asking[c] \in Confirmation /\ asking[c].at = "look" /\ asking[c].u \in Uids
    BY <1>3, AccountKinds DEF AC!FindUser, Confirms, Confirmation, AccountsInv
  <2> DEFINE r == [asking[c] EXCEPT !.at = "reset", !.row = users[asking[c].u]]
  <2>2. users[asking[c].u] \in AccountRow \cup {None}
    BY <2>1 DEF AccountsInv, AccountsKeyed
  <2>3. r \in Confirmation /\ r.at = "reset" /\ r.t = asking[c].t
    BY <2>1, <2>2, Zenon DEF Confirmation
  <2>4. r \in AccountCalls
    BY <2>3 DEF AccountCalls
  <2>5. /\ AC!Becomes(c, r) \/ AC!Becomes(c, AC!Ready)
        /\ requests' \in Nat /\ UNCHANGED <<users, unused, valid, issued, uses, doubled>>
    BY <1>3 DEF AC!FindUser, AccountsInv, AccountsKeyed
  <2> HIDE DEF r
  <2>6. CASE AC!Becomes(c, r)
    BY <2>1, <2>3, <2>4, <2>5, <2>6, QuietAccounts
  <2>7. CASE AC!Becomes(c, AC!Ready)
    BY <1>1, <2>1, <2>5, <2>7, QuietAccounts
  <2>. QED
    BY <2>5, <2>6, <2>7
<1>4. ASSUME NEW u \in Uids, AC!DeleteUser(c, u) \/ AC!AskReset(c, u)
      PROVE  AccountsInv'
  <2>1. PICK k \in {"delete", "ask"} : AC!Becomes(c, [at |-> k, u |-> u])
    BY <1>4 DEF AC!DeleteUser, AC!AskReset
  <2> DEFINE r == [at |-> k, u |-> u]
  <2>2. r \in OneStep /\ r.at \in {"delete", "ask"}
    BY DEF OneStep
  <2>3. r \in AccountCalls
    BY <2>2 DEF AccountCalls
  <2>4. /\ asking[c].at = "ready" /\ requests' \in Nat
        /\ UNCHANGED <<users, unused, valid, issued, uses, doubled>>
    BY <1>4 DEF AC!DeleteUser, AC!AskReset, AC!Starts, AC!Ready, AccountsInv, AccountsKeyed
  <2>5. AC!Becomes(c, r)
    BY <2>1
  <2> HIDE DEF r
  <2>. QED
    BY <2>2, <2>3, <2>4, <2>5, QuietAccounts
<1>. QED
  BY <1>2, <1>3, <1>4
-----------------------------------------------------------------------------
LEMMA AccountsBegin == AC!Init => AccountsInv
<1> SUFFICES ASSUME AC!Init PROVE AccountsInv
  OBVIOUS
<1>1. \A c \in Clients : asking[c] = AC!Ready /\ asking[c].at = "ready"
  BY DEF AC!Init, AC!Ready
<1>2. AccountsKeyed
  <2>1. AC!Ready \in AccountCalls
    BY DEF AC!Ready, AccountCalls
  <2>. QED
    BY <2>1 DEF AC!Init, AccountsKeyed
<1>3. EditsFresh /\ JoinersMeet
  BY <1>1 DEF EditsFresh, JoinersMeet, JoinsIn
<1>4. TokensHeld
  <2>1. \A t \in Tokens : uses[t] = 0
    BY DEF AC!Init
  <2>. QED
    BY <1>1, <2>1 DEF TokensHeld, Confirms
<1>5. OneToken
  BY DEF OneToken, AC!Init
<1>. QED
  BY <1>2, <1>3, <1>4, <1>5 DEF AccountsInv

LEMMA AccountsStay == ASSUME AccountsInv, [AC!Next]_accountsvars PROVE AccountsInv'
<1>1. ASSUME NEW c \in Clients, NEW n \in Names, AC!Register(c, n) \/ \E b \in BOOLEAN : AC!CreateUser(c, n, b)
      PROVE  AccountsInv'
  BY <1>1, RegisterStep, CreateUserStep
<1>2. ASSUME NEW c \in Clients, NEW u \in Uids,
             AC!UpdateMe(c, u) \/ AC!UpdateUser(c, u) \/ AC!DeleteUser(c, u) \/ AC!AskReset(c, u)
      PROVE  AccountsInv'
  BY <1>2, UpdateStep, WaitStep
<1>3. ASSUME NEW c \in Clients, NEW t \in Tokens, AC!CreateToken(c, t) \/ AC!Confirm(c, t)
      PROVE  AccountsInv'
  BY <1>3, CreateTokenStep, ConfirmStep
<1>4. ASSUME NEW c \in Clients,
             \/ AC!CheckName(c) \/ AC!Insert(c) \/ AC!SaveEdit(c) \/ AC!Remove(c)
             \/ AC!Mail(c) \/ AC!FindUser(c) \/ AC!SavePassword(c) \/ AC!MarkUsed(c)
      PROVE  AccountsInv'
  BY <1>4, WaitStep, InsertStep, SaveEditStep, RemoveStep, MailStep, SavePasswordStep, MarkUsedStep
<1>5. ASSUME NEW t \in Tokens, AC!Expire(t)
      PROVE  AccountsInv'
  BY <1>5, ExpireStep
<1>6. CASE UNCHANGED accountsvars
  <2>1. UNCHANGED <<users, unused, valid, issued, asking, requests, uses, doubled>>
    BY <1>6 DEF accountsvars
  <2>2. AccountsKeyed' /\ EditsFresh' /\ OneToken'
    BY <2>1 DEF AccountsInv, AccountsKeyed, EditsFresh, OneToken
  <2>3. JoinersMeet' /\ TokensHeld'
    BY <2>1 DEF AccountsInv, JoinersMeet, JoinsIn, AC!Existing, TokensHeld, Confirms
  <2>. QED
    BY <2>2, <2>3 DEF AccountsInv
<1>. QED
  BY <1>1, <1>2, <1>3, <1>4, <1>5, <1>6 DEF AC!Next

LEMMA AccountsInvariant == AC!Spec => []AccountsInv
<1>1. AccountsInv /\ [AC!Next]_(AC!vars) => AccountsInv'
  BY AccountsStay DEF AC!vars, accountsvars
<1>. QED
  BY AccountsBegin, <1>1, PTL DEF AC!Spec
-----------------------------------------------------------------------------
\* Four kinds of steps write to accounts.
LEMMA AccountWriting ==
  ASSUME [AC!Next]_accountsvars, users' # users
  PROVE  \E c \in Clients : AC!Insert(c) \/ AC!SaveEdit(c) \/ AC!Remove(c) \/ AC!SavePassword(c)
<1>1. UNCHANGED users \/ \E c \in Clients : AC!Insert(c) \/ AC!SaveEdit(c) \/ AC!Remove(c) \/ AC!SavePassword(c)
  <2>1. \A c \in Clients, n \in Names : AC!Register(c, n) => UNCHANGED users
    BY DEF AC!Register
  <2>2. \A c \in Clients, n \in Names, b \in BOOLEAN : AC!CreateUser(c, n, b) => UNCHANGED users
    BY DEF AC!CreateUser
  <2>3. \A c \in Clients, u \in Uids : AC!UpdateMe(c, u) \/ AC!UpdateUser(c, u) => UNCHANGED users
    BY Zenon DEF AC!UpdateMe, AC!UpdateUser, AC!Edit
  <2>4. \A c \in Clients, u \in Uids : AC!DeleteUser(c, u) \/ AC!AskReset(c, u) => UNCHANGED users
    BY DEF AC!DeleteUser, AC!AskReset
  <2>5. \A c \in Clients, t \in Tokens : AC!CreateToken(c, t) \/ AC!Confirm(c, t) => UNCHANGED users
    BY DEF AC!CreateToken, AC!Confirm
  <2>6. \A c \in Clients : AC!CheckName(c) \/ AC!Mail(c) \/ AC!FindUser(c) \/ AC!MarkUsed(c) => UNCHANGED users
    BY DEF AC!CheckName, AC!Mail, AC!FindUser, AC!MarkUsed
  <2>7. \A t \in Tokens : AC!Expire(t) => UNCHANGED users
    BY DEF AC!Expire
  <2>8. UNCHANGED accountsvars => UNCHANGED users
    BY DEF accountsvars
  <2>. QED
    BY <2>1, <2>2, <2>3, <2>4, <2>5, <2>6, <2>7, <2>8 DEF AC!Next
<1>. QED
  BY <1>1

\* What they write, and where.
LEMMA AccountWritten ==
  ASSUME AccountsInv, NEW c \in Clients, NEW u \in Uids, users'[u] # users[u],
         AC!Insert(c) \/ AC!SaveEdit(c) \/ AC!Remove(c) \/ AC!SavePassword(c)
  PROVE  \/ /\ AC!Insert(c) /\ users[u] = None /\ users'[u].admin = asking[c].admin
         \/ /\ AC!SaveEdit(c) /\ users[u] # None /\ u = asking[c].u /\ users'[u] = asking[c].row
            /\ asking'[c] = AC!Ready
         \/ AC!Remove(c) /\ users'[u] = None
         \/ /\ AC!SavePassword(c) /\ users[u] # None /\ asking'[c].at = "mark"
            /\ users'[u] = [users[u] EXCEPT !.pass = asking[c].pass]
<1> USE DEF AccountsInv
<1>1. CASE AC!Insert(c)
  <2>1. PICK v \in unused :
            AC!Write(c, v, [name |-> asking[c].name, pass |-> requests, admin |-> asking[c].admin,
                         disabled |-> FALSE])
    BY <1>1, Zenon DEF AC!Insert
  <2>2. users[v] = None /\ v = u
    BY <2>1 DEF AC!Write, AccountsKeyed
  <2>. QED
    BY <1>1, <2>1, <2>2 DEF AC!Write, AccountsKeyed
<1>2. CASE AC!SaveEdit(c)
  <2>1. users[asking[c].u] # None /\ AC!Write(c, asking[c].u, asking[c].row)
    BY <1>2 DEF AC!SaveEdit
  <2>2. asking'[c] = AC!Ready
    BY <2>1, <1>2, AccountKinds, StaleMarks DEF AC!SaveEdit, AC!Write, Editing
  <2>. QED
    BY <1>2, <2>1, <2>2 DEF AC!Write, AccountsKeyed
<1>3. CASE AC!Remove(c)
  BY <1>3 DEF AC!Remove, AC!Write, AccountsKeyed
<1>4. CASE AC!SavePassword(c)
  <2>1. asking[c] \in Confirmation /\ asking[c].u \in Uids
    BY <1>4, AccountKinds DEF AC!SavePassword, Confirms, Confirmation
  <2>2. /\ users[asking[c].u] # None /\ users' = [users EXCEPT ![asking[c].u].pass = asking[c].pass]
        /\ asking' = [AC!Stale(asking[c].u) EXCEPT ![c].at = "mark"]
    BY <1>4 DEF AC!SavePassword
  <2>3. u = asking[c].u /\ users'[u] = [users[u] EXCEPT !.pass = asking[c].pass]
    BY <2>2 DEF AccountsKeyed
  <2>4. asking'[c] = [asking[c] EXCEPT !.at = "mark"]
    <3>1. AC!Stale(asking[c].u) \in [Clients -> AccountCalls] /\ AC!Stale(asking[c].u)[c] = asking[c]
      BY <1>4, <2>1, StaleMarks DEF AC!SavePassword
    <3>. QED
      BY <2>2, <3>1
  <2>5. asking'[c].at = "mark"
    BY <2>1, <2>4 DEF Confirmation
  <2>. QED
    BY <1>4, <2>2, <2>3, <2>5
<1>. QED
  BY <1>1, <1>2, <1>3, <1>4

\* A step changes a field to what its request asked for, but where the edit is stale.
LEMMA EditsUndoStep ==
  ASSUME AccountsInv, [AC!Next]_accountsvars
  PROVE  AC!AskedStep
<1> SUFFICES ASSUME NEW u \in Uids, users[u] # None, users'[u] # None,
                    NEW f \in AccountFields, users'[u][f] # users[u][f]
             PROVE  \E c \in Clients : asking'[c] # asking[c] /\ AC!AskedFor(c, f, users'[u][f])
  BY DEF AC!AskedStep, AccountFields
<1>1. PICK c \in Clients : AC!Insert(c) \/ AC!SaveEdit(c) \/ AC!Remove(c) \/ AC!SavePassword(c)
  BY AccountWriting
<1>2. \/ /\ AC!SaveEdit(c) /\ u = asking[c].u /\ users'[u] = asking[c].row /\ asking'[c] = AC!Ready
      \/ /\ AC!SavePassword(c) /\ asking'[c].at = "mark"
         /\ users'[u] = [users[u] EXCEPT !.pass = asking[c].pass]
  BY <1>1, AccountWritten
<1>3. CASE AC!SaveEdit(c) /\ u = asking[c].u /\ users'[u] = asking[c].row /\ asking'[c] = AC!Ready
  <2>1. asking[c].at = "edit" /\ asking'[c] # asking[c]
    BY <1>3 DEF AC!SaveEdit, AC!Ready
  <2>2. CASE asking[c].stale
    BY <2>1, <2>2 DEF AC!AskedFor
  <2>3. CASE ~asking[c].stale
    <3>1. f = asking[c].field /\ users'[u][f] = asking[c].value
      BY <1>3, <2>1, <2>3 DEF AccountsInv, EditsFresh
    <3>. QED
      BY <2>1, <3>1 DEF AC!AskedFor
  <2>. QED
    BY <2>2, <2>3
<1>4. CASE /\ AC!SavePassword(c) /\ asking'[c].at = "mark"
           /\ users'[u] = [users[u] EXCEPT !.pass = asking[c].pass]
  <2>1. asking[c].at = "reset" /\ asking'[c] # asking[c]
    BY <1>4 DEF AC!SavePassword
  <2>2. users[u] \in AccountRow
    BY DEF AccountsInv, AccountsKeyed
  <2>3. f = "pass" /\ users'[u][f] = asking[c].pass
    BY <1>4, <2>2 DEF AccountRow, AccountFields
  <2>. QED
    BY <2>1, <2>3 DEF AC!AskedFor
<1>. QED
  BY <1>2, <1>3, <1>4

\* update_me, update_user and the reset of a password: a field of an account changes only to
\* what the request that writes it asked for, but where an edit read the row before somebody
\* else wrote to it.
THEOREM EditsAloneUndo == AC!Spec => AC!OnlyEditsUndo
<1>1. AccountsInv /\ [AC!Next]_(AC!vars) => AC!AskedStep
  BY EditsUndoStep DEF AC!vars, accountsvars
<1>. QED
  BY <1>1, AccountsInvariant, PTL DEF AC!Spec, AC!OnlyEditsUndo

\* Who becomes an administrator by registering, alone, finds no user.
LEMMA FirstAdminStep ==
  ASSUME AccountsInv, [AC!Next]_accountsvars
  PROVE  AC!FirstStep
<1> SUFFICES ASSUME NEW c \in Clients, NEW u \in Uids,
                    asking[c].at = "insert" /\ asking[c].by = "register" /\ ~asking[c].met,
                    users[u] = None, users'[u] # None, users'[u].admin
             PROVE  AC!Existing = {}
  BY DEF AC!FirstStep
<1>1. PICK d \in Clients : AC!Insert(d) \/ AC!SaveEdit(d) \/ AC!Remove(d) \/ AC!SavePassword(d)
  BY AccountWriting
<1>2. AC!Insert(d) /\ users'[u].admin = asking[d].admin
  BY <1>1, AccountWritten, Zenon
<1>3. JoinsIn(c) /\ JoinsIn(d)
  BY <1>2 DEF AC!Insert, JoinsIn
<1>4. d = c
  BY <1>3 DEF AccountsInv, JoinersMeet
<1>. QED
  BY <1>2, <1>3, <1>4 DEF AccountsInv, JoinersMeet

\* register_user: whoever registers becomes an administrator only if there is no user, or
\* another account was being made meanwhile.
THEOREM FirstAloneIsAdmin == AC!Spec => AC!FirstIsAdmin
<1>1. AccountsInv /\ [AC!Next]_(AC!vars) => AC!FirstStep
  BY FirstAdminStep DEF AC!vars, accountsvars
<1>. QED
  BY <1>1, AccountsInvariant, PTL DEF AC!Spec, AC!FirstIsAdmin

LEMMA TokensRight == AccountsInv => AC!TokenOnce
BY DEF AccountsInv, TokensHeld, OneToken, AC!TokenOnce, AC!Holds

\* reset_password_with_token and the token store: a token sets one password, unless two
\* confirmations held it at once, and is dead then; a user has one token at a time.
THEOREM TokensOnce == AC!Spec => []AC!TokenOnce
BY TokensRight, AccountsInvariant, PTL
-----------------------------------------------------------------------------
(* What the rows hold: a password is the number of a request, and no two    *)
(* accounts have one name.                                                  *)

\* The password that a request holds, or that the insert of a row takes, is the number of
\* a request made so far.
PassMade(r, n) ==
    /\ r.at = "edit" => r.row.pass \in 1 .. n
    /\ r.at \in {"name", "insert"} => n >= 1
    /\ r.at \in {"look", "reset"} => r.pass \in 1 .. n
AccountsNumbered ==
    /\ requests \in 0 .. MaxAccountRequests /\ doubled \subseteq Tokens /\ issued \subseteq Tokens
    /\ \A u \in AC!Existing : users[u].pass \in 1 .. requests
    /\ \A c \in Clients : PassMade(asking[c], requests)
NamesOnce == \A u, v \in AC!Existing : users[u].name = users[v].name => u = v

AccountRowsInv == AccountsInv /\ AccountsNumbered /\ NamesOnce

\* The calls change as a request starts, goes on or ends.
LEMMA CallsNumbered ==
  ASSUME AccountRowsInv, NEW c \in Clients, NEW r, NEW f,
         f = asking \/ f = AC!Met(c) \/ \E u \in Uids : f = AC!Stale(u),
         asking' = [f EXCEPT ![c] = r], requests' \in Nat, requests <= requests',
         PassMade(r, requests')
  PROVE  \A d \in Clients : PassMade(asking'[d], requests')
<1> SUFFICES ASSUME NEW d \in Clients PROVE PassMade(asking'[d], requests')
  OBVIOUS
<1>1. AccountsKeyed /\ PassMade(asking[d], requests) /\ requests \in Nat
  BY DEF AccountRowsInv, AccountsInv, AccountsNumbered, AccountsKeyed
<1>2. asking \in [Clients -> AccountCalls] /\ f \in [Clients -> AccountCalls]
  BY <1>1, Meeting, StaleMarks DEF AccountsKeyed
<1>3. CASE d = c
  BY <1>2, <1>3
<1>4. CASE d # c
  <2>1. asking'[d] = f[d]
    BY <1>2, <1>4
  <2>2. CASE f[d] = asking[d]
    BY <1>1, <2>1, <2>2 DEF PassMade
  <2>3. CASE f = AC!Met(c) /\ f[d] # asking[d]
    <3>1. JoinsIn(d) /\ f[d].at = asking[d].at
      BY <1>1, <2>3, Meeting
    <3>. QED
      BY <1>1, <2>1, <3>1 DEF PassMade, JoinsIn
  <2>4. ASSUME NEW u \in Uids, f = AC!Stale(u), f[d] # asking[d]
        PROVE  PassMade(asking'[d], requests')
    <3>1. asking[d].at = "edit"
      BY <1>1, <2>4, StaleMarks
    <3>2. asking[d] \in Editing
      BY <1>1, <3>1, AccountKinds
    <3>3. f[d] = [asking[d] EXCEPT !.stale = TRUE]
      BY <2>4 DEF AC!Stale
    <3>4. f[d].at = "edit" /\ f[d].row = asking[d].row
      BY <3>2, <3>3 DEF Editing
    <3>. QED
      BY <1>1, <2>1, <3>1, <3>4 DEF PassMade
  <2>. QED
    BY <2>2, <2>3, <2>4
<1>. QED
  BY <1>3, <1>4

\* A row is written, or deleted.
LEMMA RowNumbered ==
  ASSUME AccountRowsInv, NEW u \in Uids, NEW wrote \in AccountRow \cup {None}, users' = [users EXCEPT ![u] = wrote],
         wrote # None => /\ wrote.pass \in 1 .. requests
                       /\ \A o \in AC!Others(u) : users[o].name # wrote.name
  PROVE  (\A v \in AC!Existing' : users'[v].pass \in 1 .. requests) /\ NamesOnce'
<1>1. users'[u] = wrote /\ \A v \in Uids \ {u} : users'[v] = users[v]
  BY DEF AccountRowsInv, AccountsInv, AccountsKeyed
<1>2. \A v \in AC!Existing' : (v = u /\ wrote # None) \/ (v \in AC!Others(u) /\ users'[v] = users[v])
  BY <1>1 DEF AC!Existing, AC!Others
<1>3. AC!Others(u) \subseteq AC!Existing
  BY DEF AC!Others
<1>4. \A v \in AC!Existing' : users'[v].pass \in 1 .. requests
  BY <1>1, <1>2, <1>3 DEF AccountRowsInv, AccountsNumbered
<1>5. NamesOnce'
  <2> SUFFICES ASSUME NEW v \in AC!Existing', NEW w \in AC!Existing', users'[v].name = users'[w].name
               PROVE  v = w
    BY DEF NamesOnce
  <2>1. \A o \in AC!Others(u) : wrote # None => users[o].name # wrote.name
    OBVIOUS
  <2>3. CASE v = u
    BY <1>1, <1>2, <2>1, <2>3 DEF AC!Others
  <2>4. CASE w = u
    BY <1>1, <1>2, <2>1, <2>4 DEF AC!Others
  <2>2. CASE v # u /\ w # u
    BY <1>2, <1>3, <2>2 DEF AccountRowsInv, NamesOnce
  <2>. QED
    BY <2>2, <2>3, <2>4
<1>. QED
  BY <1>4, <1>5

\* What a step has to show.
LEMMA NumberedStep ==
  ASSUME AccountRowsInv, AccountsInv', requests' \in requests .. MaxAccountRequests, doubled' \subseteq Tokens,
         issued' \subseteq Tokens, \A d \in Clients : PassMade(asking'[d], requests'),
         UNCHANGED users
  PROVE  AccountRowsInv'
<1>1. AC!Existing' = AC!Existing /\ requests \in Nat
  BY DEF AC!Existing, AccountRowsInv, AccountsNumbered
<1>2. \A u \in AC!Existing' : users'[u].pass \in 1 .. requests'
  BY <1>1 DEF AccountRowsInv, AccountsNumbered
<1>3. NamesOnce'
  BY <1>1 DEF AccountRowsInv, NamesOnce
<1>4. AccountsNumbered'
  BY <1>1, <1>2 DEF AccountsNumbered, AccountRowsInv
<1>. QED
  BY <1>3, <1>4 DEF AccountRowsInv

\* A request of any kind starts with the next number.
LEMMA StartNumbered ==
  ASSUME AccountRowsInv, NEW c \in Clients, NEW r, NEW f, f = asking \/ f = AC!Met(c), AC!Starts(c),
         asking' = [f EXCEPT ![c] = r], PassMade(r, requests + 1), AccountsInv',
         UNCHANGED <<users, issued>>, doubled' \subseteq Tokens
  PROVE  AccountRowsInv'
<1>1. requests \in Nat /\ requests' = requests + 1 /\ requests < MaxAccountRequests /\ issued' \subseteq Tokens
  BY DEF AccountRowsInv, AccountsNumbered, AC!Starts
<1>2. requests' \in Nat /\ requests <= requests'
  BY <1>1
<1>3. requests' \in requests .. MaxAccountRequests
  BY <1>1, AccountsAssumption DEF AccountRow
<1>4. \A d \in Clients : PassMade(asking'[d], requests')
  BY <1>1, <1>2, CallsNumbered, Zenon
<1>. QED
  BY <1>1, <1>3, <1>4, NumberedStep

\* A request goes on or ends, or a token expires.
LEMMA GoesOnNumbered ==
  ASSUME AccountRowsInv, NEW c \in Clients, NEW r, AC!Becomes(c, r), PassMade(r, requests), AccountsInv',
         UNCHANGED <<users, requests, doubled>>, issued' \subseteq Tokens
  PROVE  AccountRowsInv'
<1>1. requests \in Nat /\ requests' = requests /\ requests' \in requests .. MaxAccountRequests
  BY DEF AccountRowsInv, AccountsNumbered
<1>2. \A d \in Clients : PassMade(asking'[d], requests')
  <2>1. requests' \in Nat /\ requests <= requests' /\ PassMade(r, requests')
    BY <1>1
  <2>. QED
    BY <2>1, CallsNumbered, Zenon DEF AC!Becomes
<1>3. doubled' \subseteq Tokens
  BY DEF AccountRowsInv, AccountsNumbered
<1>. QED
  BY <1>1, <1>2, <1>3, NumberedStep

\* Requests that write to the rows.
LEMMA WritesNumbered ==
  ASSUME AccountRowsInv, NEW c \in Clients, NEW u \in Uids, NEW wrote \in AccountRow \cup {None}, NEW r,
         users' = [users EXCEPT ![u] = wrote], asking' = [AC!Stale(u) EXCEPT ![c] = r],
         wrote # None => /\ wrote.pass \in 1 .. requests
                       /\ \A o \in AC!Others(u) : users[o].name # wrote.name,
         PassMade(r, requests), AccountsInv', UNCHANGED <<requests, doubled, issued>>
  PROVE  AccountRowsInv'
<1>1. requests \in Nat /\ requests' = requests
  BY DEF AccountRowsInv, AccountsNumbered
<1>2. \A d \in Clients : PassMade(asking'[d], requests')
  <2>1. requests' \in Nat /\ requests <= requests' /\ PassMade(r, requests')
    BY <1>1
  <2>. QED
    BY <2>1, CallsNumbered, Zenon
<1>3. (\A v \in AC!Existing' : users'[v].pass \in 1 .. requests') /\ NamesOnce'
  BY <1>1, RowNumbered, Zenon
<1>4. AccountsNumbered'
  BY <1>1, <1>2, <1>3 DEF AccountRowsInv, AccountsNumbered
<1>. QED
  BY <1>3, <1>4 DEF AccountRowsInv

LEMMA StartsNumbered ==
  ASSUME AccountRowsInv, NEW c \in Clients, AccountsInv',
         \/ \E n \in Names : AC!Register(c, n) \/ \E b \in BOOLEAN : AC!CreateUser(c, n, b)
         \/ \E u \in Uids : AC!DeleteUser(c, u) \/ AC!AskReset(c, u)
         \/ \E t \in Tokens : AC!Confirm(c, t)
  PROVE  AccountRowsInv'
<1>0. requests \in Nat /\ doubled \subseteq Tokens
  BY DEF AccountRowsInv, AccountsNumbered
<1>1. ASSUME NEW n \in Names, NEW b \in BOOLEAN, AC!Register(c, n) \/ AC!CreateUser(c, n, b)
      PROVE  AccountRowsInv'
  <2>1. CASE UNCHANGED asking
    <3>1. asking' = [asking EXCEPT ![c] = asking[c]] /\ PassMade(asking[c], requests)
      BY <2>1 DEF AccountRowsInv, AccountsInv, AccountsKeyed, AccountsNumbered
    <3>2. PassMade(asking[c], requests + 1)
      BY <1>0, <3>1 DEF PassMade
    <3>3. AC!Starts(c) /\ UNCHANGED <<users, issued>> /\ doubled' \subseteq Tokens
      BY <1>0, <1>1 DEF AC!Register, AC!CreateUser
    <3>. QED
      BY <3>1, <3>2, <3>3, StartNumbered, Zenon
  <2>2. ASSUME NEW a, NEW k,
               asking' = [AC!Met(c) EXCEPT ![c] =
                          [at |-> "name", name |-> n, admin |-> a, by |-> k, met |-> AC!Joining]]
        PROVE  AccountRowsInv'
    <3>1. PassMade([at |-> "name", name |-> n, admin |-> a, by |-> k, met |-> AC!Joining], requests + 1)
      BY <1>0 DEF PassMade
    <3>2. AC!Starts(c) /\ UNCHANGED <<users, issued>> /\ doubled' \subseteq Tokens
      BY <1>0, <1>1 DEF AC!Register, AC!CreateUser
    <3>. QED
      BY <2>2, <3>1, <3>2, StartNumbered, Zenon
  <2>. QED
    BY <1>1, <2>1, <2>2 DEF AC!Register, AC!CreateUser
<1>2. ASSUME NEW u \in Uids, AC!DeleteUser(c, u) \/ AC!AskReset(c, u)
      PROVE  AccountRowsInv'
  <2>1. PICK k \in {"delete", "ask"} : AC!Becomes(c, [at |-> k, u |-> u])
    BY <1>2 DEF AC!DeleteUser, AC!AskReset
  <2>2. PassMade([at |-> k, u |-> u], requests + 1)
    BY DEF PassMade
  <2>3. AC!Starts(c) /\ UNCHANGED <<users, issued>> /\ doubled' \subseteq Tokens
    BY <1>0, <1>2 DEF AC!DeleteUser, AC!AskReset
  <2>. QED
    BY <2>1, <2>2, <2>3, StartNumbered, Zenon DEF AC!Becomes
<1>3. ASSUME NEW t \in Tokens, AC!Confirm(c, t)
      PROVE  AccountRowsInv'
  <2>1. PassMade([at |-> "look", t |-> t, u |-> valid[t], pass |-> requests + 1, row |-> None],
                 requests + 1)
    BY <1>0 DEF PassMade
  <2>2. /\ asking' = [asking EXCEPT ![c] =
                      [at |-> "look", t |-> t, u |-> valid[t], pass |-> requests + 1, row |-> None]]
        /\ AC!Starts(c) /\ UNCHANGED <<users, issued>>
    BY <1>3 DEF AC!Confirm, AC!Becomes
  <2>3. doubled' \subseteq Tokens
    BY <1>0, <1>3 DEF AC!Confirm
  <2>. QED
    BY <2>1, <2>2, <2>3, StartNumbered, Zenon
<1>. QED
  BY <1>1, <1>2, <1>3, Zenon

LEMMA EditNumbered ==
  ASSUME AccountRowsInv, NEW c \in Clients, NEW u \in Uids, AccountsInv', AC!UpdateMe(c, u) \/ AC!UpdateUser(c, u)
  PROVE  AccountRowsInv'
<1>0. requests \in Nat /\ doubled \subseteq Tokens /\ u \in AC!Existing /\ users[u] \in AccountRow
  BY DEF AccountRowsInv, AccountsNumbered, AC!UpdateMe, AC!UpdateUser, AC!Existing, AccountsInv, AccountsKeyed
<1>1. users[u].pass \in 1 .. requests
  BY <1>0 DEF AccountRowsInv, AccountsNumbered
<1>11. \E field \in AccountFields : \E value :
        AC!Edit(c, u, field, value) /\ (field = "pass" => value = requests + 1)
  BY DEF AC!UpdateMe, AC!UpdateUser, AccountFields
<1>12. PICK field \in AccountFields :
        \E value : AC!Edit(c, u, field, value) /\ (field = "pass" => value = requests + 1)
  BY <1>11
<1>2. PICK value : AC!Edit(c, u, field, value) /\ (field = "pass" => value = requests + 1)
  BY <1>12
<1> DEFINE wrote == [users[u] EXCEPT ![field] = value]
           r == [at |-> "edit", u |-> u, row |-> wrote, field |-> field, value |-> value,
                 stale |-> FALSE]
<1>3. wrote.pass = IF field = "pass" THEN value ELSE users[u].pass
  BY <1>0, <1>2 DEF AccountRow, AccountFields
<1>4. wrote.pass \in 1 .. requests + 1
  BY <1>0, <1>1, <1>2, <1>3
<1> HIDE DEF wrote
<1>5. PassMade(r, requests + 1)
  BY <1>4 DEF PassMade
<1>6. AC!Starts(c) /\ asking' = [asking EXCEPT ![c] = r] /\ UNCHANGED <<users, issued>> /\ doubled' \subseteq Tokens
  BY <1>0, <1>2 DEF AC!Edit, AC!Becomes, wrote
<1> HIDE DEF r
<1>. QED
  BY <1>5, <1>6, StartNumbered, Zenon

LEMMA InsertNumbered ==
  ASSUME AccountRowsInv, NEW c \in Clients, AccountsInv', AC!Insert(c)
  PROVE  AccountRowsInv'
<1>1. asking[c] \in Join /\ PassMade(AC!Ready, requests) /\ requests \in Nat /\ 1 <= requests
  <2>1. asking[c].at = "insert" /\ PassMade(asking[c], requests) /\ requests \in Nat
    BY DEF AC!Insert, AccountRowsInv, AccountsNumbered
  <2>2. asking[c] \in Join
    BY <2>1, AccountKinds DEF AccountRowsInv, AccountsInv, JoinsIn
  <2>. QED
    BY <2>1, <2>2 DEF PassMade, AC!Ready
<1>2. UNCHANGED <<requests, doubled, issued>>
  BY DEF AC!Insert
<1>3. CASE AC!Taken(asking[c].name)
  <2>1. AC!Becomes(c, AC!Ready) /\ UNCHANGED users
    BY <1>3 DEF AC!Insert
  <2>2. issued' \subseteq Tokens
    BY <1>2 DEF AccountRowsInv, AccountsNumbered
  <2>. QED
    BY <1>1, <1>2, <2>1, <2>2, GoesOnNumbered
<1>4. CASE ~AC!Taken(asking[c].name)
  <2>1. PICK u \in unused :
            AC!Write(c, u, [name |-> asking[c].name, pass |-> requests, admin |-> asking[c].admin,
                         disabled |-> FALSE])
    BY <1>4, Zenon DEF AC!Insert
  <2> DEFINE wrote == [name |-> asking[c].name, pass |-> requests, admin |-> asking[c].admin,
                     disabled |-> FALSE]
  <2>2. wrote \in AccountRow /\ wrote.name = asking[c].name /\ wrote.pass \in 1 .. requests /\ u \in Uids
    BY <1>1, <2>1 DEF AccountRow, Join, AccountRowsInv, AccountsInv, AccountsKeyed
  <2>3. users' = [users EXCEPT ![u] = wrote] /\ asking' = [AC!Stale(u) EXCEPT ![c] = AC!Ready]
    BY <2>1 DEF AC!Write
  <2> HIDE DEF wrote
  <2>4. \A o \in AC!Others(u) : users[o].name # wrote.name
    BY <1>4, <2>2 DEF AC!Taken, AC!Others
  <2>. QED
    BY <1>1, <1>2, <2>2, <2>3, <2>4, WritesNumbered, Zenon
<1>. QED
  BY <1>3, <1>4

LEMMA SaveEditNumbered ==
  ASSUME AccountRowsInv, NEW c \in Clients, AccountsInv', AC!SaveEdit(c)
  PROVE  AccountRowsInv'
<1>1. asking[c] \in Editing /\ PassMade(AC!Ready, requests) /\ asking[c].row.pass \in 1 .. requests
  <2>1. asking[c].at = "edit" /\ PassMade(asking[c], requests)
    BY DEF AC!SaveEdit, AccountRowsInv, AccountsNumbered
  <2>2. asking[c] \in Editing
    BY <2>1, AccountKinds DEF AccountRowsInv, AccountsInv
  <2>. QED
    BY <2>1, <2>2 DEF PassMade, AC!Ready
<1>2. UNCHANGED <<requests, doubled, issued>>
  BY DEF AC!SaveEdit
<1>3. CASE AC!Becomes(c, AC!Ready) /\ UNCHANGED users
  <2>1. issued' \subseteq Tokens
    BY <1>2 DEF AccountRowsInv, AccountsNumbered
  <2>. QED
    BY <1>1, <1>2, <1>3, <2>1, GoesOnNumbered
<1>4. CASE /\ AC!Write(c, asking[c].u, asking[c].row)
           /\ ~ \E o \in AC!Others(asking[c].u) : users[o].name = asking[c].row.name
  <2>1. asking[c].u \in Uids /\ asking[c].row \in AccountRow
    BY <1>1 DEF Editing
  <2>2. /\ users' = [users EXCEPT ![asking[c].u] = asking[c].row]
        /\ asking' = [AC!Stale(asking[c].u) EXCEPT ![c] = AC!Ready]
    BY <1>4 DEF AC!Write
  <2>3. \A o \in AC!Others(asking[c].u) : users[o].name # asking[c].row.name
    BY <1>4
  <2>. QED
    BY <1>1, <1>2, <2>1, <2>2, <2>3, WritesNumbered, Zenon
<1>. QED
  BY <1>3, <1>4 DEF AC!SaveEdit

LEMMA RemoveNumbered ==
  ASSUME AccountRowsInv, NEW c \in Clients, AccountsInv', AC!Remove(c)
  PROVE  AccountRowsInv'
<1>1. asking[c] \in OneStep /\ asking[c].u \in Uids /\ PassMade(AC!Ready, requests)
  BY AccountKinds DEF AC!Remove, AccountRowsInv, AccountsInv, OneStep, PassMade, AC!Ready
<1>2. /\ users' = [users EXCEPT ![asking[c].u] = None]
      /\ asking' = [AC!Stale(asking[c].u) EXCEPT ![c] = AC!Ready]
      /\ UNCHANGED <<requests, doubled, issued>>
  BY DEF AC!Remove, AC!Write
<1>. QED
  BY <1>1, <1>2, WritesNumbered, Zenon

LEMMA SavePasswordNumbered ==
  ASSUME AccountRowsInv, NEW c \in Clients, AccountsInv', AC!SavePassword(c)
  PROVE  AccountRowsInv'
<1> DEFINE u == asking[c].u
           r == [asking[c] EXCEPT !.at = "mark"]
           wrote == [users[u] EXCEPT !.pass = asking[c].pass]
<1>1. /\ asking[c] \in Confirmation /\ u \in Uids /\ asking[c].pass \in 1 .. requests
      /\ requests \in Nat /\ asking[c].pass \in Nat /\ PassMade(r, requests)
  <2>1. asking[c].at = "reset" /\ PassMade(asking[c], requests) /\ requests \in Nat
    BY DEF AC!SavePassword, AccountRowsInv, AccountsNumbered
  <2>2. asking[c] \in Confirmation
    BY <2>1, AccountKinds DEF AccountRowsInv, AccountsInv, Confirms
  <2>3. r.at = "mark"
    BY <2>2 DEF Confirmation
  <2>4. PassMade(r, requests)
    BY <2>3 DEF PassMade
  <2>. QED
    BY <2>1, <2>2, <2>4 DEF PassMade, Confirmation
<1>2. UNCHANGED <<requests, doubled, issued>>
  BY DEF AC!SavePassword
<1>3. CASE users[u] = None
  <2>1. UNCHANGED users /\ AC!Becomes(c, r)
    BY <1>3 DEF AC!SavePassword
  <2>2. issued' \subseteq Tokens
    BY <1>2 DEF AccountRowsInv, AccountsNumbered
  <2> HIDE DEF r
  <2>. QED
    BY <1>1, <1>2, <2>1, <2>2, GoesOnNumbered
<1>4. CASE users[u] # None
  <2>1. users[u] \in AccountRow /\ u \in AC!Existing
    BY <1>1, <1>4 DEF AccountRowsInv, AccountsInv, AccountsKeyed, AC!Existing
  <2>2. wrote \in AccountRow /\ wrote.pass = asking[c].pass /\ wrote.name = users[u].name
    BY <1>1, <2>1 DEF AccountRow
  <2>3. users' = [users EXCEPT ![u].pass = asking[c].pass] /\ asking' = [AC!Stale(u) EXCEPT ![c].at = "mark"]
    BY <1>4 DEF AC!SavePassword
  <2>4. users' = [users EXCEPT ![u] = wrote]
    BY <2>3
  <2>5. asking' = [AC!Stale(u) EXCEPT ![c] = r]
    <3>1. AC!Stale(u)[c] = asking[c]
      BY <1>1, StaleMarks DEF AccountRowsInv, AccountsInv, AC!SavePassword
    <3>. QED
      BY <2>3, <3>1
  <2>6. \A o \in AC!Others(u) : users[o].name # wrote.name
    BY <2>1, <2>2 DEF AC!Others, AccountRowsInv, NamesOnce
  <2> HIDE DEF wrote, r, u
  <2>. QED
    BY <1>1, <1>2, <2>2, <2>4, <2>5, <2>6, WritesNumbered, Zenon
<1>. QED
  BY <1>3, <1>4

\* Requests that go on and write to no row.
LEMMA OthersNumbered ==
  ASSUME AccountRowsInv, NEW c \in Clients, AccountsInv',
         \/ AC!CheckName(c) \/ AC!Mail(c) \/ AC!FindUser(c) \/ AC!MarkUsed(c)
         \/ \E t \in Tokens : AC!CreateToken(c, t)
  PROVE  AccountRowsInv'
<1>0. /\ PassMade(asking[c], requests) /\ PassMade(AC!Ready, requests)
      /\ UNCHANGED <<users, requests, doubled>> /\ issued' \subseteq Tokens
  BY DEF AccountRowsInv, AccountsNumbered, PassMade, AC!Ready, AC!CheckName, AC!Mail, AC!FindUser, AC!MarkUsed, AC!CreateToken
<1>1. CASE AC!Becomes(c, AC!Ready)
  BY <1>0, <1>1, GoesOnNumbered
<1>2. CASE asking[c].at = "name" /\ AC!Becomes(c, [asking[c] EXCEPT !.at = "insert"])
  <2> DEFINE r == [asking[c] EXCEPT !.at = "insert"]
  <2>1. asking[c] \in Join
    BY <1>2, AccountKinds DEF AccountRowsInv, AccountsInv, JoinsIn
  <2>2. r.at = "insert"
    BY <2>1 DEF Join
  <2>3. PassMade(r, requests)
    BY <1>0, <1>2, <2>2 DEF PassMade
  <2> HIDE DEF r
  <2>. QED
    BY <1>0, <1>2, <2>3, GoesOnNumbered DEF r
<1>3. CASE /\ asking[c].at = "look"
           /\ AC!Becomes(c, [asking[c] EXCEPT !.at = "reset", !.row = users[asking[c].u]])
  <2> DEFINE r == [asking[c] EXCEPT !.at = "reset", !.row = users[asking[c].u]]
  <2>1. asking[c] \in Confirmation
    BY <1>3, AccountKinds DEF AccountRowsInv, AccountsInv, Confirms
  <2>2. r.at = "reset" /\ r.pass = asking[c].pass
    BY <2>1 DEF Confirmation
  <2>3. PassMade(r, requests)
    BY <1>0, <1>3, <2>2 DEF PassMade
  <2> HIDE DEF r
  <2>. QED
    BY <1>0, <1>3, <2>3, GoesOnNumbered DEF r
<1>4. CASE asking[c].at = "ask" /\ AC!Becomes(c, [asking[c] EXCEPT !.at = "mail"])
  <2> DEFINE r == [asking[c] EXCEPT !.at = "mail"]
  <2>1. asking[c] \in OneStep
    BY <1>4, AccountKinds DEF AccountRowsInv, AccountsInv
  <2>2. r.at = "mail"
    BY <2>1 DEF OneStep
  <2>3. PassMade(r, requests)
    BY <2>2 DEF PassMade
  <2> HIDE DEF r
  <2>. QED
    BY <1>0, <1>4, <2>3, GoesOnNumbered DEF r
<1>. QED
  BY <1>1, <1>2, <1>3, <1>4 DEF AC!CheckName, AC!Mail, AC!FindUser, AC!MarkUsed, AC!CreateToken

LEMMA RestNumbered ==
  ASSUME AccountRowsInv, AccountsInv', (\E t \in Tokens : AC!Expire(t)) \/ UNCHANGED accountsvars
  PROVE  AccountRowsInv'
<1>1. UNCHANGED <<users, requests, doubled, issued, asking>>
  BY DEF AC!Expire, accountsvars
<1>2. AC!Existing' = AC!Existing
  BY <1>1 DEF AC!Existing
<1>. QED
  BY <1>1, <1>2 DEF AccountRowsInv, AccountsNumbered, NamesOnce

LEMMA AccountRowsStay == ASSUME AccountRowsInv, [AC!Next]_accountsvars PROVE AccountRowsInv'
<1>0. AccountsInv'
  BY AccountsStay DEF AccountRowsInv
<1>1. ASSUME NEW c \in Clients, NEW n \in Names, AC!Register(c, n) \/ \E b \in BOOLEAN : AC!CreateUser(c, n, b)
      PROVE  AccountRowsInv'
  BY <1>0, <1>1, StartsNumbered
<1>2. ASSUME NEW c \in Clients, NEW u \in Uids,
             AC!UpdateMe(c, u) \/ AC!UpdateUser(c, u) \/ AC!DeleteUser(c, u) \/ AC!AskReset(c, u)
      PROVE  AccountRowsInv'
  BY <1>0, <1>2, EditNumbered, StartsNumbered
<1>3. ASSUME NEW c \in Clients, NEW t \in Tokens, AC!CreateToken(c, t) \/ AC!Confirm(c, t)
      PROVE  AccountRowsInv'
  BY <1>0, <1>3, StartsNumbered, OthersNumbered
<1>4. ASSUME NEW c \in Clients,
             \/ AC!CheckName(c) \/ AC!Insert(c) \/ AC!SaveEdit(c) \/ AC!Remove(c)
             \/ AC!Mail(c) \/ AC!FindUser(c) \/ AC!SavePassword(c) \/ AC!MarkUsed(c)
      PROVE  AccountRowsInv'
  BY <1>0, <1>4, OthersNumbered, InsertNumbered, SaveEditNumbered, RemoveNumbered, SavePasswordNumbered
<1>. QED
  BY <1>0, <1>1, <1>2, <1>3, <1>4, RestNumbered DEF AC!Next

\* The table is empty at first, and as the rows were numbered it is as TypeOK says.
LEMMA AccountRowsBegin == AC!Init => AccountRowsInv
<1> SUFFICES ASSUME AC!Init PROVE AccountRowsInv
  OBVIOUS
<1>1. AccountsInv /\ AC!Existing = {} /\ \A c \in Clients : PassMade(asking[c], requests)
  BY AccountsBegin DEF AC!Init, AC!Existing, PassMade, AC!Ready
<1>. QED
  BY <1>1, AccountsAssumption DEF AccountRowsInv, AccountsNumbered, NamesOnce, AC!Init, AccountRow

LEMMA AccountRowsRight == AccountRowsInv => AC!TypeOK
<1> SUFFICES ASSUME AccountRowsInv PROVE AC!TypeOK
  OBVIOUS
<1>1. users \in [Uids -> AC!Rows \cup {None}]
  <2>1. requests \in 0 .. MaxAccountRequests
    BY DEF AccountRowsInv, AccountsNumbered
  <2>2. \A u \in Uids : users[u] # None => users[u] \in AccountRow /\ users[u].pass \in 1 .. requests
    BY DEF AccountRowsInv, AccountsNumbered, AccountsInv, AccountsKeyed, AC!Existing
  <2>3. \A u \in Uids : users[u] # None => users[u] \in AC!Rows
    BY <2>1, <2>2, AccountsAssumption DEF AccountRow, AC!Rows
  <2>. QED
    BY <2>3 DEF AccountRowsInv, AccountsInv, AccountsKeyed
<1>2. unused \cap AC!Existing = {} /\ requests \in 0 .. MaxAccountRequests /\ doubled \subseteq Tokens
  BY DEF AccountRowsInv, AccountsInv, AccountsKeyed, AC!Existing, AccountsNumbered
<1>3. /\ valid \in [Tokens -> Uids \cup {None}] /\ issued \subseteq Tokens
      /\ \A t \in Tokens \ issued : valid[t] = None /\ uses[t] = 0
  BY DEF AccountRowsInv, AccountsInv, AccountsKeyed, AccountsNumbered
<1>. QED
  BY <1>1, <1>2, <1>3 DEF AC!TypeOK, AccountRowsInv, NamesOnce

\* The table, the tokens and the bound on requests are always as TypeOK says: a name is never
\* given twice, whoever edits or registers it at the same time (the unique keys are checked
\* once more in the save), an id is never used twice, and every password is one asked for.
THEOREM AccountsTyped == AC!Spec => []AC!TypeOK
<1>1. AccountRowsInv /\ [AC!Next]_(AC!vars) => AccountRowsInv'
  BY AccountRowsStay DEF AC!vars, accountsvars
<1>. QED
  BY <1>1, AccountRowsBegin, AccountRowsRight, PTL DEF AC!Spec

\* The accounts, their tokens and who becomes an administrator are as AccountsKept says:
\* whatever the number of clients, accounts, tokens and requests (auth/service.py,
\* user/service.py).
THEOREM AccountsAreKept == Spec => AccountsKept
<1>1. Init => AccountRowsInv
  BY AccountRowsBegin DEF Init
<1>2. AccountRowsInv /\ [Next]_vars => AccountRowsInv'
  BY Turns, AccountRowsStay
<1>3. AccountRowsInv => (turn = "accounts" => AC!TypeOK /\ AC!TokenOnce)
  BY AccountRowsRight, TokensRight DEF AccountRowsInv
<1>4. AccountRowsInv /\ [Next]_vars => [AC!FirstStep]_(AC!vars)
  BY Turns, FirstAdminStep DEF AccountRowsInv
<1>5. AccountRowsInv /\ [Next]_vars => [AC!AskedStep]_(AC!vars)
  BY Turns, EditsUndoStep DEF AccountRowsInv
<1>. QED
  BY <1>1, <1>2, <1>3, <1>4, <1>5, PTL DEF Spec, AccountsKept, AC!FirstIsAdmin, AC!OnlyEditsUndo
-----------------------------------------------------------------------------
(* Plugins: plugins/service.py, loader.py and startup.py.                   *)

PluginRows == [id : 0 .. MaxPluginRequests, v : PL!Versions, loaded : SUBSET PL!TypeNames]
PluginOps ==
    [at : {"idle"}]
    \cup [at : {"look"}, p : Plugins, v : PL!Versions]
    \cup [at : {"save"}, p : Plugins, v : PL!Versions, id : 0 .. MaxPluginRequests, new : BOOLEAN]
    \cup [at : {"note"}, p : Plugins, v : PL!Versions, id : 0 .. MaxPluginRequests, ts : SUBSET PL!TypeNames]
    \cup [at : {"load", "unload", "drop", "remove"}, p : Plugins, v : PL!Versions, id : 0 .. MaxPluginRequests]
FileStates == PL!Versions \cup {PL!Torn, Nothing}

PluginsTyped ==
    /\ dir \in [Plugins -> FileStates] /\ backup \in [Plugins -> FileStates]
    /\ row \in [Plugins -> PluginRows \cup {Nothing}]
    /\ types \in [PL!TypeNames -> Plugins \cup {"builtin", Nothing}]
    /\ ops \in [Admins -> PluginOps]
    /\ asked \in 0 .. MaxPluginRequests /\ loose \subseteq Plugins /\ hurt \subseteq Plugins

RowTypes(q) == IF row[q] = Nothing THEN {} ELSE row[q].loaded

\* A plugin about which no two requests overlapped has one at a time, and that one knows the
\* plugin's row.
OneRequest(q) ==
    q \notin loose \/ q \notin hurt =>
        /\ \A c, d \in PL!On(q) : c = d
        /\ \A c \in PL!On(q) :
            /\ ops[c].at = "save" => /\ ops[c].new <=> row[q] = Nothing
                                     /\ ~ops[c].new => row[q].id = ops[c].id
            /\ ops[c].at \in {"load", "note", "unload", "drop"} =>
                   row[q] # Nothing /\ row[q].id = ops[c].id /\ row[q].v = ops[c].v
            /\ ops[c].at = "remove" => row[q] = Nothing

\* Its types are those of its row; of what was loaded while its row is about to say so; none
\* once they are unloaded.
TypesRight(q) ==
    q \notin loose =>
        /\ (\A c \in PL!On(q) : ops[c].at \in {"look", "save", "load", "unload"})
              => PL!Of(q) = RowTypes(q)
        /\ \A c \in PL!On(q) :
            /\ ops[c].at = "note" => PL!Of(q) = ops[c].ts /\ ops[c].ts \subseteq Provides[q][ops[c].v]
            /\ ops[c].at \in {"drop", "remove"} => PL!Of(q) = {}
        /\ (\A c \in PL!On(q) : ops[c].at \in {"look", "save", "unload"}) /\ row[q] # Nothing
              => row[q].loaded \subseteq Provides[q][row[q].v]

\* Its files are those of its row, or will be; nothing is left aside.
FilesRight(q) ==
    q \notin hurt =>
        /\ backup[q] = Nothing
        /\ PL!On(q) = {} => IF row[q] = Nothing THEN dir[q] \in {Nothing, PL!Torn} ELSE dir[q] = row[q].v
        /\ \A c \in PL!On(q) :
            /\ ops[c].at \in {"look", "save"} => dir[q] = ops[c].v
            /\ ops[c].at \in {"load", "note", "unload", "drop"} => dir[q] = row[q].v

PluginRight(q) == OneRequest(q) /\ TypesRight(q) /\ FilesRight(q)
PluginsInv == PluginsTyped /\ \A q \in Plugins : PluginRight(q)

\* What a request holds at each of its steps.
LEMMA RequestKinds ==
  ASSUME PluginsTyped, NEW c \in Admins
  PROVE  /\ ops[c].at \in {"idle", "look", "save", "load", "note", "unload", "drop", "remove"}
         /\ ops[c].at # "idle" => ops[c].p \in Plugins /\ ops[c].v \in PL!Versions
         /\ ops[c].at = "look" => ops[c] = [at |-> "look", p |-> ops[c].p, v |-> ops[c].v]
         /\ ops[c].at \in {"save", "load", "note", "unload", "drop", "remove"}
                => ops[c].id \in 0 .. MaxPluginRequests
         /\ ops[c].at = "save" => ops[c].new \in BOOLEAN
         /\ ops[c].at = "note" => ops[c].ts \in SUBSET PL!TypeNames
         /\ ops[c].at \in {"load", "unload", "drop", "remove"} =>
                ops[c] = [at |-> ops[c].at, p |-> ops[c].p, v |-> ops[c].v, id |-> ops[c].id]
<1>1. ops[c] \in PluginOps
  BY DEF PluginsTyped
<1>. QED
  BY <1>1 DEF PluginOps

\* One request goes on.
LEMMA RequestGoesOn ==
  ASSUME PluginsTyped, NEW c \in Admins, NEW r \in PluginOps, ops' = [ops EXCEPT ![c] = r]
  PROVE  /\ ops' \in [Admins -> PluginOps] /\ ops'[c] = r
         /\ \A d \in Admins \ {c} : ops'[d] = ops[d]
         /\ \A q \in Plugins : PL!On(q)' = (PL!On(q) \ {c}) \cup
                                           (IF r.at # "idle" /\ r.p = q THEN {c} ELSE {})
<1>1. /\ ops' \in [Admins -> PluginOps] /\ ops'[c] = r /\ \A d \in Admins \ {c} : ops'[d] = ops[d]
  BY DEF PluginsTyped
<1>. QED
  BY <1>1 DEF PL!On

\* Another plugin stays as it is, or is known not to.
LEMMA OtherPlugin ==
  ASSUME NEW q \in Plugins, PluginRight(q), PL!On(q)' = PL!On(q),
         \A c \in PL!On(q) : ops'[c] = ops[c],
         dir'[q] = dir[q], backup'[q] = backup[q], row'[q] = row[q],
         loose \subseteq loose', hurt \subseteq hurt', q \in loose' \/ PL!Of(q)' = PL!Of(q)
  PROVE  PluginRight(q)'
<1>1. OneRequest(q)'
  BY DEF PluginRight, OneRequest
<1>2. TypesRight(q)'
  BY DEF PluginRight, TypesRight, RowTypes
<1>3. FilesRight(q)'
  BY DEF PluginRight, FilesRight
<1>. QED
  BY <1>1, <1>2, <1>3 DEF PluginRight

\* A request that is the only one about its plugin, or whose plugin is known to be amiss.
LEMMA OnlyRequest ==
  ASSUME PluginsInv, NEW c \in Admins, ops[c].at # "idle"
  PROVE  /\ ops[c].p \in Plugins /\ c \in PL!On(ops[c].p)
         /\ ops[c].p \notin loose \/ ops[c].p \notin hurt => PL!On(ops[c].p) = {c}
<1>1. ops[c].p \in Plugins
  BY RequestKinds, Zenon DEF PluginsInv
<1>2. c \in PL!On(ops[c].p)
  BY DEF PL!On
<1>3. OneRequest(ops[c].p)
  BY <1>1 DEF PluginsInv, PluginRight
<1>. QED
  BY <1>1, <1>2, <1>3 DEF OneRequest

\* A step of a request about p leaves the other plugins right.
LEMMA RightAfter ==
  ASSUME PluginsInv, NEW c \in Admins, NEW r \in PluginOps, ops' = [ops EXCEPT ![c] = r],
         NEW p \in Plugins, ops[c].at # "idle" => ops[c].p = p, r.at # "idle" => r.p = p,
         loose \subseteq loose', hurt \subseteq hurt',
         \A q \in Plugins \ {p} :
             /\ dir'[q] = dir[q] /\ backup'[q] = backup[q] /\ row'[q] = row[q]
             /\ q \in loose' \/ PL!Of(q)' = PL!Of(q),
         PluginsTyped', PluginRight(p)'
  PROVE  PluginsInv'
<1>1. /\ ops'[c] = r /\ \A d \in Admins \ {c} : ops'[d] = ops[d]
      /\ \A q \in Plugins : PL!On(q)' = (PL!On(q) \ {c}) \cup
                                        (IF r.at # "idle" /\ r.p = q THEN {c} ELSE {})
  BY RequestGoesOn, Zenon DEF PluginsInv
<1>2. ASSUME NEW q \in Plugins \ {p}
      PROVE  PluginRight(q)'
  <2>1. c \notin PL!On(q) /\ PL!On(q)' = PL!On(q) /\ PL!On(q) \subseteq Admins
    BY <1>1 DEF PL!On
  <2>2. \A d \in PL!On(q) : ops'[d] = ops[d]
    BY <1>1, <2>1
  <2>3. PluginRight(q)
    BY DEF PluginsInv
  <2>. QED
    BY <2>1, <2>2, <2>3, OtherPlugin
<1>. QED
  BY <1>2 DEF PluginsInv

\* What is installed, and removed, takes its types away from nobody who is not known.
LEMMA Robbing ==
  ASSUME PluginsTyped, NEW p \in Plugins, NEW ts, NEW x \in Plugins \cup {Nothing},
         x = p \/ x = Nothing,
         types' = [t \in PL!TypeNames |-> IF t \in ts THEN x ELSE types[t]],
         NEW q \in Plugins \ {p}, q \notin PL!Robbed(p, ts)
  PROVE  PL!Of(q)' = PL!Of(q)
<1>1. q # Nothing
  BY PluginsAssumption
<1>2. PL!Of(q) \cap ts = {}
  BY DEF PL!Robbed
<1>. QED
  BY <1>1, <1>2 DEF PL!Of, PluginsTyped

LEMMA LookRight ==
  ASSUME PluginsInv, NEW c \in Admins, PL!Look(c)
  PROVE  PluginsInv'
<1>1. /\ ops[c].at = "look" /\ UNCHANGED <<dir, backup, row, types, asked, loose, hurt>>
      /\ ops[c].p \in Plugins /\ ops[c].v \in PL!Versions
  BY RequestKinds, Zenon DEF PluginsInv, PL!Look, PL!At
<1>2. PICK p \in Plugins : p = ops[c].p
  BY <1>1
<1> DEFINE made == [at |-> "save", p |-> p, v |-> ops[c].v,
                    id |-> IF row[p] = Nothing THEN 0 ELSE row[p].id, new |-> row[p] = Nothing]
<1>3. made.id \in 0 .. MaxPluginRequests /\ made.new \in BOOLEAN
  <2>1. row[p] \in PluginRows \cup {Nothing}
    BY <1>2 DEF PluginsInv, PluginsTyped
  <2>. QED
    BY <2>1, PluginsAssumption DEF PluginRows
<1>4. made \in PluginOps
  BY <1>1, <1>3 DEF PluginOps
<1>5. PICK r \in PluginOps : r = made
  BY <1>4
<1>6. /\ r.at = "save" /\ r.p = p /\ r.v = ops[c].v /\ r.new = (row[p] = Nothing)
      /\ row[p] # Nothing => r.id = row[p].id
  BY <1>5
<1>7. ops' = [ops EXCEPT ![c] = r]
  BY <1>2, <1>5 DEF PL!Look
<1> HIDE DEF made
<1>8. /\ c \in PL!On(p) /\ (p \notin loose \/ p \notin hurt => PL!On(p) = {c})
      /\ PL!On(p)' = PL!On(p) /\ ops'[c] = r
  <2>1. PL!On(p)' = (PL!On(p) \ {c}) \cup {c} /\ ops'[c] = r
    BY <1>6, <1>7, RequestGoesOn, Zenon DEF PluginsInv
  <2>2. c \in PL!On(p) /\ (p \notin loose \/ p \notin hurt => PL!On(p) = {c})
    BY <1>1, <1>2, OnlyRequest
  <2>. QED
    BY <2>1, <2>2
<1>9. OneRequest(p) /\ TypesRight(p) /\ FilesRight(p)
  BY DEF PluginsInv, PluginRight
<1>10. \A q \in Plugins : PL!Of(q)' = PL!Of(q)
  BY <1>1 DEF PL!Of
<1>11. PluginsTyped'
  BY <1>1, <1>7 DEF PluginsInv, PluginsTyped
<1>12. OneRequest(p)'
  <2>1. r.new <=> row'[p] = Nothing
    BY <1>1, <1>6, Zenon
  <2>2. ~r.new => row'[p].id = r.id
    BY <1>1, <1>6, Zenon
  <2>. QED
    BY <1>1, <1>6, <1>8, <2>1, <2>2 DEF OneRequest
<1>13. TypesRight(p)'
  BY <1>1, <1>6, <1>8, <1>9, <1>10 DEF TypesRight, RowTypes
<1>14. FilesRight(p)'
  BY <1>1, <1>6, <1>8, <1>9 DEF FilesRight
<1>. QED
  BY <1>1, <1>2, <1>6, <1>7, <1>10, <1>11, <1>12, <1>13, <1>14, RightAfter, Zenon DEF PluginRight

\* What is known when a request takes its next step, and whose steps are left then.
LEMMA Continues ==
  ASSUME PluginsInv, NEW c \in Admins, ops[c].at # "idle", NEW p \in Plugins, p = ops[c].p,
         NEW r \in PluginOps, ops' = [ops EXCEPT ![c] = r], r.at # "idle" => r.p = p
  PROVE  /\ ops'[c] = r /\ c \in PL!On(p)
         /\ p \notin loose \/ p \notin hurt =>
                /\ PL!On(p) = {c}
                /\ r.at = "idle" => PL!On(p)' = {}
                /\ r.at # "idle" => PL!On(p)' = {c}
         /\ OneRequest(p) /\ TypesRight(p) /\ FilesRight(p)
<1>1. ops'[c] = r /\ PL!On(p)' = (PL!On(p) \ {c}) \cup (IF r.at # "idle" /\ r.p = p THEN {c} ELSE {})
  BY RequestGoesOn, Zenon DEF PluginsInv
<1>2. c \in PL!On(p) /\ (p \notin loose \/ p \notin hurt => PL!On(p) = {c})
  BY OnlyRequest
<1>3. OneRequest(p) /\ TypesRight(p) /\ FilesRight(p)
  BY DEF PluginsInv, PluginRight
<1>. QED
  BY <1>1, <1>2, <1>3

LEMMA SaveRight ==
  ASSUME PluginsInv, NEW c \in Admins, PL!Save(c)
  PROVE  PluginsInv'
<1>1. /\ ops[c].at = "save" /\ UNCHANGED <<dir, backup, types, asked, loose, hurt>>
      /\ ops[c].p \in Plugins /\ ops[c].v \in PL!Versions /\ ops[c].id \in 0 .. MaxPluginRequests
      /\ ops[c].new \in BOOLEAN
  BY RequestKinds, Zenon DEF PluginsInv, PL!Save, PL!At
<1>2. PICK p \in Plugins : p = ops[c].p
  BY <1>1
<1>3. /\ PluginsTyped /\ row \in [Plugins -> PluginRows \cup {Nothing}] /\ asked \in 0 .. MaxPluginRequests
      /\ \A q \in Plugins : PL!Of(q)' = PL!Of(q)
  BY <1>1 DEF PluginsInv, PluginsTyped, PL!Of
<1>4. CASE ops[c].new /\ row[p] # Nothing
  <2>1. row' = row /\ ops' = [ops EXCEPT ![c] = PL!Idle]
    BY <1>2, <1>4 DEF PL!Save, PL!Ends
  <2>2. PICK r \in PluginOps : r = PL!Idle
    BY Zenon DEF PluginOps, PL!Idle
  <2>3. r.at = "idle"
    BY <2>2 DEF PL!Idle
  <2>4. PluginsTyped'
    BY <1>1, <1>3, <2>1, <2>2 DEF PluginsTyped
  <2>5. ~(p \notin loose \/ p \notin hurt)
    <3>1. ops[c].at # "idle" /\ ops' = [ops EXCEPT ![c] = r]
      BY <1>1, <2>1, <2>2
    <3>2. OneRequest(p) /\ c \in PL!On(p)
      BY <1>2, <2>3, <3>1, Continues, Zenon
    <3>. QED
      BY <1>1, <1>4, <3>2 DEF OneRequest
  <2>6. PluginRight(p)'
    BY <1>1, <2>5 DEF PluginRight, OneRequest, TypesRight, FilesRight
  <2>. QED
    BY <1>1, <1>2, <1>3, <2>1, <2>2, <2>3, <2>4, <2>6, RightAfter, Zenon
<1>5. CASE ~(ops[c].new /\ row[p] # Nothing)
  <2> DEFINE made == [at |-> "load", p |-> p, v |-> ops[c].v,
                      id |-> IF ops[c].new THEN asked ELSE ops[c].id]
  <2>1. made \in PluginOps
    BY <1>1, <1>3 DEF PluginOps
  <2>2. PICK r \in PluginOps : r = made
    BY <2>1
  <2>3. /\ r.at = "load" /\ r.p = p /\ r.v = ops[c].v
        /\ r.id = IF ops[c].new THEN asked ELSE ops[c].id
    BY <2>2
  <2>5. ops' = [ops EXCEPT ![c] = r]
    BY <1>2, <1>5, <2>2 DEF PL!Save
  <2> HIDE DEF made
  <2>6. row' = IF ops[c].new THEN [row EXCEPT ![p] = [id |-> asked, v |-> ops[c].v, loaded |-> {}]]
               ELSE IF row[p] # Nothing /\ row[p].id = ops[c].id THEN [row EXCEPT ![p].v = ops[c].v]
               ELSE row
    BY <1>2, <1>5 DEF PL!Save
  <2>7. row[p] # Nothing => row[p] \in PluginRows
    BY <1>3
  <2>8. /\ row' \in [Plugins -> PluginRows \cup {Nothing}]
        /\ \A q \in Plugins \ {p} : row'[q] = row[q]
        /\ ops[c].new => row'[p] = [id |-> asked, v |-> ops[c].v, loaded |-> {}]
        /\ ~ops[c].new /\ row[p] # Nothing /\ row[p].id = ops[c].id =>
               row'[p] = [row[p] EXCEPT !.v = ops[c].v]
    <3>1. [id |-> asked, v |-> ops[c].v, loaded |-> {}] \in PluginRows
      BY <1>1, <1>3 DEF PluginRows
    <3>2. row[p] # Nothing => [row[p] EXCEPT !.v = ops[c].v] \in PluginRows
      BY <1>1, <2>7 DEF PluginRows
    <3>3. CASE ops[c].new
      BY <1>3, <2>6, <3>1, <3>3
    <3>4. CASE ~ops[c].new
      BY <1>3, <2>6, <3>2, <3>4
    <3>. QED
      BY <3>3, <3>4
  <2>9. PluginsTyped'
    BY <1>1, <1>3, <2>5, <2>8 DEF PluginsTyped
  <2>10. Nothing \notin PluginRows
    BY PluginsAssumption DEF PluginRows, PL!Versions, PL!TypeNames
  <2>11. ASSUME p \notin loose \/ p \notin hurt
         PROVE  /\ row'[p] # Nothing /\ row'[p].id = r.id /\ row'[p].v = ops[c].v
                /\ RowTypes(p)' = RowTypes(p)
    <3>1. /\ ops[c].new <=> row[p] = Nothing
          /\ ~ops[c].new => row[p].id = ops[c].id
      BY <1>1, <1>2, <2>3, <2>5, <2>11, Continues, Zenon DEF OneRequest
    <3>2. CASE ops[c].new
      <4>1. row'[p] = [id |-> asked, v |-> ops[c].v, loaded |-> {}] /\ row'[p] \in PluginRows
        BY <1>1, <1>3, <2>8, <3>2 DEF PluginRows
      <4>. QED
        BY <2>3, <2>10, <3>1, <3>2, <4>1 DEF RowTypes
    <3>3. CASE ~ops[c].new
      <4>1. row'[p] = [row[p] EXCEPT !.v = ops[c].v] /\ row[p] \in PluginRows /\ row[p] # Nothing
        BY <2>7, <2>8, <3>1, <3>3
      <4>2. /\ row'[p] \in PluginRows /\ row'[p].v = ops[c].v /\ row'[p].id = row[p].id
            /\ row'[p].loaded = row[p].loaded
        BY <1>1, <4>1 DEF PluginRows
      <4>. QED
        BY <2>3, <2>10, <3>1, <3>3, <4>1, <4>2 DEF RowTypes
    <3>. QED
      BY <3>2, <3>3
  <2>12. /\ ops'[c] = r /\ OneRequest(p) /\ TypesRight(p) /\ FilesRight(p)
         /\ p \notin loose \/ p \notin hurt => PL!On(p) = {c} /\ PL!On(p)' = {c}
    BY <1>1, <1>2, <2>3, <2>5, Continues, Zenon
  <2>13. OneRequest(p)'
    BY <1>1, <2>3, <2>11, <2>12 DEF OneRequest
  <2>14. TypesRight(p)'
    BY <1>1, <1>3, <2>3, <2>11, <2>12 DEF TypesRight
  <2>15. FilesRight(p)'
    BY <1>1, <2>3, <2>11, <2>12 DEF FilesRight
  <2>16. PluginRight(p)'
    BY <2>13, <2>14, <2>15 DEF PluginRight
  <2>17. r.at # "idle" => r.p = p
    BY <2>3
  <2>18. \A q \in Plugins \ {p} :
             /\ dir'[q] = dir[q] /\ backup'[q] = backup[q] /\ row'[q] = row[q]
             /\ (q \in loose' \/ PL!Of(q)' = PL!Of(q))
    BY <1>1, <1>3, <2>8
  <2>19. loose \subseteq loose' /\ hurt \subseteq hurt'
    BY <1>1
  <2>. QED
    BY <1>2, <2>5, <2>9, <2>16, <2>17, <2>18, <2>19, RightAfter, Zenon
<1>. QED
  BY <1>4, <1>5

LEMMA LoadRight ==
  ASSUME PluginsInv, NEW c \in Admins, PL!Load(c)
  PROVE  PluginsInv'
<1>1. /\ ops[c].at = "load" /\ UNCHANGED <<dir, backup, row, asked, hurt>>
      /\ ops[c].p \in Plugins /\ ops[c].v \in PL!Versions /\ ops[c].id \in 0 .. MaxPluginRequests
  BY RequestKinds, Zenon DEF PluginsInv, PL!Load, PL!At
<1>2. PICK p \in Plugins : p = ops[c].p
  BY <1>1
<1>3. PICK ts \in SUBSET PL!Loadable(p, ops[c].v) :
        /\ types' = PL!Registered(p, ts)
        /\ ops' = [ops EXCEPT ![c] = [at |-> "note", p |-> p, v |-> ops[c].v, id |-> ops[c].id,
                                      ts |-> IF ts = Provides[p][ops[c].v] THEN Provides[p][ops[c].v] ELSE {}]]
        /\ loose' = loose \cup PL!Robbed(p, ts)
                          \cup (IF \/ ts # Provides[p][ops[c].v]
                                   \/ ~(PL!Of(p) \subseteq Provides[p][ops[c].v])
                                   \/ PL!Robbed(p, ts) # {}
                                THEN {p} ELSE {})
  BY <1>2, Zenon DEF PL!Load
<1>4. Provides[p][ops[c].v] \subseteq PL!TypeNames /\ ts \subseteq Provides[p][ops[c].v]
  BY <1>1 DEF PL!TypeNames, PL!Loadable
<1> DEFINE all == Provides[p][ops[c].v]
           made == [at |-> "note", p |-> p, v |-> ops[c].v, id |-> ops[c].id,
                    ts |-> IF ts = all THEN all ELSE {}]
<1>5. made \in PluginOps
  <2>1. (IF ts = all THEN all ELSE {}) \in SUBSET PL!TypeNames
    BY <1>4
  <2>. QED
    BY <1>1, <2>1 DEF PluginOps
<1>6. PICK r \in PluginOps : r = made
  BY <1>5
<1>7. /\ r.at = "note" /\ r.p = p /\ r.v = ops[c].v /\ r.id = ops[c].id
      /\ ts = all => r.ts = all
  BY <1>6
<1>8. ops' = [ops EXCEPT ![c] = r]
  BY <1>3, <1>6
<1>9. /\ loose \subseteq loose' /\ PL!Robbed(p, ts) \subseteq loose' /\ loose' \subseteq Plugins
      /\ p \notin loose' => p \notin loose /\ ts = all /\ PL!Of(p) \subseteq all
  BY <1>3 DEF PluginsInv, PluginsTyped, PL!Robbed
<1> HIDE DEF made, all
<1>10. PluginsTyped'
  <2>1. types' \in [PL!TypeNames -> Plugins \cup {"builtin", Nothing}]
    BY <1>3 DEF PluginsInv, PluginsTyped, PL!Registered
  <2>. QED
    BY <1>1, <1>8, <1>9, <2>1 DEF PluginsInv, PluginsTyped
<1>11. /\ ops'[c] = r /\ c \in PL!On(p) /\ OneRequest(p) /\ TypesRight(p) /\ FilesRight(p)
       /\ p \notin loose \/ p \notin hurt => PL!On(p) = {c} /\ PL!On(p)' = {c}
  BY <1>1, <1>2, <1>7, <1>8, Continues, Zenon
<1>12. \A q \in Plugins \ {p} : q \in loose' \/ PL!Of(q)' = PL!Of(q)
  <2>1. types' = [t \in PL!TypeNames |-> IF t \in ts THEN p ELSE types[t]]
    BY <1>3 DEF PL!Registered
  <2>2. \A q \in Plugins \ {p} : q \notin PL!Robbed(p, ts) => PL!Of(q)' = PL!Of(q)
    BY <2>1, Robbing DEF PluginsInv
  <2>. QED
    BY <1>9, <2>2
<1>13. p \notin loose' => PL!Of(p)' = all
  <2>1. ts = all => PL!Of(p)' = all \cup PL!Of(p)
    BY <1>3, <1>4 DEF PL!Of, PL!Registered, all
  <2>. QED
    BY <1>9, <2>1
<1>14. OneRequest(p)'
  BY <1>1, <1>7, <1>9, <1>11 DEF OneRequest
<1>15. TypesRight(p)'
  BY <1>1, <1>7, <1>9, <1>11, <1>13 DEF TypesRight, all
<1>16. FilesRight(p)'
  BY <1>1, <1>7, <1>11 DEF FilesRight
<1>17. PluginRight(p)'
  BY <1>14, <1>15, <1>16 DEF PluginRight
<1>. QED
  BY <1>1, <1>2, <1>7, <1>8, <1>9, <1>10, <1>12, <1>17, RightAfter, Zenon

LEMMA NoteRight ==
  ASSUME PluginsInv, NEW c \in Admins, PL!Note(c)
  PROVE  PluginsInv'
<1>1. /\ ops[c].at = "note" /\ UNCHANGED <<dir, backup, types, asked, loose, hurt>>
      /\ ops[c].p \in Plugins /\ ops[c].v \in PL!Versions /\ ops[c].id \in 0 .. MaxPluginRequests
      /\ ops[c].ts \in SUBSET PL!TypeNames
  BY RequestKinds, Zenon DEF PluginsInv, PL!Note, PL!At
<1>2. PICK p \in Plugins : p = ops[c].p
  BY <1>1
<1>3. PICK r \in PluginOps : r = PL!Idle
  BY Zenon DEF PluginOps, PL!Idle
<1>4. r.at = "idle" /\ ops' = [ops EXCEPT ![c] = r]
  BY <1>3 DEF PL!Idle, PL!Note, PL!Ends
<1> DEFINE made == [id |-> ops[c].id, v |-> ops[c].v, loaded |-> ops[c].ts]
<1>5. row' = IF row[p] # Nothing /\ row[p].id = ops[c].id THEN [row EXCEPT ![p] = made] ELSE row
  BY <1>2 DEF PL!Note
<1>6. made \in PluginRows /\ made.v = ops[c].v /\ made.loaded = ops[c].ts /\ made # Nothing
  <2>1. made \in PluginRows
    BY <1>1 DEF PluginRows
  <2>2. Nothing \notin PluginRows
    BY PluginsAssumption DEF PluginRows, PL!Versions, PL!TypeNames
  <2>. QED
    BY <2>1, <2>2
<1> HIDE DEF made
<1>7. /\ row' \in [Plugins -> PluginRows \cup {Nothing}] /\ \A q \in Plugins \ {p} : row'[q] = row[q]
      /\ row[p] # Nothing /\ row[p].id = ops[c].id => row'[p] = made
  BY <1>5, <1>6 DEF PluginsInv, PluginsTyped
<1>8. PluginsTyped'
  BY <1>1, <1>4, <1>7 DEF PluginsInv, PluginsTyped
<1>9. /\ c \in PL!On(p) /\ OneRequest(p) /\ TypesRight(p) /\ FilesRight(p)
      /\ p \notin loose \/ p \notin hurt => PL!On(p) = {c} /\ PL!On(p)' = {}
  BY <1>1, <1>2, <1>4, Continues, Zenon
<1>10. \A q \in Plugins : PL!Of(q)' = PL!Of(q)
  BY <1>1 DEF PL!Of
<1>11. p \notin loose \/ p \notin hurt => row'[p] = made /\ row[p].v = ops[c].v
  BY <1>1, <1>7, <1>9 DEF OneRequest
<1>12. OneRequest(p)'
  BY <1>1, <1>9 DEF OneRequest
<1>13. TypesRight(p)'
  BY <1>1, <1>6, <1>9, <1>10, <1>11 DEF TypesRight, RowTypes
<1>14. FilesRight(p)'
  BY <1>1, <1>6, <1>9, <1>11 DEF FilesRight
<1>15. PluginRight(p)'
  BY <1>12, <1>13, <1>14 DEF PluginRight
<1>. QED
  BY <1>1, <1>2, <1>4, <1>7, <1>8, <1>10, <1>15, RightAfter, Zenon

LEMMA UnloadRight ==
  ASSUME PluginsInv, NEW c \in Admins, PL!Unload(c)
  PROVE  PluginsInv'
<1>1. /\ ops[c].at = "unload" /\ UNCHANGED <<dir, backup, row, asked, hurt>>
      /\ ops[c].p \in Plugins /\ ops[c].v \in PL!Versions /\ ops[c].id \in 0 .. MaxPluginRequests
      /\ ops[c] = [at |-> ops[c].at, p |-> ops[c].p, v |-> ops[c].v, id |-> ops[c].id]
  BY RequestKinds, Zenon DEF PluginsInv, PL!Unload, PL!At
<1>2. PICK p \in Plugins : p = ops[c].p
  BY <1>1
<1> DEFINE made == [at |-> "drop", p |-> p, v |-> ops[c].v, id |-> ops[c].id]
<1>3. made \in PluginOps
  BY <1>1 DEF PluginOps
<1>4. PICK r \in PluginOps : r = made
  BY <1>3
<1>5. r.at = "drop" /\ r.p = p /\ r.v = ops[c].v /\ r.id = ops[c].id
  BY <1>4
<1>6. ops' = [ops EXCEPT ![c] = r]
  <2>1. ops' = [ops EXCEPT ![c].at = "drop"]
    BY DEF PL!Unload, PL!Goes
  <2>2. [ops[c] EXCEPT !.at = "drop"] = made
    BY <1>1, <1>2
  <2>. QED
    BY <1>4, <2>1, <2>2, Zenon DEF PluginsInv, PluginsTyped
<1> HIDE DEF made
<1>7. /\ ops'[c] = r /\ c \in PL!On(p) /\ OneRequest(p) /\ TypesRight(p) /\ FilesRight(p)
      /\ p \notin loose \/ p \notin hurt => PL!On(p) = {c} /\ PL!On(p)' = {c}
  BY <1>1, <1>2, <1>5, <1>6, Continues, Zenon
<1> DEFINE ts == Provides[p][ops[c].v]
<1>8. /\ types' = [t \in PL!TypeNames |-> IF t \in ts THEN Nothing ELSE types[t]]
      /\ loose' = loose \cup PL!Robbed(p, ts) /\ p \notin PL!Robbed(p, ts)
  BY <1>2 DEF PL!Unload, PL!Robbed
<1>9. PluginsTyped'
  BY <1>1, <1>6, <1>8 DEF PluginsInv, PluginsTyped, PL!Robbed
<1>10. \A q \in Plugins \ {p} : q \in loose' \/ PL!Of(q)' = PL!Of(q)
  BY <1>8, Robbing DEF PluginsInv
<1>11. p \notin loose' => PL!Of(p)' = {}
  <2>1. p \notin loose' => PL!Of(p) \subseteq ts
    BY <1>1, <1>7, <1>8 DEF OneRequest, TypesRight, RowTypes
  <2>2. p # Nothing
    BY PluginsAssumption
  <2>. QED
    BY <1>8, <2>1, <2>2 DEF PL!Of
<1>12. OneRequest(p)'
  BY <1>1, <1>5, <1>7, <1>8 DEF OneRequest
<1>13. TypesRight(p)'
  BY <1>1, <1>5, <1>7, <1>8, <1>11 DEF TypesRight
<1>14. FilesRight(p)'
  BY <1>1, <1>5, <1>7, <1>8 DEF FilesRight
<1>15. PluginRight(p)'
  BY <1>12, <1>13, <1>14 DEF PluginRight
<1>. QED
  BY <1>1, <1>2, <1>5, <1>6, <1>8, <1>9, <1>10, <1>15, RightAfter, Zenon

LEMMA DropRowRight ==
  ASSUME PluginsInv, NEW c \in Admins, PL!DropRow(c)
  PROVE  PluginsInv'
<1>1. /\ ops[c].at = "drop" /\ UNCHANGED <<dir, backup, types, asked, loose, hurt>>
      /\ ops[c].p \in Plugins /\ ops[c].v \in PL!Versions /\ ops[c].id \in 0 .. MaxPluginRequests
      /\ ops[c] = [at |-> ops[c].at, p |-> ops[c].p, v |-> ops[c].v, id |-> ops[c].id]
  BY RequestKinds, Zenon DEF PluginsInv, PL!DropRow, PL!At
<1>2. PICK p \in Plugins : p = ops[c].p
  BY <1>1
<1> DEFINE made == [at |-> "remove", p |-> p, v |-> ops[c].v, id |-> ops[c].id]
<1>3. made \in PluginOps
  BY <1>1 DEF PluginOps
<1>4. PICK r \in PluginOps : r = made
  BY <1>3
<1>5. r.at = "remove" /\ r.p = p /\ r.v = ops[c].v /\ r.id = ops[c].id
  BY <1>4
<1>6. ops' = [ops EXCEPT ![c] = r]
  <2>1. ops' = [ops EXCEPT ![c].at = "remove"]
    BY DEF PL!DropRow, PL!Goes
  <2>2. [ops[c] EXCEPT !.at = "remove"] = made
    BY <1>1, <1>2
  <2>. QED
    BY <1>4, <2>1, <2>2, Zenon DEF PluginsInv, PluginsTyped
<1> HIDE DEF made
<1>7. /\ ops'[c] = r /\ c \in PL!On(p) /\ OneRequest(p) /\ TypesRight(p) /\ FilesRight(p)
      /\ p \notin loose \/ p \notin hurt => PL!On(p) = {c} /\ PL!On(p)' = {c}
  BY <1>1, <1>2, <1>5, <1>6, Continues, Zenon
<1>8. row' = IF row[p] # Nothing /\ row[p].id = ops[c].id THEN [row EXCEPT ![p] = Nothing] ELSE row
  BY <1>2 DEF PL!DropRow
<1>9. /\ row' \in [Plugins -> PluginRows \cup {Nothing}] /\ \A q \in Plugins \ {p} : row'[q] = row[q]
      /\ row[p] # Nothing /\ row[p].id = ops[c].id => row'[p] = Nothing
  BY <1>8 DEF PluginsInv, PluginsTyped
<1>10. PluginsTyped'
  BY <1>1, <1>6, <1>9 DEF PluginsInv, PluginsTyped
<1>11. \A q \in Plugins : PL!Of(q)' = PL!Of(q)
  BY <1>1 DEF PL!Of
<1>12. p \notin loose \/ p \notin hurt => row'[p] = Nothing
  BY <1>1, <1>7, <1>9 DEF OneRequest
<1>13. OneRequest(p)'
  BY <1>1, <1>5, <1>7, <1>12 DEF OneRequest
<1>14. TypesRight(p)'
  BY <1>1, <1>5, <1>7, <1>11, <1>12 DEF TypesRight
<1>15. FilesRight(p)'
  BY <1>1, <1>5, <1>7 DEF FilesRight
<1>16. PluginRight(p)'
  BY <1>13, <1>14, <1>15 DEF PluginRight
<1>. QED
  BY <1>1, <1>2, <1>5, <1>6, <1>9, <1>10, <1>11, <1>16, RightAfter, Zenon

LEMMA RemoveFilesRight ==
  ASSUME PluginsInv, NEW c \in Admins, PL!RemoveFiles(c)
  PROVE  PluginsInv'
<1>1. /\ ops[c].at = "remove" /\ UNCHANGED <<backup, row, types, asked, loose>>
      /\ ops[c].p \in Plugins /\ ops[c].v \in PL!Versions /\ ops[c].id \in 0 .. MaxPluginRequests
      /\ ops[c] = [at |-> ops[c].at, p |-> ops[c].p, v |-> ops[c].v, id |-> ops[c].id]
  BY RequestKinds, Zenon DEF PluginsInv, PL!RemoveFiles, PL!At
<1>2. PICK p \in Plugins : p = ops[c].p
  BY <1>1
<1>3. PICK r \in PluginOps : r = PL!Idle
  BY Zenon DEF PluginOps, PL!Idle
<1>4. r.at = "idle" /\ ops' = [ops EXCEPT ![c] = r]
  BY <1>3 DEF PL!Idle, PL!RemoveFiles, PL!Ends
<1>5. PICK left \in FileStates :
        /\ dir' = [dir EXCEPT ![p] = left]
        /\ hurt' = IF left = Nothing THEN hurt ELSE hurt \cup {p}
  BY <1>2 DEF PL!RemoveFiles, PluginsInv, PluginsTyped, FileStates
<1>6. PluginsTyped'
  BY <1>1, <1>4, <1>5 DEF PluginsInv, PluginsTyped, FileStates
<1>7. /\ c \in PL!On(p) /\ OneRequest(p) /\ TypesRight(p) /\ FilesRight(p)
      /\ p \notin loose \/ p \notin hurt => PL!On(p) = {c} /\ PL!On(p)' = {}
  BY <1>1, <1>2, <1>4, Continues, Zenon
<1>8. \A q \in Plugins : PL!Of(q)' = PL!Of(q)
  BY <1>1 DEF PL!Of
<1>9. dir'[p] = left /\ (\A q \in Plugins \ {p} : dir'[q] = dir[q]) /\ hurt \subseteq hurt'
  BY <1>5 DEF PluginsInv, PluginsTyped
<1>10. p \notin loose \/ p \notin hurt => row'[p] = Nothing
  BY <1>1, <1>7 DEF OneRequest
<1>11. OneRequest(p)'
  BY <1>1, <1>7, <1>9 DEF OneRequest
<1>12. TypesRight(p)'
  BY <1>1, <1>7, <1>8, <1>10 DEF TypesRight, RowTypes
<1>13. FilesRight(p)'
  BY <1>1, <1>5, <1>7, <1>9, <1>10 DEF FilesRight
<1>14. PluginRight(p)'
  BY <1>11, <1>12, <1>13 DEF PluginRight
<1>. QED
  BY <1>1, <1>2, <1>4, <1>6, <1>8, <1>9, <1>14, RightAfter, Zenon

\* A query that fails.
LEMMA QueryFailsRight ==
  ASSUME PluginsInv, NEW c \in Admins, PL!QueryFails(c)
  PROVE  PluginsInv'
<1>1. ops[c].at \in {"look", "save", "note", "drop"} /\ UNCHANGED <<dir, backup, row, types, asked>>
      /\ ops[c].p \in Plugins
  BY RequestKinds, Zenon DEF PluginsInv, PL!QueryFails
<1>2. PICK p \in Plugins : p = ops[c].p
  BY <1>1
<1>3. PICK r \in PluginOps : r = PL!Idle
  BY Zenon DEF PluginOps, PL!Idle
<1>4. r.at = "idle" /\ ops' = [ops EXCEPT ![c] = r] /\ ops[c].at # "idle"
  BY <1>1, <1>3 DEF PL!Idle, PL!QueryFails, PL!Ends
<1>5. /\ ops[c].at \in {"look", "save"} => hurt' = hurt \cup {p} /\ loose' = loose
      /\ ops[c].at \in {"note", "drop"} => loose' = loose \cup {p} /\ hurt' = hurt
  BY <1>2 DEF PL!QueryFails
<1>6. loose \subseteq loose' /\ hurt \subseteq hurt' /\ loose' \subseteq Plugins /\ hurt' \subseteq Plugins
  BY <1>1, <1>5 DEF PluginsInv, PluginsTyped
<1>7. PluginsTyped'
  BY <1>1, <1>4, <1>6 DEF PluginsInv, PluginsTyped
<1>8. /\ c \in PL!On(p) /\ OneRequest(p) /\ TypesRight(p) /\ FilesRight(p)
      /\ p \notin loose \/ p \notin hurt => PL!On(p) = {c} /\ PL!On(p)' = {}
  BY <1>2, <1>4, Continues, Zenon
<1>9. \A q \in Plugins : PL!Of(q)' = PL!Of(q)
  BY <1>1 DEF PL!Of
<1>10. OneRequest(p)'
  BY <1>6, <1>8 DEF OneRequest
<1>11. TypesRight(p)'
  <2>1. SUFFICES ASSUME p \notin loose'
                 PROVE  TypesRight(p)'
    BY DEF TypesRight
  <2>2. ops[c].at \in {"look", "save"} /\ PL!On(p) = {c} /\ PL!On(p)' = {}
    BY <1>1, <1>5, <1>6, <1>8, <2>1
  <2>3. PL!Of(p) = RowTypes(p) /\ (row[p] # Nothing => row[p].loaded \subseteq Provides[p][row[p].v])
    BY <1>6, <1>8, <2>1, <2>2 DEF TypesRight
  <2>. QED
    BY <1>1, <1>9, <2>2, <2>3 DEF TypesRight, RowTypes
<1>12. FilesRight(p)'
  <2>1. SUFFICES ASSUME p \notin hurt'
                 PROVE  FilesRight(p)'
    BY DEF FilesRight
  <2>2. ops[c].at \in {"note", "drop"} /\ PL!On(p) = {c} /\ PL!On(p)' = {}
    BY <1>1, <1>5, <1>6, <1>8, <2>1
  <2>3. backup[p] = Nothing /\ dir[p] = row[p].v /\ row[p] # Nothing
    BY <1>6, <1>8, <2>1, <2>2 DEF FilesRight, OneRequest
  <2>. QED
    BY <1>1, <2>2, <2>3 DEF FilesRight
<1>13. PluginRight(p)'
  BY <1>10, <1>11, <1>12 DEF PluginRight
<1>. QED
  BY <1>1, <1>2, <1>4, <1>6, <1>7, <1>9, <1>13, RightAfter, Zenon

\* A request that begins: a plugin with another one under way is known to be amiss.
LEMMA Begun ==
  ASSUME PluginsInv, NEW c \in Admins, NEW p \in Plugins, NEW r \in PluginOps, r.at # "idle", r.p = p,
         PL!Begins(c, r)
  PROVE  /\ ops[c].at = "idle" /\ ops' = [ops EXCEPT ![c] = r] /\ ops'[c] = r
         /\ asked' \in 0 .. MaxPluginRequests
         /\ loose \subseteq loose' /\ hurt \subseteq hurt' /\ loose' \subseteq Plugins /\ hurt' \subseteq Plugins
         /\ p \notin loose' \/ p \notin hurt' => PL!On(p) = {} /\ PL!On(p)' = {c}
         /\ TypesRight(p) /\ FilesRight(p)
<1>1. /\ ops[c].at = "idle" /\ ops' = [ops EXCEPT ![c] = r]
      /\ asked' \in 0 .. MaxPluginRequests
      /\ loose' = loose \cup (IF PL!On(p) = {} THEN {} ELSE {p})
      /\ hurt' = hurt \cup (IF PL!On(p) = {} THEN {} ELSE {p})
  BY PluginsAssumption DEF PL!Begins, PL!At, PluginsInv, PluginsTyped
<1>2. ops'[c] = r /\ PL!On(p)' = (PL!On(p) \ {c}) \cup {c}
  BY <1>1, RequestGoesOn, Zenon DEF PluginsInv
<1>3. TypesRight(p) /\ FilesRight(p)
  BY DEF PluginsInv, PluginRight
<1>. QED
  BY <1>1, <1>2, <1>3 DEF PluginsInv, PluginsTyped

LEMMA UnpackRight ==
  ASSUME PluginsInv, NEW c \in Admins, NEW p \in Plugins, NEW v \in PL!Versions, PL!Unpack(c, p, v)
  PROVE  PluginsInv'
<1>1. [at |-> "look", p |-> p, v |-> v] \in PluginOps
  BY DEF PluginOps
<1>2. PICK r \in PluginOps : r = [at |-> "look", p |-> p, v |-> v]
  BY <1>1
<1>3. r.at = "look" /\ r.p = p /\ r.v = v
  BY <1>2
<1>4. /\ PL!Begins(c, r)
      /\ dir' = [dir EXCEPT ![p] = v] /\ backup' = [backup EXCEPT ![p] = Nothing]
      /\ UNCHANGED <<row, types>>
  BY <1>2 DEF PL!Unpack
<1>5. /\ ops[c].at = "idle" /\ ops' = [ops EXCEPT ![c] = r] /\ ops'[c] = r
      /\ asked' \in 0 .. MaxPluginRequests
      /\ loose \subseteq loose' /\ hurt \subseteq hurt' /\ loose' \subseteq Plugins /\ hurt' \subseteq Plugins
      /\ p \notin loose' \/ p \notin hurt' => PL!On(p) = {} /\ PL!On(p)' = {c}
      /\ TypesRight(p) /\ FilesRight(p)
  BY <1>3, <1>4, Begun
<1>6. /\ dir'[p] = v /\ backup'[p] = Nothing
      /\ \A q \in Plugins \ {p} : dir'[q] = dir[q] /\ backup'[q] = backup[q]
      /\ dir' \in [Plugins -> FileStates] /\ backup' \in [Plugins -> FileStates]
  BY <1>4 DEF PluginsInv, PluginsTyped, FileStates
<1>7. PluginsTyped'
  BY <1>4, <1>5, <1>6 DEF PluginsInv, PluginsTyped
<1>8. \A q \in Plugins : PL!Of(q)' = PL!Of(q)
  BY <1>4 DEF PL!Of
<1>9. OneRequest(p)'
  BY <1>3, <1>5 DEF OneRequest
<1>10. TypesRight(p)'
  BY <1>3, <1>4, <1>5, <1>8 DEF TypesRight, RowTypes
<1>11. FilesRight(p)'
  BY <1>3, <1>5, <1>6, Zenon DEF FilesRight
<1>12. PluginRight(p)'
  BY <1>9, <1>10, <1>11 DEF PluginRight
<1>13. /\ ops[c].at # "idle" => ops[c].p = p
       /\ r.at # "idle" => r.p = p
  BY <1>3, <1>5
<1>14. \A q \in Plugins \ {p} :
           /\ dir'[q] = dir[q] /\ backup'[q] = backup[q] /\ row'[q] = row[q]
           /\ (q \in loose' \/ PL!Of(q)' = PL!Of(q))
  BY <1>4, <1>6, <1>8
<1>. QED
  BY <1>5, <1>7, <1>12, <1>13, <1>14, RightAfter, Zenon

LEMMA DeleteRight ==
  ASSUME PluginsInv, NEW c \in Admins, NEW p \in Plugins, PL!Delete(c, p)
  PROVE  PluginsInv'
<1>1. row[p] # Nothing /\ row[p] \in PluginRows /\ UNCHANGED <<dir, backup, row, types>>
  BY DEF PL!Delete, PluginsInv, PluginsTyped
<1>2. [at |-> "unload", p |-> p, v |-> row[p].v, id |-> row[p].id] \in PluginOps
  BY <1>1 DEF PluginOps, PluginRows
<1>3. PICK r \in PluginOps : r = [at |-> "unload", p |-> p, v |-> row[p].v, id |-> row[p].id]
  BY <1>2
<1>4. r.at = "unload" /\ r.p = p /\ r.v = row[p].v /\ r.id = row[p].id
  BY <1>3
<1>5. PL!Begins(c, r)
  BY <1>3 DEF PL!Delete
<1>6. /\ ops[c].at = "idle" /\ ops' = [ops EXCEPT ![c] = r] /\ ops'[c] = r
      /\ asked' \in 0 .. MaxPluginRequests
      /\ loose \subseteq loose' /\ hurt \subseteq hurt' /\ loose' \subseteq Plugins /\ hurt' \subseteq Plugins
      /\ p \notin loose' \/ p \notin hurt' => PL!On(p) = {} /\ PL!On(p)' = {c}
      /\ TypesRight(p) /\ FilesRight(p)
  BY <1>4, <1>5, Begun
<1>7. PluginsTyped'
  BY <1>1, <1>6 DEF PluginsInv, PluginsTyped
<1>8. \A q \in Plugins : PL!Of(q)' = PL!Of(q)
  BY <1>1 DEF PL!Of
<1>9. OneRequest(p)'
  BY <1>1, <1>4, <1>6 DEF OneRequest
<1>10. TypesRight(p)'
  BY <1>1, <1>4, <1>6, <1>8 DEF TypesRight, RowTypes
<1>11. FilesRight(p)'
  BY <1>1, <1>4, <1>6 DEF FilesRight
<1>12. PluginRight(p)'
  BY <1>9, <1>10, <1>11 DEF PluginRight
<1>. QED
  BY <1>1, <1>4, <1>6, <1>7, <1>8, <1>12, RightAfter, Zenon

LEMMA BadPackageRight ==
  ASSUME PluginsInv, NEW c \in Admins, NEW p \in Plugins, PL!BadPackage(c, p)
  PROVE  PluginsInv'
<1>1. /\ ops[c].at = "idle" /\ asked < MaxPluginRequests /\ asked' = asked + 1
      /\ PL!UnpackFails(p) /\ UNCHANGED <<row, types, ops>>
      /\ loose' = (IF PL!On(p) = {} THEN loose ELSE loose \cup {p})
      /\ hurt' = (IF PL!On(p) = {} THEN hurt ELSE hurt \cup {p})
  BY DEF PL!BadPackage, PL!At
<1>2. PICK r \in PluginOps : r = ops[c]
  BY DEF PluginsInv, PluginsTyped
<1>3. r.at = "idle" /\ ops' = [ops EXCEPT ![c] = r]
  BY <1>1, <1>2 DEF PluginsInv, PluginsTyped
<1>4. /\ loose \subseteq loose' /\ hurt \subseteq hurt' /\ loose' \subseteq Plugins /\ hurt' \subseteq Plugins
      /\ p \notin loose' => p \notin loose
      /\ p \notin hurt' => p \notin hurt /\ PL!On(p) = {}
      /\ p \notin loose' \/ p \notin hurt' => PL!On(p) = {}
      /\ asked' \in 0 .. MaxPluginRequests
  BY <1>1, PluginsAssumption DEF PluginsInv, PluginsTyped
<1>5. /\ dir' \in [Plugins -> FileStates] /\ backup' \in [Plugins -> FileStates]
      /\ \A q \in Plugins \ {p} : dir'[q] = dir[q] /\ backup'[q] = backup[q]
      /\ backup'[p] = Nothing
      /\ dir[p] # Nothing => dir'[p] = dir[p]
      /\ dir[p] = Nothing /\ backup[p] = Nothing => dir'[p] = PL!Torn
  BY <1>1 DEF PL!UnpackFails, PluginsInv, PluginsTyped, FileStates
<1>6. PluginsTyped'
  BY <1>1, <1>4, <1>5 DEF PluginsInv, PluginsTyped
<1>7. /\ \A q \in Plugins : PL!Of(q)' = PL!Of(q)
      /\ PL!On(p)' = PL!On(p)
  BY <1>1 DEF PL!Of, PL!On
<1>8. OneRequest(p) /\ TypesRight(p) /\ FilesRight(p)
  BY DEF PluginsInv, PluginRight
<1>9. row[p] # Nothing => row[p].v # Nothing
  BY PluginsAssumption DEF PluginsInv, PluginsTyped, PluginRows, PL!Versions
<1>10. OneRequest(p)'
  BY <1>1, <1>4, <1>7, <1>8 DEF OneRequest
<1>11. TypesRight(p)'
  BY <1>1, <1>4, <1>7, <1>8 DEF TypesRight, RowTypes
<1>12. FilesRight(p)'
  BY <1>1, <1>4, <1>5, <1>7, <1>8, <1>9 DEF FilesRight
<1>13. PluginRight(p)'
  BY <1>10, <1>11, <1>12 DEF PluginRight
<1>14. /\ ops[c].at # "idle" => ops[c].p = p
       /\ r.at # "idle" => r.p = p
  BY <1>1, <1>3
<1>15. \A q \in Plugins \ {p} :
           /\ dir'[q] = dir[q] /\ backup'[q] = backup[q] /\ row'[q] = row[q]
           /\ (q \in loose' \/ PL!Of(q)' = PL!Of(q))
  BY <1>1, <1>5, <1>7
<1>. QED
  BY <1>3, <1>4, <1>6, <1>13, <1>14, <1>15, RightAfter, Zenon

LEMMA ReloadRight ==
  ASSUME PluginsInv, PL!Reload
  PROVE  PluginsInv'
<1>1. /\ asked < MaxPluginRequests /\ asked' = asked + 1
      /\ types' = PL!Native /\ loose' = Plugins /\ UNCHANGED <<dir, backup, row, ops, hurt>>
  BY DEF PL!Reload
<1>2. PluginsTyped'
  BY <1>1, PluginsAssumption DEF PluginsInv, PluginsTyped, PL!Native
<1>3. ASSUME NEW q \in Plugins
      PROVE  PluginRight(q)'
  <2>1. OneRequest(q) /\ FilesRight(q)
    BY DEF PluginsInv, PluginRight
  <2>2. PL!On(q)' = PL!On(q)
    BY <1>1 DEF PL!On
  <2>3. OneRequest(q)'
    BY <1>1, <2>1, <2>2 DEF OneRequest
  <2>4. TypesRight(q)'
    BY <1>1 DEF TypesRight
  <2>5. FilesRight(q)'
    BY <1>1, <2>1, <2>2 DEF FilesRight
  <2>. QED
    BY <2>3, <2>4, <2>5 DEF PluginRight
<1>. QED
  BY <1>2, <1>3 DEF PluginsInv

\* Of the installed plugins that have a type, one has the latest row.
LEMMA LatestClaim ==
  ASSUME PluginsTyped, NEW t \in PL!TypeNames, PL!Claims(t) # {}
  PROVE  /\ PL!AtStart[t] \in PL!Claims(t)
         /\ PL!Claims(t) \subseteq Plugins
<1> DEFINE Below(p) == MaxPluginRequests - row[p].id
           S == {Below(p) : p \in PL!Claims(t)}
<1>1. /\ PL!Claims(t) \subseteq Plugins
      /\ \A p \in PL!Claims(t) : row[p].id \in 0 .. MaxPluginRequests
  BY DEF PL!Claims, PL!Installed, PluginsTyped, PluginRows
<1>2. S \subseteq Nat /\ S # {}
  BY <1>1, PluginsAssumption
<1>3. PICK x \in S : \A y \in S : ~ (<<y, x>> \in OpToRel(<, Nat))
  BY <1>2, NatLessThanWellFounded, WFMin, Zenon
<1>4. PICK p \in PL!Claims(t) : x = Below(p)
  BY <1>3, Zenon
<1>5. \A q \in PL!Claims(t) : row[q].id <= row[p].id
  <2> SUFFICES ASSUME NEW q \in PL!Claims(t)
               PROVE  row[q].id <= row[p].id
    OBVIOUS
  <2>1. ~ (Below(q) < Below(p))
    BY <1>2, <1>3, <1>4, Zenon DEF OpToRel
  <2>2. row[p].id \in Nat /\ row[q].id \in Nat /\ MaxPluginRequests \in Nat
    BY <1>1, PluginsAssumption
  <2>. QED
    BY <2>1, <2>2
<1>6. (CHOOSE p0 \in PL!Claims(t) : \A q \in PL!Claims(t) : row[q].id <= row[p0].id) \in PL!Claims(t)
  BY <1>5
<1>. QED
  BY <1>1, <1>6 DEF PL!AtStart

\* After a restart a type is provided by an installed plugin whose files have it, if one does.
LEMMA StartedTypes ==
  ASSUME PluginsTyped
  PROVE  /\ PL!AtStart \in [PL!TypeNames -> Plugins \cup {"builtin", Nothing}]
         /\ \A q \in Plugins, t \in PL!TypeNames :
                PL!AtStart[t] = q => row[q] # Nothing /\ t \in PL!Loadable(q, row[q].v)
<1>1. \A t \in PL!TypeNames :
          /\ PL!AtStart[t] \in Plugins \cup {"builtin", Nothing}
          /\ PL!AtStart[t] \in Plugins => PL!AtStart[t] \in PL!Claims(t)
  <2> SUFFICES ASSUME NEW t \in PL!TypeNames
               PROVE  /\ PL!AtStart[t] \in Plugins \cup {"builtin", Nothing}
                      /\ PL!AtStart[t] \in Plugins => PL!AtStart[t] \in PL!Claims(t)
    OBVIOUS
  <2>1. CASE PL!Claims(t) = {}
    <3>1. PL!AtStart[t] = PL!Native[t]
      BY <2>1 DEF PL!AtStart
    <3>2. PL!AtStart[t] = "builtin" \/ PL!AtStart[t] = Nothing
      BY <3>1 DEF PL!Native
    <3>. QED
      BY <3>2, PluginsAssumption
  <2>2. CASE PL!Claims(t) # {}
    BY <2>2, LatestClaim
  <2>. QED
    BY <2>1, <2>2
<1>2. PL!AtStart \in [PL!TypeNames -> Plugins \cup {"builtin", Nothing}]
  <2>1. PL!AtStart = [t \in PL!TypeNames |-> PL!AtStart[t]]
    BY DEF PL!AtStart
  <2>. QED
    BY <1>1, <2>1
<1>. QED
  BY <1>1, <1>2 DEF PL!Claims, PL!Installed

LEMMA RestartRight ==
  ASSUME PluginsInv, NEW inside \in {{}} \cup {{p} : p \in Plugins},
         NEW unsaved \in {{}} \cup {{p} : p \in Plugins}, PL!Restart(inside, unsaved)
  PROVE  PluginsInv'
<1> DEFINE Again(q) == IF PL!Loadable(q, row[q].v) = Provides[q][row[q].v]
                       THEN Provides[q][row[q].v] ELSE {}
<1>1. /\ PluginsTyped /\ inside \subseteq Plugins /\ unsaved \subseteq Plugins
      /\ row \in [Plugins -> PluginRows \cup {Nothing}] /\ Nothing \notin PluginRows
  BY PluginsAssumption DEF PluginsInv, PluginsTyped, PluginRows, PL!Versions, PL!TypeNames
<1>2. /\ asked' \in 0 .. MaxPluginRequests
      /\ ops' = [c \in Admins |-> PL!Idle] /\ types' = PL!AtStart
      /\ row' = [q \in Plugins |-> IF row[q] = Nothing \/ q \in unsaved THEN row[q]
                                    ELSE [row[q] EXCEPT !.loaded = Again(q)]]
      /\ loose' = unsaved \cup {q \in Plugins : row[q] # Nothing
                                   /\ {t \in PL!TypeNames : PL!AtStart[t] = q} # Provides[q][row[q].v]}
      /\ hurt' = hurt \cup inside \cup {q \in Plugins : PL!On(q) # {}}
      /\ dir' = [q \in Plugins |-> IF q \in inside THEN PL!Torn ELSE dir[q]]
      /\ backup' = [q \in Plugins |-> IF q \in inside /\ dir[q] # Nothing THEN dir[q] ELSE backup[q]]
  BY <1>1, PluginsAssumption DEF PL!Restart, PluginsTyped
<1>3. /\ PL!AtStart \in [PL!TypeNames -> Plugins \cup {"builtin", Nothing}]
      /\ \A q \in Plugins, t \in PL!TypeNames :
            PL!AtStart[t] = q => row[q] # Nothing /\ t \in PL!Loadable(q, row[q].v)
  BY <1>1, StartedTypes
<1>4. \A q \in Plugins :
        /\ row[q] = Nothing => row'[q] = Nothing
        /\ row[q] # Nothing => /\ row'[q] \in PluginRows /\ row'[q].v = row[q].v
                               /\ q \notin unsaved => row'[q].loaded = Again(q)
  <2> SUFFICES ASSUME NEW q \in Plugins
               PROVE  /\ row[q] = Nothing => row'[q] = Nothing
                      /\ row[q] # Nothing => /\ row'[q] \in PluginRows /\ row'[q].v = row[q].v
                                             /\ q \notin unsaved => row'[q].loaded = Again(q)
    OBVIOUS
  <2>1. row[q] = Nothing => row'[q] = Nothing
    BY <1>2
  <2>3. ASSUME row[q] # Nothing, q \in unsaved
        PROVE  row'[q] \in PluginRows /\ row'[q].v = row[q].v
    BY <1>1, <1>2, <2>3
  <2>2. ASSUME row[q] # Nothing, q \notin unsaved
        PROVE  /\ row'[q] \in PluginRows /\ row'[q].v = row[q].v /\ row'[q].loaded = Again(q)
    <3>1. row[q] \in PluginRows /\ row'[q] = [row[q] EXCEPT !.loaded = Again(q)]
      BY <1>1, <1>2, <2>2
    <3>2. Again(q) \in SUBSET PL!TypeNames
      <4>1. row[q].v \in PL!Versions
        BY <3>1 DEF PluginRows
      <4>. QED
        BY <4>1 DEF PL!TypeNames
    <3> HIDE DEF Again
    <3>. QED
      BY <3>1, <3>2 DEF PluginRows
  <2>. QED
    BY <2>1, <2>2, <2>3
<1>5. row' \in [Plugins -> PluginRows \cup {Nothing}]
  <2>1. row' = [q \in Plugins |-> row'[q]]
    BY <1>2
  <2>. QED
    BY <1>4, <2>1
<1>6. PluginsTyped'
  <2>1. PL!Idle \in PluginOps
    BY DEF PluginOps, PL!Idle
  <2>2. dir' \in [Plugins -> FileStates] /\ backup' \in [Plugins -> FileStates]
    BY <1>1, <1>2 DEF PluginsTyped, FileStates
  <2>3. loose' \subseteq Plugins /\ hurt' \subseteq Plugins
    BY <1>1, <1>2 DEF PluginsTyped
  <2>. QED
    BY <1>2, <1>3, <1>5, <2>1, <2>2, <2>3, Zenon DEF PluginsTyped
<1>7. ASSUME NEW q \in Plugins
      PROVE  PluginRight(q)'
  <2>1. PL!On(q)' = {}
    BY <1>2 DEF PL!On, PL!Idle
  <2>2. OneRequest(q)'
    BY <2>1 DEF OneRequest
  <2>3. TypesRight(q)'
    <3>1. SUFFICES ASSUME q \notin loose'
                   PROVE  PL!Of(q)' = RowTypes(q)' /\ (row'[q] # Nothing =>
                             row'[q].loaded \subseteq Provides[q][row'[q].v])
      BY <2>1 DEF TypesRight
    <3>2. PL!Of(q)' = {t \in PL!TypeNames : PL!AtStart[t] = q}
      BY <1>2 DEF PL!Of
    <3>3. CASE row[q] = Nothing
      BY <1>3, <1>4, <3>2, <3>3 DEF RowTypes
    <3>4. CASE row[q] # Nothing
      <4>1. {t \in PL!TypeNames : PL!AtStart[t] = q} = Provides[q][row[q].v]
        BY <1>2, <3>1, <3>4
      <4>2. Provides[q][row[q].v] \subseteq PL!Loadable(q, row[q].v)
        BY <1>3, <4>1
      <4>3. PL!Loadable(q, row[q].v) \subseteq Provides[q][row[q].v]
        BY DEF PL!Loadable
      <4>4. Again(q) = Provides[q][row[q].v]
        <5>1. PL!Loadable(q, row[q].v) = Provides[q][row[q].v]
          BY <4>2, <4>3, Zenon
        <5>. QED
          BY <5>1, Zenon
      <4>5. row'[q] # Nothing /\ row'[q].loaded = Provides[q][row[q].v] /\ row'[q].v = row[q].v
        BY <1>1, <1>2, <1>4, <3>1, <3>4, <4>4
      <4>. QED
        BY <3>2, <4>1, <4>5 DEF RowTypes
    <3>. QED
      BY <3>3, <3>4
  <2>4. FilesRight(q)'
    <3>1. SUFFICES ASSUME q \notin hurt'
                   PROVE  /\ backup'[q] = Nothing
                          /\ IF row'[q] = Nothing THEN dir'[q] \in {Nothing, PL!Torn}
                             ELSE dir'[q] = row'[q].v
      BY <2>1 DEF FilesRight
    <3>2. q \notin hurt /\ q \notin inside /\ PL!On(q) = {}
      BY <1>2, <3>1
    <3>3. FilesRight(q)
      BY DEF PluginsInv, PluginRight
    <3>4. dir'[q] = dir[q] /\ backup'[q] = backup[q]
      BY <1>2, <3>2
    <3>. QED
      BY <1>1, <1>4, <3>2, <3>3, <3>4 DEF FilesRight
  <2>. QED
    BY <2>2, <2>3, <2>4 DEF PluginRight
<1>. QED
  BY <1>6, <1>7 DEF PluginsInv

LEMMA InitPlugins == PL!Init => PluginsInv
<1> SUFFICES ASSUME PL!Init PROVE PluginsInv
  OBVIOUS
<1>1. /\ \A q \in Plugins : dir[q] = Nothing /\ backup[q] = Nothing /\ row[q] = Nothing
      /\ types = PL!Native /\ ops = [c \in Admins |-> PL!Idle]
  BY DEF PL!Init
<1>2. PluginsTyped
  <2>1. PL!Idle \in PluginOps
    BY DEF PluginOps, PL!Idle
  <2>2. PL!Native \in [PL!TypeNames -> Plugins \cup {"builtin", Nothing}]
    BY DEF PL!Native
  <2>. QED
    BY <2>1, <2>2, PluginsAssumption DEF PL!Init, PluginsTyped, FileStates
<1>3. ASSUME NEW q \in Plugins
      PROVE  PluginRight(q)
  <2>1. PL!On(q) = {}
    BY <1>1 DEF PL!On, PL!Idle
  <2>2. PL!Of(q) = {}
    BY <1>1, PluginsAssumption DEF PL!Of, PL!Native
  <2>. QED
    BY <1>1, <2>1, <2>2 DEF PluginRight, OneRequest, TypesRight, FilesRight, RowTypes
<1>. QED
  BY <1>2, <1>3 DEF PluginsInv

LEMMA NextPluginsInv ==
  ASSUME PluginsInv, [PL!Next]_pluginsvars
  PROVE  PluginsInv'
<1>1. ASSUME NEW c \in Admins, NEW p \in Plugins, NEW v \in PL!Versions, PL!Unpack(c, p, v)
      PROVE  PluginsInv'
  BY <1>1, UnpackRight
<1>2. ASSUME NEW c \in Admins, NEW p \in Plugins, PL!BadPackage(c, p) \/ PL!Delete(c, p)
      PROVE  PluginsInv'
  BY <1>2, BadPackageRight, DeleteRight
<1>3. ASSUME NEW c \in Admins, PL!Look(c) \/ PL!Save(c) \/ PL!Load(c) \/ PL!Note(c)
      PROVE  PluginsInv'
  BY <1>3, LookRight, SaveRight, LoadRight, NoteRight
<1>4. ASSUME NEW c \in Admins, PL!Unload(c) \/ PL!DropRow(c) \/ PL!RemoveFiles(c) \/ PL!QueryFails(c)
      PROVE  PluginsInv'
  BY <1>4, UnloadRight, DropRowRight, RemoveFilesRight, QueryFailsRight
<1>5. ASSUME NEW inside \in {{}} \cup {{p} : p \in Plugins},
             NEW unsaved \in {{}} \cup {{p} : p \in Plugins}, PL!Restart(inside, unsaved)
      PROVE  PluginsInv'
  BY <1>5, RestartRight
<1>6. CASE UNCHANGED pluginsvars
  BY <1>6 DEF pluginsvars, PluginsInv, PluginsTyped, PluginRight, OneRequest, TypesRight, FilesRight,
              RowTypes, PL!On, PL!Of
<1>. QED
  BY <1>1, <1>2, <1>3, <1>4, <1>5, <1>6, ReloadRight DEF PL!Next

\* Whatever is installed, updated, deleted, reloaded or restarted, and in whatever order the
\* requests' queries are answered: a plugin that no request is about provides the types its row
\* says and has the files of its row, but where one of the reasons in its history is at hand.
THEOREM PluginsAreWhole == Spec => []PluginsWhole
<1>1. Init => PluginsInv
  BY InitPlugins DEF Init
<1>2. PluginsInv /\ [Next]_vars => PluginsInv'
  BY Turns, NextPluginsInv
<1>3. PluginsInv => PluginsWhole
  <2> SUFFICES ASSUME PluginsInv PROVE PluginsWhole
    OBVIOUS
  <2>1. PluginsTyped /\ \A q \in Plugins : TypesRight(q) /\ FilesRight(q)
    BY DEF PluginsInv, PluginRight
  <2>2. PL!TypesAreInstalled
    BY <2>1 DEF PL!TypesAreInstalled, TypesRight, RowTypes
  <2>3. PL!FilesAreRows
    BY <2>1 DEF PL!FilesAreRows, FilesRight
  <2>4. \A c \in Admins : ops[c].at \in {"idle", "look", "save", "load", "note", "unload", "drop", "remove"}
    BY <2>1, RequestKinds, Zenon
  <2>5. PL!TypeOK
    BY <2>1, <2>4 DEF PL!TypeOK, PluginsTyped, PluginRows, FileStates
  <2>. QED
    BY <2>2, <2>3, <2>5 DEF PluginsWhole
<1>. QED
  BY <1>1, <1>2, <1>3, PTL DEF Spec
-----------------------------------------------------------------------------
(* The chat with tools: agent/service.py.                                   *)

\* Messages about calls in S, and a request under way that has such messages.
Messages(S) == [kind : {"asks", "result"}, ns : Seq(S) \ {<<>>}]
Chatting(S) ==
    [at : {"start", "settle", "think", "calls"}, stream : BOOLEAN, auto : BOOLEAN,
     base : Seq(Messages(S)), new : Seq(Messages(S)), yes : SUBSET Nat, no : SUBSET Nat,
     round : Nat, todo : Seq(S), pending : SUBSET S]

Made == 1 .. Len(calls)
LastAsked(msgs) == IF AG!LastAsks(msgs) = 0 THEN {} ELSE AG!Range(msgs[AG!LastAsks(msgs)].ns)
Talk(d) == d.base \o d.new

LEMMA GreatestIn ==
  ASSUME NEW N \in Nat, NEW I \in SUBSET (1 .. N), I # {}
  PROVE  AG!Max(I) \in I /\ \A i \in I : i <= AG!Max(I)
<1> DEFINE S == {N - i : i \in I}
<1>1. S \subseteq Nat /\ S # {}
  <2>1. \A i \in I : i \in Nat /\ i <= N /\ N - i \in Nat
    OBVIOUS
  <2> QED BY <2>1, Zenon
<1>2. PICK x \in S : \A y \in S : ~ (<<y, x>> \in OpToRel(<, Nat))
  BY <1>1, NatLessThanWellFounded, WFMin, Zenon
<1>3. PICK m \in I : x = N - m
  BY <1>2, Zenon
<1>4. \A i \in I : m >= i
  <2> SUFFICES ASSUME NEW i \in I PROVE m >= i
    BY Zenon
  <2>1. N - i \in S /\ N - i \in Nat /\ x \in Nat
    BY <1>1, <1>2, Zenon
  <2>2. ~ (N - i < x)
    BY <1>2, <2>1, Zenon DEF OpToRel
  <2> QED BY <1>3, <2>2
<1>5. (CHOOSE x0 \in I : \A y \in I : x0 >= y) \in I
      /\ \A y \in I : (CHOOSE x0 \in I : \A y1 \in I : x0 >= y1) >= y
  BY <1>4, Zenon
<1>6. AG!Max(I) \in I /\ \A y \in I : AG!Max(I) >= y
  BY <1>5, Zenon DEF AG!Max
<1> QED BY <1>6

\* The last message that asks for calls.
LEMMA LastAsksIs ==
  ASSUME NEW S, NEW ms \in Seq(Messages(S))
  PROVE  \/ AG!LastAsks(ms) = 0 /\ \A i \in 1 .. Len(ms) : ms[i].kind # "asks"
         \/ /\ AG!LastAsks(ms) \in 1 .. Len(ms) /\ ms[AG!LastAsks(ms)].kind = "asks"
            /\ \A i \in 1 .. Len(ms) : ms[i].kind = "asks" => i <= AG!LastAsks(ms)
<1> DEFINE I == {i \in 1 .. Len(ms) : ms[i].kind = "asks"}
<1>1. AG!LastAsks(ms) = IF I # {} THEN AG!Max(I) ELSE 0
  BY DEF AG!LastAsks, AG!SelectLastInSeq
<1>2. Len(ms) \in Nat /\ I \in SUBSET (1 .. Len(ms))
  OBVIOUS
<1>3. I # {} => AG!Max(I) \in I /\ \A i \in I : i <= AG!Max(I)
  BY <1>2, GreatestIn, Zenon
<1> QED BY <1>1, <1>3

\* Which calls a conversation has answers to.
LEMMA AnsweredIs ==
  ASSUME NEW ms, NEW n
  PROVE  n \in AG!Answered(ms) <=> \E i \in DOMAIN ms : ms[i].kind = "result" /\ n = ms[i].ns[1]
BY DEF AG!Answered, AG!Of

\* What a conversation tells when a message is added to it.
LEMMA MoreTold ==
  ASSUME NEW S, NEW ms \in Seq(Messages(S)), NEW m \in Messages(S)
  PROVE  /\ Append(ms, m) \in Seq(Messages(S))
         /\ m.kind = "result" =>
              /\ AG!Answered(Append(ms, m)) = AG!Answered(ms) \cup {m.ns[1]}
              /\ AG!Asked(Append(ms, m)) = AG!Asked(ms) /\ LastAsked(Append(ms, m)) = LastAsked(ms)
         /\ m.kind = "asks" =>
              /\ AG!Answered(Append(ms, m)) = AG!Answered(ms)
              /\ AG!Asked(Append(ms, m)) = AG!Asked(ms) \cup AG!Range(m.ns)
              /\ LastAsked(Append(ms, m)) = AG!Range(m.ns)
<1>0. PICK N \in Nat : N = Len(ms)
  OBVIOUS
<1>1. PICK t : t = Append(ms, m)
  BY Zenon
<1>2. /\ t \in Seq(Messages(S)) /\ Len(t) = N + 1 /\ t[N + 1] = m /\ \A i \in 1 .. N : t[i] = ms[i]
      /\ DOMAIN t = 1 .. N + 1 /\ DOMAIN ms = 1 .. N
  BY <1>0, <1>1
<1>3. CASE m.kind = "result"
  <2>1. AG!Answered(t) = AG!Answered(ms) \cup {m.ns[1]}
    BY <1>2, <1>3 DEF AG!Answered, AG!Of
  <2>2. AG!Asked(t) = AG!Asked(ms)
    BY <1>2, <1>3 DEF AG!Asked
  <2>3. AG!LastAsks(t) = AG!LastAsks(ms) /\ AG!LastAsks(ms) \in 0 .. N
    <3>1. \/ AG!LastAsks(t) = 0 /\ \A i \in 1 .. N + 1 : t[i].kind # "asks"
          \/ /\ AG!LastAsks(t) \in 1 .. N + 1 /\ t[AG!LastAsks(t)].kind = "asks"
             /\ \A i \in 1 .. N + 1 : t[i].kind = "asks" => i <= AG!LastAsks(t)
      BY <1>2, LastAsksIs
    <3>2. \/ AG!LastAsks(ms) = 0 /\ \A i \in 1 .. N : ms[i].kind # "asks"
          \/ /\ AG!LastAsks(ms) \in 1 .. N /\ ms[AG!LastAsks(ms)].kind = "asks"
             /\ \A i \in 1 .. N : ms[i].kind = "asks" => i <= AG!LastAsks(ms)
      BY <1>0, LastAsksIs
    <3> QED BY <1>2, <1>3, <3>1, <3>2
  <2>4. LastAsked(t) = LastAsked(ms)
    BY <1>2, <2>3 DEF LastAsked
  <2> QED BY <1>1, <1>2, <1>3, <2>1, <2>2, <2>4
<1>4. CASE m.kind = "asks"
  <2>1. AG!Answered(t) = AG!Answered(ms)
    BY <1>2, <1>4 DEF AG!Answered, AG!Of
  <2>2. AG!Asked(t) = AG!Asked(ms) \cup AG!Range(m.ns)
    BY <1>2, <1>4 DEF AG!Asked
  <2>3. AG!LastAsks(t) = N + 1
    <3>1. \/ AG!LastAsks(t) = 0 /\ \A i \in 1 .. N + 1 : t[i].kind # "asks"
          \/ /\ AG!LastAsks(t) \in 1 .. N + 1 /\ t[AG!LastAsks(t)].kind = "asks"
             /\ \A i \in 1 .. N + 1 : t[i].kind = "asks" => i <= AG!LastAsks(t)
      BY <1>2, LastAsksIs
    <3> QED BY <1>2, <1>4, <3>1
  <2>4. LastAsked(t) = AG!Range(m.ns)
    BY <1>2, <2>3 DEF LastAsked
  <2> QED BY <1>1, <1>2, <1>4, <2>1, <2>2, <2>4
<1> QED BY <1>1, <1>2, <1>3, <1>4 DEF Messages

\* The conversation of a request.
LEMMA TalkTold ==
  ASSUME NEW S, NEW a \in Seq(Messages(S)), NEW b \in Seq(Messages(S))
  PROVE  /\ a \o b \in Seq(Messages(S)) /\ a \o <<>> = a
         /\ AG!Answered(a \o b) = AG!Answered(a) \cup AG!Answered(b)
         /\ AG!Answered(<<>>) = {} /\ AG!Asked(<<>>) = {} /\ LastAsked(<<>>) = {}
         /\ \A m \in Messages(S) : a \o Append(b, m) = Append(a \o b, m)
<1>0. PICK M \in Nat, N \in Nat : M = Len(a) /\ N = Len(b)
  OBVIOUS
<1>1. PICK t : t = a \o b
  BY Zenon
<1>2. /\ t \in Seq(Messages(S)) /\ DOMAIN t = 1 .. M + N /\ DOMAIN a = 1 .. M /\ DOMAIN b = 1 .. N
      /\ \A i \in 1 .. M : t[i] = a[i]
      /\ \A i \in 1 .. N : t[M + i] = b[i]
  BY <1>0, <1>1
<1>3. AG!Answered(t) = AG!Answered(a) \cup AG!Answered(b)
  <2>1. ASSUME NEW n, n \in AG!Answered(a) \cup AG!Answered(b)
        PROVE  n \in AG!Answered(t)
    <3>1. CASE n \in AG!Answered(a)
      <4>1. PICK i \in DOMAIN a : a[i].kind = "result" /\ n = a[i].ns[1]
        BY <3>1, AnsweredIs
      <4>2. i \in 1 .. M + N /\ t[i] = a[i]
        BY <1>2
      <4> QED BY <1>2, <4>1, <4>2, AnsweredIs
    <3>2. CASE n \in AG!Answered(b)
      <4>1. PICK i \in DOMAIN b : b[i].kind = "result" /\ n = b[i].ns[1]
        BY <3>2, AnsweredIs
      <4>2. M + i \in 1 .. M + N /\ t[M + i] = b[i]
        BY <1>2
      <4> QED BY <1>2, <4>1, <4>2, AnsweredIs
    <3> QED BY <2>1, <3>1, <3>2
  <2>2. ASSUME NEW n, n \in AG!Answered(t)
        PROVE  n \in AG!Answered(a) \cup AG!Answered(b)
    <3>1. PICK i \in 1 .. M + N : t[i].kind = "result" /\ n = t[i].ns[1]
      BY <1>2, <2>2, AnsweredIs
    <3>2. CASE i <= M
      <4>1. i \in 1 .. M /\ t[i] = a[i]
        BY <1>2, <3>2
      <4> QED BY <1>2, <3>1, <4>1, AnsweredIs
    <3>3. CASE i > M
      <4>1. PICK j \in 1 .. N : i = M + j
        <5>1. i - M \in 1 .. N /\ i = M + (i - M)
          BY <3>3
        <5> QED BY <5>1
      <4>2. t[i] = b[j]
        BY <1>2, <4>1
      <4> QED BY <1>2, <3>1, <4>2, AnsweredIs
    <3> QED BY <3>2, <3>3
  <2> QED BY <2>1, <2>2
<1>4. AG!Answered(<<>>) = {} /\ AG!Asked(<<>>) = {}
  BY DEF AG!Answered, AG!Asked, AG!Of
<1>5. LastAsked(<<>>) = {}
  <2>1. <<>> \in Seq(Messages(S)) /\ Len(<<>>) = 0
    BY EmptySeq
  <2>2. AG!LastAsks(<<>>) = 0 \/ AG!LastAsks(<<>>) \in 1 .. Len(<<>>)
    BY <2>1, LastAsksIs, Zenon
  <2>3. AG!LastAsks(<<>>) = 0
    BY <2>1, <2>2
  <2> QED BY <2>3 DEF LastAsked
<1>6. \A m \in Messages(S) : a \o Append(b, m) = Append(a \o b, m)
  OBVIOUS
<1>7. a \o <<>> = a
  OBVIOUS
<1> QED BY <1>1, <1>2, <1>3, <1>4, <1>5, <1>6, <1>7, Zenon

\* The calls of a conversation.
LEMMA ToldOf ==
  ASSUME NEW S, NEW ms \in Seq(Messages(S))
  PROVE  AG!Answered(ms) \subseteq S /\ AG!Asked(ms) \subseteq S /\ LastAsked(ms) \subseteq AG!Asked(ms)
<1>1. \A i \in DOMAIN ms : ms[i].ns \in Seq(S) \ {<<>>}
  <2> SUFFICES ASSUME NEW i \in DOMAIN ms PROVE ms[i].ns \in Seq(S) \ {<<>>}
    OBVIOUS
  <2>1. ms[i] \in Messages(S)
    BY ElementOfSeq
  <2> QED BY <2>1 DEF Messages
<1>2. AG!Asked(ms) \subseteq S
  <2> SUFFICES ASSUME NEW i \in DOMAIN ms, NEW j \in DOMAIN ms[i].ns PROVE ms[i].ns[j] \in S
    BY DEF AG!Asked, AG!Range
  <2>1. ms[i].ns \in Seq(S)
    BY <1>1
  <2>2. j \in 1 .. Len(ms[i].ns)
    BY <2>1
  <2> QED BY <2>1, <2>2, ElementOfSeq
<1>3. AG!Answered(ms) \subseteq S
  <2> SUFFICES ASSUME NEW i \in DOMAIN ms PROVE ms[i].ns[1] \in S
    BY AnsweredIs
  <2>1. ms[i].ns \in Seq(S) /\ ms[i].ns # <<>>
    BY <1>1
  <2> QED BY <2>1
<1>4. LastAsked(ms) \subseteq AG!Asked(ms)
  <2>1. CASE AG!LastAsks(ms) = 0
    BY <2>1 DEF LastAsked
  <2>2. CASE AG!LastAsks(ms) # 0
    <3>1. AG!LastAsks(ms) \in DOMAIN ms /\ ms[AG!LastAsks(ms)].kind = "asks"
      BY <2>2, LastAsksIs
    <3> QED BY <2>2, <3>1 DEF LastAsked, AG!Asked
  <2> QED BY <2>1, <2>2
<1> QED BY <1>2, <1>3, <1>4

Unlike(s) == \A i, j \in 1 .. Len(s) : s[i] = s[j] => i = j

LEMMA HeadAndTail ==
  ASSUME NEW S, NEW s \in Seq(S), s # <<>>
  PROVE  /\ Head(s) \in S /\ Tail(s) \in Seq(S)
         /\ AG!Range(s) = {Head(s)} \cup AG!Range(Tail(s))
         /\ Unlike(s) => Unlike(Tail(s)) /\ Head(s) \notin AG!Range(Tail(s))
<1>1. PICK N \in Nat : N = Len(s)
  OBVIOUS
<1>2. PICK t : t = Tail(s)
  BY Zenon
<1>3. /\ N >= 1 /\ t \in Seq(S) /\ Len(t) = N - 1 /\ DOMAIN t = 1 .. N - 1 /\ DOMAIN s = 1 .. N
      /\ Head(s) = s[1] /\ \A i \in 1 .. N - 1 : t[i] = s[i + 1]
  BY <1>1, <1>2
<1>4. Head(s) \in S
  OBVIOUS
<1>5. AG!Range(s) \subseteq {Head(s)} \cup AG!Range(t)
  <2> SUFFICES ASSUME NEW i \in 1 .. N, i # 1 PROVE s[i] \in AG!Range(t)
    BY <1>3 DEF AG!Range
  <2>1. i - 1 \in 1 .. N - 1 /\ (i - 1) + 1 = i
    BY <1>3
  <2>2. t[i - 1] = s[i]
    BY <1>3, <2>1
  <2> QED BY <1>3, <2>1, <2>2 DEF AG!Range
<1>6. {Head(s)} \cup AG!Range(t) \subseteq AG!Range(s)
  <2> SUFFICES ASSUME NEW i \in 1 .. N - 1 PROVE t[i] \in AG!Range(s)
    BY <1>3 DEF AG!Range
  <2>1. i + 1 \in 1 .. N /\ t[i] = s[i + 1]
    BY <1>3
  <2> QED BY <1>3, <2>1, Zenon DEF AG!Range
<1>7. Unlike(s) => Unlike(t) /\ Head(s) \notin AG!Range(t)
  <2> SUFFICES ASSUME Unlike(s) PROVE Unlike(t) /\ Head(s) \notin AG!Range(t)
    OBVIOUS
  <2>1. Unlike(t)
    <3> SUFFICES ASSUME NEW i \in 1 .. N - 1, NEW j \in 1 .. N - 1, t[i] = t[j] PROVE i = j
      BY <1>3 DEF Unlike
    <3>1. i + 1 \in 1 .. N /\ j + 1 \in 1 .. N /\ s[i + 1] = s[j + 1]
      BY <1>3
    <3>2. i + 1 = j + 1
      BY <1>1, <3>1 DEF Unlike
    <3> QED BY <3>2
  <2>2. Head(s) \notin AG!Range(t)
    <3> SUFFICES ASSUME NEW i \in 1 .. N - 1, t[i] = s[1] PROVE FALSE
      BY <1>3 DEF AG!Range
    <3>1. i + 1 \in 1 .. N /\ 1 \in 1 .. N /\ s[i + 1] = s[1]
      BY <1>3
    <3>2. i + 1 = 1
      BY <1>1, <3>1 DEF Unlike
    <3> QED BY <3>2
  <2> QED BY <2>1, <2>2
<1> QED BY <1>2, <1>3, <1>4, <1>5, <1>6, <1>7
-----------------------------------------------------------------------------
AgentTyped ==
    /\ calls \in Seq([tool : AG!Tools, id : Nat]) /\ Len(calls) <= MaxCalls
    /\ \A n \in Made : AG!Id(n) = MaxPerTurn + n \/ ~AG!Given(n)
    /\ page \in [msgs : Seq(Messages(Made)), pending : SUBSET Made, waits : 0 .. MaxChatRequests]
    /\ DOMAIN chat = AG!Requests
    /\ \A k \in AG!Requests : chat[k] \in {[at |-> "none"], [at |-> "over"]} \cup Chatting(Made)
    /\ page.waits # 0 => AG!Working(page.waits)
    /\ runs \in [AG!CallIds -> Nat] /\ \A n \in AG!CallIds \ Made : runs[n] = 0
    /\ agreed \subseteq Made /\ unheard \subseteq Made /\ gap \in BOOLEAN

\* The request d the page waits for: what the page has of its conversation, and the calls it
\* has to do, none of which ran unheard of.
Heard(d) ==
    /\ page.msgs = IF d.stream THEN Talk(d) ELSE d.base
    /\ d.at = "start" => d.new = <<>> /\ d.pending = {}
    /\ Unlike(d.todo)
    /\ \A n \in AG!Range(d.todo) : runs[n] > 0 => n \in unheard
Hearing == page.waits # 0 => Heard(chat[page.waits])

\* Of a call that ran the page has the result, or will have, or the result got lost.
ResultsKnown == \A n \in Made : runs[n] > 0 /\ n \notin unheard =>
    \/ n \in AG!Answered(page.msgs)
    \/ page.waits # 0 /\ n \in AG!Answered(chat[page.waits].new)

\* The calls request d may run are those that were confirmed, or all.
Consent(d) ==
    /\ \A n \in Made : AG!Id(n) \in d.yes /\ AG!Given(n) => n \in agreed
    /\ \A i \in d.yes : i <= MaxPerTurn + Len(calls)
    /\ d.at = "settle" => \A n \in AG!Range(d.todo) : AG!Id(n) \in d.yes \cup d.no
    /\ d.at = "calls" /\ d.auto => AG!Range(d.todo) \subseteq agreed
    /\ d.at \in {"start", "think"} => d.todo = <<>>
Consented == AG!AskedFirst /\ \A k \in AG!Requests : AG!Working(k) => Consent(chat[k])

\* A conversation in which calls open await their answers.
Complete(msgs, open) == \A n \in AG!Asked(msgs) : n \in AG!Answered(msgs) \cup open \/ ~AG!Given(n)
PageSettled ==
    page.waits = 0 \/ ~chat[page.waits].stream \/ chat[page.waits].at = "start" =>
        Complete(page.msgs, page.pending) /\ page.pending \subseteq LastAsked(page.msgs)
TalkSettled(d) ==
    /\ d.at = "start" => d.yes \cup d.no = AG!IdsOf(page.pending)
    /\ d.at # "start" => Complete(Talk(d), d.pending \cup AG!Range(d.todo))
    /\ d.at \in {"settle", "think"} => d.pending = {}
    /\ d.at = "calls" => d.pending \cup AG!Range(d.todo) \subseteq LastAsked(Talk(d))
Settled == ~gap => PageSettled /\ (page.waits # 0 => TalkSettled(chat[page.waits]))

AgentInv == AgentTyped /\ Hearing /\ ResultsKnown /\ AG!RunOnce /\ Consented /\ Settled

LEMMA AtWorkIs ==
  ASSUME AgentTyped, NEW k \in AG!Requests, AG!Working(k)
  PROVE  chat[k] \in Chatting(Made) /\ k # 0
BY DEF AgentTyped, AG!Working, AG!Requests

\* The parts of a request under way.
LEMMA ChatFields ==
  ASSUME NEW S, NEW d \in Chatting(S)
  PROVE  /\ d.at \in {"start", "settle", "think", "calls"} /\ d.stream \in BOOLEAN /\ d.auto \in BOOLEAN
         /\ d.base \in Seq(Messages(S)) /\ d.new \in Seq(Messages(S)) /\ Talk(d) \in Seq(Messages(S))
         /\ d.yes \subseteq Nat /\ d.no \subseteq Nat /\ d.round \in Nat /\ d.todo \in Seq(S) /\ d.pending \subseteq S
<1>1. d.base \in Seq(Messages(S)) /\ d.new \in Seq(Messages(S))
  BY DEF Chatting
<1>2. Talk(d) \in Seq(Messages(S))
  BY <1>1, TalkTold DEF Talk
<1> QED BY <1>1, <1>2 DEF Chatting

\* The calls stay as they are: what is typed after a step of request k.
LEMMA TypedGoes ==
  ASSUME AgentTyped, UNCHANGED calls, NEW k \in AG!Requests, NEW r \in Chatting(Made) \cup {[at |-> "over"]},
         chat' = [chat EXCEPT ![k] = r],
         page' \in [msgs : Seq(Messages(Made)), pending : SUBSET Made, waits : 0 .. MaxChatRequests],
         page'.waits \in {0, page.waits, k}, page'.waits = k => r \in Chatting(Made),
         runs' \in [AG!CallIds -> Nat], \A n \in AG!CallIds \ Made : runs'[n] = 0,
         agreed' \subseteq Made, unheard' \subseteq Made, gap' \in BOOLEAN
  PROVE  /\ AgentTyped' /\ Made' = Made /\ chat'[k] = r /\ \A l \in AG!Requests \ {k} : chat'[l] = chat[l]
         /\ \A n : AG!Id(n)' = AG!Id(n) /\ AG!Given(n)' = AG!Given(n)
<1>1. Made' = Made /\ \A n : AG!Id(n)' = AG!Id(n) /\ AG!Given(n)' = AG!Given(n)
  BY DEF Made, AG!Id, AG!Given
<1>2. DOMAIN chat' = AG!Requests /\ chat'[k] = r /\ \A l \in AG!Requests \ {k} : chat'[l] = chat[l]
  BY DEF AgentTyped
<1>3. \A l \in AG!Requests : chat'[l] \in {[at |-> "none"], [at |-> "over"]} \cup Chatting(Made)
  BY <1>2 DEF AgentTyped
<1>4. page'.waits # 0 => AG!Working(page.waits)'
  <2> SUFFICES ASSUME page'.waits # 0 PROVE chat'[page'.waits].at \notin {"none", "over"}
    BY DEF AG!Working
  <2>1. CASE page'.waits = k
    <3>1. r \in Chatting(Made)
      BY <2>1
    <3>2. r.at \in {"start", "settle", "think", "calls"}
      BY <3>1, ChatFields
    <3> QED BY <1>2, <2>1, <3>2
  <2>2. CASE page'.waits # k
    <3>1. page'.waits = page.waits /\ page.waits # 0 /\ page.waits \in 0 .. MaxChatRequests
      BY <2>2 DEF AgentTyped
    <3>2. page.waits \in AG!Requests \ {k}
      BY <2>2, <3>1 DEF AG!Requests
    <3>3. chat[page.waits].at \notin {"none", "over"}
      BY <3>1 DEF AgentTyped, AG!Working
    <3> QED BY <1>2, <3>1, <3>2, <3>3
  <2> QED BY <2>1, <2>2
<1> QED BY <1>1, <1>2, <1>3, <1>4 DEF AgentTyped

\* The two kinds of message.
LEMMA MessageIs ==
  ASSUME NEW S
  PROVE  /\ \A n \in S : /\ AG!Result(n) \in Messages(S) /\ AG!Result(n).kind = "result"
                         /\ AG!Result(n).ns[1] = n
         /\ \A s \in Seq(S) \ {<<>>} : /\ AG!Asks(s) \in Messages(S) /\ AG!Asks(s).kind = "asks"
                                       /\ AG!Asks(s).ns = s
<1>1. ASSUME NEW n \in S
      PROVE  AG!Result(n) \in Messages(S) /\ AG!Result(n).kind = "result" /\ AG!Result(n).ns[1] = n
  <2>1. <<n>> \in Seq(S) /\ <<n>> # <<>> /\ <<n>>[1] = n
    OBVIOUS
  <2> QED BY <2>1 DEF AG!Result, Messages
<1> QED BY <1>1 DEF AG!Asks, Messages

LEMMA AddedTo ==
  ASSUME NEW S, NEW a \in Seq(Messages(S)), NEW b \in Seq(Messages(S)), NEW m \in Messages(S)
  PROVE  a \o Append(b, m) = Append(a \o b, m)
OBVIOUS

\* An id of its own tells a call.
LEMMA OwnId ==
  ASSUME AgentTyped, NEW n \in Made, NEW m \in Made, AG!Given(n), AG!Id(n) = AG!Id(m)
  PROVE  n = m
<1>1. AG!Id(n) = MaxPerTurn + n /\ (AG!Id(m) = MaxPerTurn + m \/ ~AG!Given(m)) /\ AG!Given(m)
  BY DEF AgentTyped, AG!Given
<1>2. n \in Nat /\ m \in Nat /\ MaxPerTurn \in Nat
  BY AgentAssumption DEF AgentTyped, Made
<1> QED BY <1>1, <1>2

\* What the other requests may run stays as it was.
LEMMA ConsentGoes ==
  ASSUME AgentTyped, Consented, UNCHANGED calls, agreed \subseteq agreed', NEW k \in AG!Requests,
         \A l \in AG!Requests \ {k} : chat'[l] = chat[l],
         AG!Working(k)' => Consent(chat[k])'
  PROVE  \A l \in AG!Requests : AG!Working(l)' => Consent(chat[l])'
<1> SUFFICES ASSUME NEW l \in AG!Requests, l # k, AG!Working(l)'
             PROVE  Consent(chat[l])'
  OBVIOUS
<1>1. PICK d : d = chat[l]
  OBVIOUS
<1>2. chat'[l] = d /\ AG!Working(l)
  BY <1>1 DEF AG!Working
<1>3. Consent(d)
  BY <1>1, <1>2 DEF Consented
<1>4. Made' = Made /\ \A n : AG!Id(n)' = AG!Id(n) /\ AG!Given(n)' = AG!Given(n)
  BY DEF Made, AG!Id, AG!Given
<1>5. Consent(d)'
  BY <1>3, <1>4 DEF Consent
<1> QED BY <1>2, <1>5

\* The calls are those numbered so far.
LEMMA MadeIs ==
  ASSUME AgentTyped
  PROVE  DOMAIN calls = Made /\ Made \subseteq AG!CallIds /\ Made \subseteq Nat
BY AgentAssumption DEF AgentTyped, Made, AG!CallIds

LEMMA ElementsIn ==
  ASSUME NEW S, NEW s \in Seq(S)
  PROVE  AG!Range(s) \subseteq S
<1> SUFFICES ASSUME NEW i \in 1 .. Len(s) PROVE s[i] \in S
  BY DEF AG!Range
<1> QED BY ElementOfSeq

\* A step of request k of which the page hears nothing.
LEMMA UnheardKeeps ==
  ASSUME AgentInv, UNCHANGED <<calls, page, agreed, gap>>, NEW k \in AG!Requests, page.waits # k,
         NEW r \in Chatting(Made) \cup {[at |-> "over"]}, chat' = [chat EXCEPT ![k] = r],
         r \in Chatting(Made) => Consent(r)',
         runs' \in [AG!CallIds -> Nat], \A n \in AG!CallIds \ Made : runs'[n] = 0,
         unheard \subseteq unheard', unheard' \subseteq Made,
         \A n \in Made : runs'[n] = runs[n] \/ n \in unheard', AG!AskedFirst'
  PROVE  AgentInv'
<1> USE DEF AgentInv
<1>1. /\ page.msgs \in Seq(Messages(Made)) /\ page.pending \subseteq Made /\ page.waits \in 0 .. MaxChatRequests
      /\ page \in [msgs : Seq(Messages(Made)), pending : SUBSET Made, waits : 0 .. MaxChatRequests]
  BY DEF AgentTyped
<1>2. agreed' \subseteq Made /\ gap' \in BOOLEAN
  BY DEF AgentTyped
<1>3. /\ AgentTyped' /\ Made' = Made /\ chat'[k] = r /\ \A l \in AG!Requests \ {k} : chat'[l] = chat[l]
      /\ \A i : AG!Id(i)' = AG!Id(i) /\ AG!Given(i)' = AG!Given(i)
  BY <1>1, <1>2, TypedGoes, Zenon
<1>4. page.waits # 0 => page.waits \in AG!Requests \ {k}
  BY <1>1 DEF AG!Requests
<1>5. page.waits # 0 => chat'[page.waits] = chat[page.waits]
  BY <1>3, <1>4
<1>6. Hearing'
  <2> SUFFICES ASSUME page.waits # 0 PROVE Heard(chat[page.waits])'
    BY DEF Hearing
  <2>1. PICK w : w = chat[page.waits]
    OBVIOUS
  <2>2. Heard(w) /\ w \in Chatting(Made)
    BY <1>4, <2>1, AtWorkIs DEF Hearing, AgentTyped
  <2>3. \A i \in AG!Range(w.todo) : runs'[i] > 0 => i \in unheard'
    <3> SUFFICES ASSUME NEW i \in AG!Range(w.todo), runs'[i] > 0 PROVE i \in unheard'
      OBVIOUS
    <3>1. i \in Made
      BY <2>2, ChatFields, ElementsIn
    <3>2. runs[i] > 0 => i \in unheard
      BY <2>2 DEF Heard
    <3> QED BY <3>1, <3>2
  <2>4. Heard(w)'
    BY <2>2, <2>3 DEF Heard
  <2> QED BY <1>5, <2>1, <2>4
<1>7. ResultsKnown'
  <2> SUFFICES ASSUME NEW i \in Made, runs'[i] > 0, i \notin unheard'
               PROVE  \/ i \in AG!Answered(page.msgs)
                      \/ page.waits # 0 /\ i \in AG!Answered(chat'[page.waits].new)
    BY <1>3 DEF ResultsKnown
  <2>1. runs[i] > 0 /\ i \notin unheard
    OBVIOUS
  <2> QED BY <1>5, <2>1 DEF ResultsKnown
<1>8. AG!RunOnce'
  <2> SUFFICES ASSUME NEW i \in Made, runs'[i] > 1 PROVE i \in unheard'
    BY <1>3, MadeIs DEF AG!RunOnce
  <2> QED BY MadeIs DEF AG!RunOnce
<1>9. Consented'
  <2>1. AG!Working(k)' => Consent(chat[k])'
    BY <1>3 DEF AG!Working
  <2> QED BY <1>3, <2>1, ConsentGoes DEF Consented
<1>10. Settled'
  <2> SUFFICES ASSUME ~gap PROVE PageSettled' /\ (page.waits # 0 => TalkSettled(chat[page.waits])')
    BY DEF Settled
  <2>1. PageSettled /\ (page.waits # 0 => TalkSettled(chat[page.waits]))
    BY DEF Settled
  <2>2. PageSettled'
    BY <1>3, <1>5, <2>1 DEF PageSettled, Complete
  <2>3. ASSUME page.waits # 0 PROVE TalkSettled(chat[page.waits])'
    <3>1. PICK w : w = chat[page.waits]
      OBVIOUS
    <3>2. TalkSettled(w)
      BY <2>1, <2>3, <3>1
    <3>3. TalkSettled(w)'
      BY <1>3, <3>2 DEF TalkSettled, Complete, AG!IdsOf, AG!Id
    <3> QED BY <1>5, <2>3, <3>1, <3>3
  <2> QED BY <2>2, <2>3
<1> QED BY <1>3, <1>6, <1>7, <1>8, <1>9, <1>10

\* A call's result: of settling the confirmed calls, or of a call of the model.
LEMMA AnswerKeeps ==
  ASSUME AgentInv, NEW k \in AG!Requests, chat[k].at \in {"settle", "calls"},
         chat[k].todo # <<>>, NEW ran \in BOOLEAN, AG!Answer(k, ran),
         ran /\ calls[Head(chat[k].todo)].tool = "change" /\ AG!Given(Head(chat[k].todo)) =>
             Head(chat[k].todo) \in agreed
  PROVE  AgentInv'
<1> USE DEF AgentInv
<1>1. PICK d \in Chatting(Made) : d = chat[k]
  BY AtWorkIs DEF AG!Working
<1>2. PICK n : n = Head(d.todo)
  OBVIOUS
<1>3. PICK r : r = [d EXCEPT !.todo = Tail(@), !.new = Append(@, AG!Result(n))]
  OBVIOUS
<1>4. PICK m : m = AG!Result(n)
  OBVIOUS
<1>5. /\ n \in Made /\ Tail(d.todo) \in Seq(Made) /\ AG!Range(d.todo) = {n} \cup AG!Range(Tail(d.todo))
      /\ Unlike(d.todo) => Unlike(Tail(d.todo)) /\ n \notin AG!Range(Tail(d.todo))
  BY <1>1, <1>2, ChatFields, HeadAndTail
<1>6. m \in Messages(Made) /\ m.kind = "result" /\ m.ns[1] = n
  BY <1>4, <1>5, MessageIs
<1>7. /\ d.base \in Seq(Messages(Made)) /\ d.new \in Seq(Messages(Made)) /\ Talk(d) \in Seq(Messages(Made))
      /\ d.stream \in BOOLEAN /\ d.at \in {"settle", "calls"} /\ d.pending \subseteq Made
  BY <1>1, ChatFields
<1>8. /\ r.at = d.at /\ r.stream = d.stream /\ r.auto = d.auto /\ r.base = d.base /\ r.yes = d.yes
      /\ r.no = d.no /\ r.pending = d.pending /\ r.todo = Tail(d.todo) /\ r.new = Append(d.new, m)
  BY <1>1, <1>3, <1>4 DEF Chatting
<1>9. Append(d.new, m) \in Seq(Messages(Made)) /\ AG!Answered(r.new) = AG!Answered(d.new) \cup {n}
  BY <1>6, <1>7, <1>8, MoreTold
<1>10. r \in Chatting(Made)
  BY <1>1, <1>3, <1>4, <1>5, <1>9, Zenon DEF Chatting
<1>11. Talk(r) = Append(Talk(d), m)
  <2>1. d.base \o Append(d.new, m) = Append(d.base \o d.new, m)
    <3>1. \A x, y \in Seq(Messages(Made)) : \A z \in Messages(Made) : x \o Append(y, z) = Append(x \o y, z)
      BY AddedTo
    <3>2. d.base \in Seq(Messages(Made)) /\ d.new \in Seq(Messages(Made)) /\ m \in Messages(Made)
      BY <1>6, <1>7
    <3> QED BY <3>1, <3>2, Zenon
  <2> QED BY <1>8, <2>1 DEF Talk
<1>12. /\ AG!Answered(Talk(r)) = AG!Answered(Talk(d)) \cup {n} /\ AG!Asked(Talk(r)) = AG!Asked(Talk(d))
       /\ LastAsked(Talk(r)) = LastAsked(Talk(d)) /\ Talk(r) \in Seq(Messages(Made))
  BY <1>6, <1>7, <1>11, MoreTold
<1>13. /\ runs' = (IF ran THEN [runs EXCEPT ![n] = @ + 1] ELSE runs)
       /\ chat' = [chat EXCEPT ![k] = r]
       /\ page' = (IF page.waits = k /\ d.stream THEN AG!Told(m) ELSE page)
       /\ unheard' = (IF ran /\ page.waits # k THEN unheard \cup {n} ELSE unheard)
       /\ UNCHANGED <<calls, agreed, gap>>
  <2>1. chat' = [chat EXCEPT ![k].todo = Tail(@), ![k].new = Append(@, AG!Result(n))]
    BY <1>1, <1>2 DEF AG!Answer
  <2>2. chat' = [chat EXCEPT ![k] = r]
    BY <1>1, <1>3, <2>1, Zenon DEF AgentTyped
  <2> QED BY <1>1, <1>2, <1>4, <2>2, Zenon DEF AG!Answer, AG!Shown, AG!Hears
<1>14. /\ page.msgs \in Seq(Messages(Made)) /\ page.pending \subseteq Made /\ page.waits \in 0 .. MaxChatRequests
       /\ page \in [msgs : Seq(Messages(Made)), pending : SUBSET Made, waits : 0 .. MaxChatRequests]
  BY DEF AgentTyped
<1>15. Append(page.msgs, m) \in Seq(Messages(Made))
       /\ AG!Answered(Append(page.msgs, m)) = AG!Answered(page.msgs) \cup {n}
  BY <1>6, <1>14, MoreTold
<1>16. /\ page' \in [msgs : Seq(Messages(Made)), pending : SUBSET Made, waits : 0 .. MaxChatRequests]
       /\ page'.waits = page.waits /\ page'.pending = page.pending
       /\ page'.msgs = IF page.waits = k /\ d.stream THEN Append(page.msgs, m) ELSE page.msgs
  BY <1>13, <1>14, <1>15, Zenon DEF AG!Told
<1>17. /\ runs' \in [AG!CallIds -> Nat] /\ \A i \in AG!CallIds \ Made : runs'[i] = 0
       /\ n \in AG!CallIds /\ \A i \in AG!CallIds \ {n} : runs'[i] = runs[i]
       /\ runs'[n] = IF ran THEN runs[n] + 1 ELSE runs[n]
       /\ Made \subseteq AG!CallIds /\ runs[n] \in Nat
  <2>1. Made \subseteq AG!CallIds
    BY AgentAssumption DEF AgentTyped, Made, AG!CallIds
  <2> QED BY <1>5, <1>13, <2>1 DEF AgentTyped
<1>18. agreed' \subseteq Made /\ unheard' \subseteq Made /\ gap' \in BOOLEAN
  BY <1>5, <1>13 DEF AgentTyped
<1>19. /\ AgentTyped' /\ Made' = Made /\ chat'[k] = r /\ \A l \in AG!Requests \ {k} : chat'[l] = chat[l]
       /\ \A i : AG!Id(i)' = AG!Id(i) /\ AG!Given(i)' = AG!Given(i)
  BY <1>10, <1>13, <1>16, <1>17, <1>18, TypedGoes, Zenon
<1>20. AG!AskedFirst' /\ Consent(r)' /\ Consented'
  <2>1. AG!AskedFirst'
    <3> SUFFICES ASSUME NEW i \in Made, runs'[i] > 0, calls[i].tool = "change", AG!Given(i)
                 PROVE  i \in agreed
      BY <1>13, <1>19, MadeIs DEF AG!AskedFirst
    <3>1. CASE i = n /\ ran
      BY <1>1, <1>2, <3>1
    <3>2. CASE i # n \/ ~ran
      <4>1. runs[i] > 0
        BY <1>17, <3>2
      <4> QED BY <4>1, MadeIs DEF Consented, AG!AskedFirst
    <3> QED BY <3>1, <3>2
  <2>2. Consent(r)'
    <3>1. Consent(d)
      BY <1>1, <1>7 DEF Consented, AG!Working
    <3> QED BY <1>5, <1>8, <1>13, <1>19, <3>1 DEF Consent
  <2>3. \A l \in AG!Requests : AG!Working(l)' => Consent(chat[l])'
    BY <1>13, <1>19, <2>2, ConsentGoes
  <2> QED BY <2>1, <2>2, <2>3 DEF Consented
<1>21. CASE page.waits # k
  <2>1. UNCHANGED page /\ unheard \subseteq unheard'
    BY <1>13, <1>21
  <2>2. \A i \in Made : runs'[i] = runs[i] \/ i \in unheard'
    BY <1>13, <1>17, <1>21
  <2> QED BY <1>10, <1>13, <1>17, <1>18, <1>20, <1>21, <2>1, <2>2, UnheardKeeps, Zenon
<1>22. CASE page.waits = k
  <2>1. k # 0 /\ Heard(d) /\ unheard' = unheard
    BY <1>1, <1>13, <1>22 DEF Hearing, AG!Requests
  <2>2. Hearing'
    <3>1. page'.msgs = IF r.stream THEN Talk(r) ELSE r.base
      BY <1>8, <1>11, <1>16, <1>22, <2>1 DEF Heard
    <3>2. \A i \in AG!Range(r.todo) : runs'[i] > 0 => i \in unheard'
      <4> SUFFICES ASSUME NEW i \in AG!Range(Tail(d.todo)), runs'[i] > 0 PROVE i \in unheard
        BY <1>8, <2>1
      <4>1. i \in AG!Range(d.todo) /\ i # n
        BY <1>5, <2>1 DEF Heard
      <4>2. i \in Made
        BY <1>5, ElementsIn
      <4>3. runs[i] > 0
        BY <1>17, <4>1, <4>2
      <4> QED BY <2>1, <4>1, <4>3 DEF Heard
    <3>3. Unlike(r.todo) /\ r.at # "start"
      BY <1>5, <1>7, <1>8, <2>1 DEF Heard
    <3>4. Heard(r)'
      BY <3>1, <3>2, <3>3 DEF Heard
    <3> QED BY <1>16, <1>19, <1>22, <3>4 DEF Hearing
  <2>3. ResultsKnown'
    <3> SUFFICES ASSUME NEW i \in Made, runs'[i] > 0, i \notin unheard
                 PROVE  i \in AG!Answered(page'.msgs) \/ i \in AG!Answered(r.new)
      BY <1>16, <1>19, <1>22, <2>1 DEF ResultsKnown
    <3>1. CASE i = n
      BY <1>9, <3>1
    <3>2. CASE i # n
      <4>1. runs[i] > 0
        BY <1>17, <3>2, MadeIs
      <4>2. i \in AG!Answered(page.msgs) \/ i \in AG!Answered(d.new)
        BY <1>1, <1>22, <4>1 DEF ResultsKnown
      <4>3. AG!Answered(page.msgs) \subseteq AG!Answered(page'.msgs)
        BY <1>15, <1>16
      <4> QED BY <1>9, <4>2, <4>3
    <3> QED BY <3>1, <3>2
  <2>4. AG!RunOnce'
    <3> SUFFICES ASSUME NEW i \in Made, runs'[i] > 1 PROVE i \in unheard
      BY <1>13, <1>19, <2>1, MadeIs DEF AG!RunOnce
    <3>1. CASE i = n /\ ran
      <4>1. runs[n] > 0 /\ n \in AG!Range(d.todo)
        BY <1>5, <1>17, <3>1
      <4> QED BY <2>1, <3>1, <4>1 DEF Heard
    <3>2. CASE i # n \/ ~ran
      <4>1. runs[i] > 1
        BY <1>17, <3>2, MadeIs
      <4> QED BY <4>1, MadeIs DEF AG!RunOnce
    <3> QED BY <3>1, <3>2
  <2>5. Settled'
    <3> SUFFICES ASSUME ~gap PROVE PageSettled' /\ TalkSettled(r)'
      BY <1>13, <1>16, <1>19, <1>22 DEF Settled
    <3>1. PageSettled /\ TalkSettled(d)
      BY <1>1, <1>22, <2>1 DEF Settled
    <3>2. PageSettled'
      <4>1. CASE d.stream
        BY <1>7, <1>8, <1>16, <1>19, <1>22, <2>1, <4>1, Zenon DEF PageSettled
      <4>2. CASE ~d.stream
        <5>1. Complete(page.msgs, page.pending) /\ page.pending \subseteq LastAsked(page.msgs)
          BY <1>1, <1>22, <3>1, <4>2 DEF PageSettled
        <5>2. page'.msgs = page.msgs /\ page'.pending = page.pending
          BY <1>16, <4>2
        <5> QED BY <1>19, <5>1, <5>2 DEF PageSettled, Complete
      <4> QED BY <4>1, <4>2
    <3>3. Complete(Talk(r), r.pending \cup AG!Range(r.todo))
      BY <1>5, <1>7, <1>8, <1>12, <3>1 DEF TalkSettled, Complete
    <3>4. TalkSettled(r)
      BY <1>5, <1>7, <1>8, <1>12, <3>1, <3>3 DEF TalkSettled
    <3>5. TalkSettled(r)'
      BY <1>7, <1>8, <1>19, <3>4 DEF TalkSettled, Complete
    <3> QED BY <3>2, <3>5
  <2> QED BY <1>19, <1>20, <2>2, <2>3, <2>4, <2>5
<1> QED BY <1>21, <1>22

\* A step of request k that runs nothing and tells nothing.
LEMMA QuietKeeps ==
  ASSUME AgentInv, UNCHANGED <<calls, page, runs, agreed, unheard, gap>>, NEW k \in AG!Requests,
         AG!Working(k), NEW r \in Chatting(Made), chat' = [chat EXCEPT ![k] = r], Consent(r), r.at # "start",
         r.stream = chat[k].stream, r.new = chat[k].new, Talk(r) = Talk(chat[k]), r.base = chat[k].base,
         page.waits = k => /\ Unlike(r.todo) /\ \A n \in AG!Range(r.todo) : runs[n] > 0 => n \in unheard
                           /\ ~gap => TalkSettled(r)
  PROVE  AgentInv'
<1> USE DEF AgentInv
<1>1. /\ page.msgs \in Seq(Messages(Made)) /\ page.pending \subseteq Made /\ page.waits \in 0 .. MaxChatRequests
      /\ page \in [msgs : Seq(Messages(Made)), pending : SUBSET Made, waits : 0 .. MaxChatRequests]
  BY DEF AgentTyped
<1>2. /\ agreed' \subseteq Made /\ unheard' \subseteq Made /\ gap' \in BOOLEAN
      /\ runs' \in [AG!CallIds -> Nat] /\ \A n \in AG!CallIds \ Made : runs'[n] = 0
  BY DEF AgentTyped
<1>3. /\ AgentTyped' /\ Made' = Made /\ chat'[k] = r /\ \A l \in AG!Requests \ {k} : chat'[l] = chat[l]
      /\ \A i : AG!Id(i)' = AG!Id(i) /\ AG!Given(i)' = AG!Given(i)
  BY <1>1, <1>2, TypedGoes, Zenon
<1>4. AG!AskedFirst'
  BY <1>3 DEF Consented, AG!AskedFirst
<1>5. Consent(r)'
  BY <1>3 DEF Consent
<1>6. CASE page.waits # k
  BY <1>2, <1>4, <1>5, <1>6, UnheardKeeps, Zenon
<1>7. CASE page.waits = k
  <2>1. k # 0 /\ Heard(chat[k])
    BY <1>7 DEF Hearing, AG!Requests
  <2>2. Heard(r)'
    BY <1>7, <2>1 DEF Heard
  <2>3. Hearing'
    BY <1>3, <1>7, <2>2 DEF Hearing
  <2>4. ResultsKnown'
    BY <1>3, <1>7 DEF ResultsKnown
  <2>5. AG!RunOnce'
    BY DEF AG!RunOnce
  <2>6. Consented'
    <3>1. AG!Working(k)' => Consent(chat[k])'
      BY <1>3, <1>5
    <3> QED BY <1>3, <1>4, <3>1, ConsentGoes DEF Consented
  <2>7. Settled'
    <3> SUFFICES ASSUME ~gap PROVE PageSettled' /\ TalkSettled(r)'
      BY <1>3, <1>7 DEF Settled
    <3>1. PageSettled'
      <4>1. CASE r.stream
        BY <1>3, <1>7, <2>1, <4>1 DEF PageSettled
      <4>2. CASE ~r.stream
        <5>1. Complete(page.msgs, page.pending) /\ page.pending \subseteq LastAsked(page.msgs)
          BY <1>7, <4>2 DEF Settled, PageSettled
        <5> QED BY <1>3, <5>1 DEF PageSettled, Complete
      <4> QED BY <4>1, <4>2
    <3>2. TalkSettled(r)
      BY <1>7
    <3>3. TalkSettled(r)'
      BY <1>3, <3>2 DEF TalkSettled, Complete
    <3> QED BY <3>1, <3>3
  <2> QED BY <1>3, <2>3, <2>4, <2>5, <2>6, <2>7
<1> QED BY <1>6, <1>7

\* A call that waits for its confirmation.
LEMMA WaitsKeeps ==
  ASSUME AgentInv, NEW k \in AG!Requests, chat[k].at = "calls", chat[k].todo # <<>>,
         chat' = [chat EXCEPT ![k].todo = Tail(@), ![k].pending = @ \cup {Head(chat[k].todo)}],
         UNCHANGED <<calls, page, runs, agreed, unheard, gap>>
  PROVE  AgentInv'
<1> USE DEF AgentInv
<1>1. PICK d \in Chatting(Made) : d = chat[k]
  BY AtWorkIs DEF AG!Working
<1>2. PICK n : n = Head(d.todo)
  OBVIOUS
<1>3. PICK r : r = [d EXCEPT !.todo = Tail(@), !.pending = @ \cup {n}]
  OBVIOUS
<1>4. /\ n \in Made /\ Tail(d.todo) \in Seq(Made) /\ AG!Range(d.todo) = {n} \cup AG!Range(Tail(d.todo))
      /\ Unlike(d.todo) => Unlike(Tail(d.todo))
  BY <1>1, <1>2, ChatFields, HeadAndTail
<1>5. /\ r.at = "calls" /\ r.stream = d.stream /\ r.auto = d.auto /\ r.base = d.base /\ r.yes = d.yes
      /\ r.no = d.no /\ r.pending = d.pending \cup {n} /\ r.todo = Tail(d.todo) /\ r.new = d.new
  BY <1>1, <1>3 DEF Chatting
<1>6. r \in Chatting(Made) /\ chat' = [chat EXCEPT ![k] = r]
  BY <1>1, <1>2, <1>3, <1>4, Zenon DEF Chatting, AgentTyped
<1>7. Consent(r)
  <2>1. Consent(d)
    BY <1>1 DEF Consented, AG!Working
  <2> QED BY <1>1, <1>4, <1>5, <2>1 DEF Consent
<1>8. Talk(r) = Talk(d)
  BY <1>5 DEF Talk
<1>9. ASSUME page.waits = k
      PROVE  /\ Unlike(r.todo) /\ \A i \in AG!Range(r.todo) : runs[i] > 0 => i \in unheard
             /\ ~gap => TalkSettled(r)
  <2>1. k # 0 /\ Heard(d)
    BY <1>1, <1>9 DEF Hearing, AG!Requests
  <2>2. ASSUME ~gap PROVE TalkSettled(r)
    <3>1. TalkSettled(d)
      BY <1>1, <1>9, <2>1, <2>2 DEF Settled
    <3>2. r.pending \cup AG!Range(r.todo) = d.pending \cup AG!Range(d.todo)
      BY <1>4, <1>5
    <3> QED BY <1>1, <1>5, <1>8, <3>1, <3>2, Zenon DEF TalkSettled
  <2> QED BY <1>4, <1>5, <2>1, <2>2 DEF Heard
<1>10. AG!Working(k) /\ r.at # "start"
  BY <1>5 DEF AG!Working
<1> QED BY <1>1, <1>5, <1>6, <1>7, <1>8, <1>9, <1>10, QuietKeeps, Zenon

\* A request that ends.
LEMMA CloseKeeps ==
  ASSUME AgentInv, NEW k \in AG!Requests, AG!Working(k), NEW d, NEW well \in BOOLEAN,
         d.base = chat[k].base, d.new = chat[k].new, d.stream = chat[k].stream, d.pending \subseteq Made,
         gap' \in BOOLEAN, ~gap' => ~gap, page.waits # k => gap' = gap,
         page.waits = k /\ ~gap' /\ (well \/ d.stream) =>
             Complete(Talk(d), d.pending) /\ d.pending \subseteq LastAsked(Talk(d)),
         AG!Close(k, d, well)
  PROVE  AgentInv'
<1> USE DEF AgentInv
<1>1. /\ d.base \in Seq(Messages(Made)) /\ d.new \in Seq(Messages(Made)) /\ Talk(d) \in Seq(Messages(Made))
      /\ d.stream \in BOOLEAN /\ Talk(d) = Talk(chat[k]) /\ chat[k] \in Chatting(Made)
  <2>1. chat[k] \in Chatting(Made)
    BY AtWorkIs
  <2> QED BY <2>1, ChatFields DEF Talk
<1>2. AG!Answered(d.new) \subseteq Made /\ AG!Answered(Talk(d)) = AG!Answered(d.base) \cup AG!Answered(d.new)
  BY <1>1, ToldOf, TalkTold DEF Talk
<1>3. PICK r : r = [at |-> "over"]
  BY Zenon
<1>4. r \notin Chatting(Made)
  <2>1. r.at = "over"
    BY <1>3
  <2> QED BY <2>1, ChatFields
<1>5. /\ chat' = [chat EXCEPT ![k] = r] /\ UNCHANGED <<calls, runs, agreed>>
      /\ IF page.waits # k THEN UNCHANGED page
         ELSE page' = IF well \/ d.stream THEN AG!Final(d) ELSE [page EXCEPT !.waits = 0]
      /\ unheard' = IF page.waits = k /\ (well \/ d.stream) THEN unheard ELSE unheard \cup AG!Answered(d.new)
  BY <1>3 DEF AG!Close, AG!Hears
<1>6. /\ agreed' \subseteq Made /\ unheard' \subseteq Made /\ gap' \in BOOLEAN
      /\ runs' \in [AG!CallIds -> Nat] /\ \A n \in AG!CallIds \ Made : runs'[n] = 0
  BY <1>2, <1>5 DEF AgentTyped
<1>7. /\ page.msgs \in Seq(Messages(Made)) /\ page.pending \subseteq Made /\ page.waits \in 0 .. MaxChatRequests
      /\ page \in [msgs : Seq(Messages(Made)), pending : SUBSET Made, waits : 0 .. MaxChatRequests]
  BY DEF AgentTyped
<1>8. Made' = Made /\ \A i : AG!Id(i)' = AG!Id(i) /\ AG!Given(i)' = AG!Given(i)
  BY <1>5 DEF Made, AG!Id, AG!Given
<1>9. AG!AskedFirst'
  BY <1>5, <1>8 DEF Consented, AG!AskedFirst
<1>10. CASE page.waits # k
  <2>1. UNCHANGED page /\ unheard \subseteq unheard'
    BY <1>5, <1>10
  <2>2. \A i \in Made : runs'[i] = runs[i] \/ i \in unheard'
    BY <1>5
  <2> QED BY <1>3, <1>4, <1>5, <1>6, <1>9, <1>10, <2>1, <2>2, UnheardKeeps, Zenon
<1>11. CASE page.waits = k
  <2>1. k # 0 /\ Heard(chat[k])
    BY <1>11 DEF Hearing, AG!Requests
  <2>2. /\ page'.waits = 0
        /\ IF well \/ d.stream THEN page'.msgs = Talk(d) /\ page'.pending = d.pending
           ELSE page'.msgs = page.msgs /\ page'.pending = page.pending
        /\ page' \in [msgs : Seq(Messages(Made)), pending : SUBSET Made, waits : 0 .. MaxChatRequests]
    <3>1. CASE well \/ d.stream
      <4>1. page' = AG!Final(d)
        BY <1>5, <1>11, <3>1
      <4>2. 0 \in 0 .. MaxChatRequests
        BY AgentAssumption
      <4> QED BY <1>1, <3>1, <4>1, <4>2, Zenon DEF AG!Final, Talk
    <3>2. CASE ~ (well \/ d.stream)
      <4>1. page' = [page EXCEPT !.waits = 0]
        BY <1>5, <1>11, <3>2
      <4>2. 0 \in 0 .. MaxChatRequests
        BY AgentAssumption
      <4> QED BY <1>7, <3>2, <4>1, <4>2
    <3> QED BY <3>1, <3>2
  <2>3. /\ AgentTyped' /\ chat'[k] = r /\ \A l \in AG!Requests \ {k} : chat'[l] = chat[l]
    BY <1>3, <1>5, <1>6, <2>1, <2>2, TypedGoes, Zenon
  <2>4. Hearing'
    BY <2>2 DEF Hearing
  <2>5. ResultsKnown'
    <3> SUFFICES ASSUME NEW i \in Made, runs[i] > 0, i \notin unheard'
                 PROVE  i \in AG!Answered(page'.msgs)
      BY <1>5, <1>8, <2>2 DEF ResultsKnown
    <3>1. i \notin unheard
      BY <1>5
    <3>2. i \in AG!Answered(page.msgs) \/ i \in AG!Answered(d.new)
      BY <1>11, <3>1 DEF ResultsKnown
    <3>3. CASE well \/ d.stream
      <4>1. page.msgs = Talk(d) \/ page.msgs = d.base
        BY <1>1, <1>11, <2>1 DEF Heard
      <4> QED BY <1>2, <2>2, <3>2, <3>3, <4>1
    <3>4. CASE ~ (well \/ d.stream)
      BY <1>5, <2>2, <3>2, <3>4
    <3> QED BY <3>3, <3>4
  <2>6. AG!RunOnce'
    BY <1>5 DEF AG!RunOnce
  <2>7. Consented'
    <3>1. ~AG!Working(k)'
      BY <1>3, <2>3 DEF AG!Working
    <3> QED BY <1>5, <1>9, <2>3, <3>1, ConsentGoes DEF Consented
  <2>8. Settled'
    <3> SUFFICES ASSUME ~gap' PROVE PageSettled'
      BY <1>5, <2>2 DEF Settled
    <3> SUFFICES Complete(page'.msgs, page'.pending) /\ page'.pending \subseteq LastAsked(page'.msgs)
      BY <1>8 DEF PageSettled, Complete
    <3>1. CASE well \/ d.stream
      BY <1>11, <2>2, <3>1
    <3>2. CASE ~ (well \/ d.stream)
      BY <1>11, <2>2, <3>2 DEF Settled, PageSettled
    <3> QED BY <3>1, <3>2
  <2> QED BY <2>3, <2>4, <2>5, <2>6, <2>7, <2>8
<1> QED BY <1>10, <1>11

\* The calls a request may run.
LEMMA MayRun ==
  ASSUME AgentInv, NEW k \in AG!Requests, AG!Working(k), chat[k].todo # <<>>,
         NEW n, n = Head(chat[k].todo),
         IF chat[k].at = "settle" THEN AG!Id(n) \notin chat[k].no ELSE ~AG!Waits(k)
  PROVE  n \in Made /\ n \in AG!Range(chat[k].todo) /\ (calls[n].tool = "change" /\ AG!Given(n) => n \in agreed)
<1> USE DEF AgentInv
<1>1. chat[k] \in Chatting(Made)
  BY AtWorkIs
<1>2. chat[k].todo \in Seq(Made) /\ chat[k].at \in {"start", "settle", "think", "calls"}
  BY <1>1, ChatFields
<1>3. n \in Made /\ n \in AG!Range(chat[k].todo)
  BY <1>2, HeadAndTail
<1>4. Consent(chat[k])
  BY DEF Consented
<1>5. CASE chat[k].at = "settle"
  BY <1>3, <1>4, <1>5 DEF Consent
<1>6. CASE chat[k].at = "calls"
  BY <1>3, <1>4, <1>6 DEF Consent, AG!Waits
<1> QED BY <1>2, <1>3, <1>4, <1>5, <1>6 DEF Consent

LEMMA SettleKeeps ==
  ASSUME AgentInv, NEW k \in AG!Requests, AG!Settle(k)
  PROVE  AgentInv'
<1>1. PICK n : n = Head(chat[k].todo)
  OBVIOUS
<1>2. PICK ran \in BOOLEAN : ran <=> AG!Id(n) \notin chat[k].no /\ calls[n].tool # "none"
  BY Zenon
<1>3. chat[k].at = "settle" /\ chat[k].todo # <<>>
  BY DEF AG!Settle
<1>4. AG!Answer(k, ran)
  <2>1. AG!Answer(k, AG!Id(n) \notin chat[k].no /\ calls[n].tool # "none")
    BY <1>1 DEF AG!Settle
  <2>2. ran = (AG!Id(n) \notin chat[k].no /\ calls[n].tool # "none")
    BY <1>2
  <2> QED BY <2>1, <2>2
<1>5. ran /\ calls[n].tool = "change" /\ AG!Given(n) => n \in agreed
  BY <1>1, <1>2, <1>3, MayRun DEF AG!Working
<1> QED BY <1>1, <1>3, <1>4, <1>5, AnswerKeeps

LEMMA CallKeeps ==
  ASSUME AgentInv, NEW k \in AG!Requests, AG!Call(k)
  PROVE  AgentInv'
<1>1. PICK n : n = Head(chat[k].todo)
  OBVIOUS
<1>2. PICK ran \in BOOLEAN : ran <=> calls[n].tool # "none"
  BY Zenon
<1>3. chat[k].at = "calls" /\ chat[k].todo # <<>>
  BY DEF AG!Call
<1>4. CASE AG!Waits(k)
  BY <1>3, <1>4, WaitsKeeps DEF AG!Call
<1>5. CASE ~AG!Waits(k)
  <2>1. AG!Answer(k, calls[n].tool # "none")
    BY <1>1, <1>5 DEF AG!Call
  <2>2. ran = (calls[n].tool # "none")
    BY <1>2
  <2>3. AG!Answer(k, ran)
    BY <2>1, <2>2
  <2>4. calls[n].tool = "change" /\ AG!Given(n) => n \in agreed
    BY <1>1, <1>3, <1>5, MayRun DEF AG!Working
  <2> QED BY <1>1, <1>3, <2>3, <2>4, AnswerKeeps
<1> QED BY <1>4, <1>5

LEMMA CountedAlike == ASSUME NEW S PROVE AG!Cardinality(S) = Cardinality(S)
BY Zenon DEF AG!Cardinality, Cardinality

\* An order in which to take the calls of a set: every one, and once.
LEMMA OrderOf ==
  ASSUME NEW S, IsFiniteSet(S), NEW s \in AG!SetToSeqs(S)
  PROVE  s \in Seq(S) /\ Unlike(s) /\ AG!Range(s) = S
<1>1. PICK N \in Nat : N = Cardinality(S)
  BY FS_CardinalityType
<1>2. s \in [1 .. N -> S] /\ \A i, j \in 1 .. N : i # j => s[i] # s[j]
  <2>1. AG!SetToSeqs(S) = {f \in [1 .. N -> S] : \A i, j \in 1 .. N : i # j => f[i] # f[j]}
    BY <1>1, CountedAlike, Zenon DEF AG!SetToSeqs
  <2> QED BY <2>1
<1>3. s \in Seq(S) /\ Len(s) = N
  BY <1>2
<1>4. Unlike(s)
  BY <1>2, <1>3 DEF Unlike
<1>5. IsFiniteSet(1 .. N) /\ Cardinality(1 .. N) = N
  BY FS_Interval
<1>6. s \in Injection(1 .. N, S)
  BY <1>2 DEF Injection, IsInjective
<1>7. s \in Surjection(1 .. N, S)
  BY <1>1, <1>5, <1>6, FS_Injection
<1>8. \A x \in S : \E i \in 1 .. N : s[i] = x
  BY <1>7 DEF Surjection
<1> QED BY <1>2, <1>3, <1>4, <1>8 DEF AG!Range

\* The confirmed calls are taken up, or the request is refused.
LEMMA OpenKeeps ==
  ASSUME AgentInv, NEW k \in AG!Requests, AG!Open(k)
  PROVE  AgentInv'
<1> USE DEF AgentInv
<1>1. PICK d \in Chatting(Made) : d = chat[k]
  BY AtWorkIs DEF AG!Open, AG!Working
<1>2. AG!Working(k) /\ d.at = "start"
  BY <1>1 DEF AG!Open, AG!Working
<1>3. /\ d.base \in Seq(Messages(Made)) /\ d.new \in Seq(Messages(Made)) /\ d.stream \in BOOLEAN
      /\ d.pending \subseteq Made
  BY <1>1, ChatFields
<1>4. page.waits = k => /\ d.new = <<>> /\ d.pending = {} /\ Talk(d) = d.base /\ page.msgs = d.base
                        /\ ~gap => /\ Complete(d.base, page.pending) /\ page.pending \subseteq LastAsked(d.base)
                                    /\ d.yes \cup d.no = AG!IdsOf(page.pending)
  <2> SUFFICES ASSUME page.waits = k
               PROVE  /\ d.new = <<>> /\ d.pending = {} /\ Talk(d) = d.base /\ page.msgs = d.base
                      /\ ~gap => /\ Complete(d.base, page.pending) /\ page.pending \subseteq LastAsked(d.base)
                                  /\ d.yes \cup d.no = AG!IdsOf(page.pending)
    OBVIOUS
  <2>1. k # 0 /\ Heard(d)
    BY <1>1 DEF Hearing, AG!Requests
  <2>2. d.new = <<>> /\ d.pending = {} /\ (page.msgs = Talk(d) \/ page.msgs = d.base)
    BY <1>2, <2>1 DEF Heard
  <2>3. Talk(d) = d.base
    BY <1>3, <2>2, TalkTold DEF Talk
  <2>4. ~gap => PageSettled /\ TalkSettled(d)
    BY <1>1, <2>1 DEF Settled
  <2> QED BY <1>1, <1>2, <2>2, <2>3, <2>4 DEF PageSettled, TalkSettled
<1>5. CASE AG!LastAsks(d.base) = 0
  <2>1. AG!Close(k, d, FALSE)
    BY <1>1, <1>5, Zenon DEF AG!Open
  <2>4. gap' = gap /\ gap \in BOOLEAN
    BY <1>1, <1>5 DEF AG!Open, AgentTyped
  <2>2. LastAsked(d.base) = {}
    BY <1>5 DEF LastAsked
  <2>3. page.waits = k /\ ~gap => Complete(Talk(d), d.pending) /\ d.pending \subseteq LastAsked(Talk(d))
    BY <1>4, <2>2 DEF Complete
  <2> QED BY <1>1, <1>2, <1>3, <2>1, <2>3, <2>4, CloseKeeps, Zenon
<1>6. CASE AG!LastAsks(d.base) # 0
  <2>1. PICK s \in AG!SetToSeqs(AG!Chosen(d)) :
          /\ chat' = [chat EXCEPT ![k].at = "settle", ![k].todo = s]
          /\ UNCHANGED <<calls, page, runs, agreed, unheard, gap>>
    BY <1>1, <1>6 DEF AG!Open
  <2>2. /\ AG!Chosen(d) = {n \in LastAsked(d.base) : AG!Id(n) \in d.yes \cup d.no /\ AG!Id(n) \notin AG!IdsOf(AG!Answered(d.base))}
        /\ AG!Chosen(d) \subseteq Made
    <3>1. LastAsked(d.base) \subseteq Made
      BY <1>3, ToldOf
    <3> QED BY <1>6, <3>1 DEF AG!Chosen, LastAsked
  <2>3. IsFiniteSet(AG!Chosen(d))
    <3>1. IsFiniteSet(Made)
      BY FS_Interval DEF AgentTyped, Made
    <3> QED BY <2>2, <3>1, FS_Subset
  <2>4. s \in Seq(Made) /\ Unlike(s) /\ AG!Range(s) = AG!Chosen(d)
    <3>1. s \in Seq(AG!Chosen(d)) /\ Unlike(s) /\ AG!Range(s) = AG!Chosen(d)
      BY <2>3, OrderOf
    <3> QED BY <2>2, <3>1
  <2>5. PICK r : r = [d EXCEPT !.at = "settle", !.todo = s]
    OBVIOUS
  <2>6. /\ r.at = "settle" /\ r.stream = d.stream /\ r.auto = d.auto /\ r.base = d.base /\ r.yes = d.yes
        /\ r.no = d.no /\ r.pending = d.pending /\ r.todo = s /\ r.new = d.new
        /\ r \in Chatting(Made) /\ Talk(r) = Talk(d)
    BY <1>1, <2>4, <2>5, Zenon DEF Chatting, Talk
  <2>7. chat' = [chat EXCEPT ![k] = r]
    BY <1>1, <2>1, <2>5, Zenon DEF AgentTyped
  <2>8. Consent(r)
    <3>1. Consent(d)
      BY <1>1, <1>2 DEF Consented
    <3> QED BY <2>2, <2>4, <2>6, <3>1 DEF Consent
  <2>9. ASSUME page.waits = k
        PROVE  /\ \A n \in AG!Range(s) : runs[n] > 0 => n \in unheard
               /\ ~gap => TalkSettled(r)
    <3>1. \A n \in AG!Range(s) : runs[n] > 0 => n \in unheard
      <4> SUFFICES ASSUME NEW n \in AG!Range(s), runs[n] > 0, n \notin unheard PROVE FALSE
        OBVIOUS
      <4>1. n \in Made /\ n \notin AG!Answered(d.base)
        BY <2>2, <2>4 DEF AG!IdsOf
      <4>2. n \in AG!Answered(page.msgs) \/ n \in AG!Answered(d.new)
        BY <1>1, <2>9, <4>1 DEF ResultsKnown
      <4>3. AG!Answered(d.new) = {}
        BY <1>4, <2>9, TalkTold, <1>3
      <4> QED BY <1>4, <2>9, <4>1, <4>2, <4>3
    <3>2. ASSUME ~gap PROVE TalkSettled(r)
      <4>1. /\ Complete(d.base, page.pending) /\ page.pending \subseteq LastAsked(d.base)
            /\ d.yes \cup d.no = AG!IdsOf(page.pending) /\ d.pending = {} /\ Talk(d) = d.base
        BY <1>4, <2>9, <3>2
      <4>2. Complete(d.base, AG!Chosen(d))
        <5> SUFFICES ASSUME NEW n \in AG!Asked(d.base), n \notin AG!Answered(d.base), AG!Given(n)
                     PROVE  n \in AG!Chosen(d)
          BY DEF Complete
        <5>1. n \in page.pending
          BY <4>1 DEF Complete
        <5>2. n \in LastAsked(d.base) /\ AG!Id(n) \in d.yes \cup d.no
          BY <4>1, <5>1 DEF AG!IdsOf
        <5>3. AG!Id(n) \notin AG!IdsOf(AG!Answered(d.base))
          <6> SUFFICES ASSUME NEW m \in AG!Answered(d.base), AG!Id(n) = AG!Id(m) PROVE FALSE
            BY DEF AG!IdsOf
          <6>1. n \in Made /\ m \in Made
            BY <1>3, ToldOf
          <6>2. n = m
            BY <6>1, OwnId
          <6> QED BY <6>2
        <5> QED BY <2>2, <5>2, <5>3
      <4>3. Complete(Talk(r), r.pending \cup AG!Range(r.todo))
        BY <2>4, <2>6, <4>1, <4>2 DEF Complete
      <4> QED BY <2>6, <4>1, <4>3 DEF TalkSettled
    <3> QED BY <3>1, <3>2
  <2> QED BY <1>1, <1>2, <2>1, <2>4, <2>6, <2>7, <2>8, <2>9, QuietKeeps, Zenon
<1> QED BY <1>5, <1>6

\* The connection breaks.
LEMMA BreakKeeps ==
  ASSUME AgentInv, NEW k \in AG!Requests, AG!Break(k)
  PROVE  AgentInv'
<1> USE DEF AgentInv
<1>0. page.waits = k /\ AG!Working(k) /\ k # 0
  BY DEF AG!Break, AG!Hears, AG!Requests
<1>1. PICK d \in Chatting(Made) : d = chat[k]
  BY <1>0, AtWorkIs
<1>2. /\ d.base \in Seq(Messages(Made)) /\ d.new \in Seq(Messages(Made)) /\ Talk(d) \in Seq(Messages(Made))
      /\ d.stream \in BOOLEAN
  BY <1>1, ChatFields
<1>3. AG!Answered(d.new) \subseteq Made /\ AG!Answered(Talk(d)) = AG!Answered(d.base) \cup AG!Answered(d.new)
  BY <1>2, ToldOf, TalkTold DEF Talk
<1>4. /\ page.msgs \in Seq(Messages(Made)) /\ page.pending \subseteq Made
      /\ page \in [msgs : Seq(Messages(Made)), pending : SUBSET Made, waits : 0 .. MaxChatRequests]
  BY DEF AgentTyped
<1>5. /\ page' \in [msgs : Seq(Messages(Made)), pending : SUBSET Made, waits : 0 .. MaxChatRequests]
      /\ page'.waits = 0 /\ page'.msgs = page.msgs /\ page'.pending = page.pending
      /\ UNCHANGED <<calls, agreed>>
  <2>1. page' = [page EXCEPT !.waits = 0] /\ 0 \in 0 .. MaxChatRequests
    BY AgentAssumption DEF AG!Break
  <2> QED BY <1>4, <2>1 DEF AG!Break
<1>6. Made' = Made /\ \A i : AG!Id(i)' = AG!Id(i) /\ AG!Given(i)' = AG!Given(i)
  BY <1>5 DEF Made, AG!Id, AG!Given
<1>7. Heard(d)
  BY <1>0, <1>1 DEF Hearing
<1>8. Hearing'
  BY <1>5 DEF Hearing
<1>9. CASE d.stream
  <2>1. PICK r : r = [at |-> "over"]
    BY Zenon
  <2>2. chat' = [chat EXCEPT ![k] = r] /\ gap' = TRUE
    BY <1>1, <1>9, <2>1, Zenon DEF AG!Break
  <2>3. \/ UNCHANGED <<runs, unheard>>
        \/ \E n \in Made : /\ calls[n].tool = "change" /\ AG!Given(n) => n \in agreed
                           /\ runs' = [runs EXCEPT ![n] = @ + 1] /\ unheard' = unheard \cup {n}
    <3>1. \/ UNCHANGED <<runs, unheard>>
          \/ /\ chat[k].todo # <<>>
             /\ LET n == Head(chat[k].todo) IN
                /\ IF chat[k].at = "settle" THEN AG!Id(n) \notin chat[k].no ELSE ~AG!Waits(k)
                /\ runs' = [runs EXCEPT ![n] = @ + 1] /\ unheard' = unheard \cup {n}
      BY <1>1, <1>9 DEF AG!Break
    <3>2. ASSUME chat[k].todo # <<>>, NEW n, n = Head(chat[k].todo),
                 IF chat[k].at = "settle" THEN AG!Id(n) \notin chat[k].no ELSE ~AG!Waits(k),
                 runs' = [runs EXCEPT ![n] = @ + 1], unheard' = unheard \cup {n}
          PROVE  /\ n \in Made /\ (calls[n].tool = "change" /\ AG!Given(n) => n \in agreed)
                 /\ runs' = [runs EXCEPT ![n] = @ + 1] /\ unheard' = unheard \cup {n}
      BY <1>0, <3>2, MayRun
    <3> QED BY <3>1, <3>2
  <2>4. /\ runs' \in [AG!CallIds -> Nat] /\ \A n \in AG!CallIds \ Made : runs'[n] = 0
        /\ unheard \subseteq unheard' /\ unheard' \subseteq Made
        /\ \A i \in Made : \/ runs'[i] = runs[i]
                           \/ i \in unheard' /\ (calls[i].tool = "change" /\ AG!Given(i) => i \in agreed)
    <3>1. CASE UNCHANGED <<runs, unheard>>
      BY <3>1 DEF AgentTyped
    <3>2. CASE ~UNCHANGED <<runs, unheard>>
      <4>1. PICK n \in Made : /\ calls[n].tool = "change" /\ AG!Given(n) => n \in agreed
                              /\ runs' = [runs EXCEPT ![n] = @ + 1] /\ unheard' = unheard \cup {n}
        BY <2>3, <3>2
      <4>2. n \in AG!CallIds /\ runs \in [AG!CallIds -> Nat] /\ Made \subseteq AG!CallIds
            /\ unheard \subseteq Made /\ \A i \in AG!CallIds \ Made : runs[i] = 0
        BY MadeIs DEF AgentTyped
      <4>3. runs' \in [AG!CallIds -> Nat] /\ \A i \in AG!CallIds \ {n} : runs'[i] = runs[i]
        BY <4>1, <4>2
      <4> QED BY <4>1, <4>2, <4>3
    <3> QED BY <3>1, <3>2
  <2>5. agreed' \subseteq Made /\ gap' \in BOOLEAN
    BY <1>5, <2>2 DEF AgentTyped
  <2>6. /\ AgentTyped' /\ chat'[k] = r /\ \A l \in AG!Requests \ {k} : chat'[l] = chat[l]
    <3>1. r \in Chatting(Made) \cup {[at |-> "over"]}
      BY <2>1
    <3>2. page'.waits \in {0, page.waits, k} /\ (page'.waits = k => r \in Chatting(Made)) /\ UNCHANGED calls
      BY <1>0, <1>5
    <3>3. page' \in [msgs : Seq(Messages(Made)), pending : SUBSET Made, waits : 0 .. MaxChatRequests]
      BY <1>5
    <3>4. unheard' \subseteq Made /\ runs' \in [AG!CallIds -> Nat] /\ \A n \in AG!CallIds \ Made : runs'[n] = 0
      BY <2>4
    <3>5. chat' = [chat EXCEPT ![k] = r] /\ agreed' \subseteq Made /\ gap' \in BOOLEAN /\ AgentTyped
      BY <2>2, <2>5
    <3> QED BY ONLY <3>1, <3>2, <3>3, <3>4, <3>5, k \in AG!Requests, TypedGoes, Zenon
  <2>7. ResultsKnown'
    <3> SUFFICES ASSUME NEW i \in Made, runs'[i] > 0, i \notin unheard' PROVE i \in AG!Answered(page.msgs)
      BY <1>5, <1>6 DEF ResultsKnown
    <3>1. runs[i] > 0 /\ i \notin unheard
      BY <2>4
    <3>2. i \in AG!Answered(page.msgs) \/ i \in AG!Answered(d.new)
      BY <1>0, <1>1, <3>1 DEF ResultsKnown
    <3>3. page.msgs = Talk(d)
      BY <1>7, <1>9 DEF Heard
    <3> QED BY <1>3, <3>2, <3>3
  <2>8. AG!RunOnce'
    <3> SUFFICES ASSUME NEW i \in Made, runs'[i] > 1 PROVE i \in unheard'
      BY <1>5, <1>6, MadeIs DEF AG!RunOnce
    <3> QED BY <2>4, MadeIs DEF AG!RunOnce
  <2>9. AG!AskedFirst'
    <3> SUFFICES ASSUME NEW i \in Made, runs'[i] > 0, calls[i].tool = "change", AG!Given(i)
                 PROVE  i \in agreed
      BY <1>5, <1>6, MadeIs DEF AG!AskedFirst
    <3> QED BY <2>4, MadeIs DEF Consented, AG!AskedFirst
  <2>10. Consented'
    <3>1. ~AG!Working(k)'
      BY <2>1, <2>6 DEF AG!Working
    <3> QED BY <1>5, <2>6, <2>9, <3>1, ConsentGoes DEF Consented
  <2>11. Settled'
    BY <2>2 DEF Settled
  <2> QED BY <1>8, <2>6, <2>7, <2>8, <2>10, <2>11
<1>10. CASE ~d.stream
  <2>1. /\ chat' = chat /\ runs' = runs /\ unheard' = unheard \cup AG!Answered(d.new) /\ gap' = gap
    <3>1. gap' = (gap \/ d.stream)
      BY <1>1 DEF AG!Break
    <3>2. gap' = gap
      BY <1>10, <3>1 DEF AgentTyped
    <3> QED BY <1>1, <1>10, <3>2 DEF AG!Break
  <2>3. /\ runs' \in [AG!CallIds -> Nat] /\ \A n \in AG!CallIds \ Made : runs'[n] = 0
        /\ agreed' \subseteq Made /\ unheard' \subseteq Made /\ gap' \in BOOLEAN
    BY <1>3, <1>5, <2>1 DEF AgentTyped
  <2>4. AgentTyped'
    BY <1>5, <1>6, <2>1, <2>3 DEF AgentTyped
  <2>5. ResultsKnown'
    <3> SUFFICES ASSUME NEW i \in Made, runs[i] > 0, i \notin unheard' PROVE i \in AG!Answered(page.msgs)
      BY <1>5, <1>6, <2>1 DEF ResultsKnown
    <3> QED BY <1>0, <1>1, <2>1 DEF ResultsKnown
  <2>6. AG!RunOnce'
    BY <1>5, <2>1 DEF AG!RunOnce
  <2>7. Consented'
    <3>1. AG!AskedFirst'
      BY <1>5, <1>6, <2>1 DEF Consented, AG!AskedFirst
    <3>2. Consent(d)'
      <4>1. Consent(d)
        BY <1>0, <1>1 DEF Consented
      <4> QED BY <1>5, <1>6, <4>1 DEF Consent
    <3> QED BY <1>1, <1>5, <2>1, <3>1, <3>2, ConsentGoes DEF Consented
  <2>8. Settled'
    <3> SUFFICES ASSUME ~gap PROVE PageSettled'
      BY <1>5, <2>1 DEF Settled
    <3>1. Complete(page.msgs, page.pending) /\ page.pending \subseteq LastAsked(page.msgs)
      BY <1>0, <1>1, <1>10 DEF Settled, PageSettled
    <3> QED BY <1>5, <1>6, <3>1 DEF PageSettled, Complete
  <2> QED BY <1>8, <2>4, <2>5, <2>6, <2>7, <2>8
<1> QED BY <1>2, <1>9, <1>10

\* The model asks for more calls: what is typed stays typed, and ids stay what they are.
LEMMA CallsGrow ==
  ASSUME AgentTyped, NEW made \in Seq([tool : AG!Tools, id : Nat]), calls' = calls \o made,
         Len(calls) + Len(made) <= MaxCalls,
         \A i \in 1 .. Len(made) : made[i].id = MaxPerTurn + (Len(calls) + i) \/ made[i].id <= MaxPerTurn
  PROVE  /\ calls' \in Seq([tool : AG!Tools, id : Nat]) /\ Len(calls') = Len(calls) + Len(made)
         /\ Made \subseteq Made' /\ Made' \subseteq AG!CallIds /\ DOMAIN calls' = Made'
         /\ \A n \in Made : AG!Id(n)' = AG!Id(n) /\ AG!Given(n)' = AG!Given(n) /\ calls'[n] = calls[n]
         /\ \A n \in Made' \ Made : n > Len(calls) /\ (AG!Id(n)' = MaxPerTurn + n \/ ~AG!Given(n)')
<1>0. PICK N \in Nat, L \in Nat, M \in Nat, K \in Nat :
        N = Len(calls) /\ L = Len(made) /\ M = MaxPerTurn /\ K = MaxCalls
  <2>1. Len(calls) \in Nat /\ Len(made) \in Nat
    BY DEF AgentTyped
  <2> QED BY <2>1, AgentAssumption
<1>1. PICK c : c = calls'
  BY Zenon
<1>2. /\ c \in Seq([tool : AG!Tools, id : Nat]) /\ Len(c) = N + L /\ DOMAIN c = 1 .. N + L
      /\ \A n \in 1 .. N : c[n] = calls[n]
      /\ \A i \in 1 .. L : c[N + i] = made[i]
  BY <1>0, <1>1 DEF AgentTyped
<1>3. Made = 1 .. N /\ Made' = 1 .. N + L /\ AG!CallIds = 1 .. K /\ N + L <= K
  BY <1>0, <1>1, <1>2 DEF Made, AG!CallIds
<1>4. \A n : AG!Id(n)' = c[n].id /\ AG!Id(n) = calls[n].id
  BY <1>1 DEF AG!Id
<1>5. ASSUME NEW n \in Made PROVE AG!Id(n)' = AG!Id(n) /\ AG!Given(n)' = AG!Given(n) /\ calls'[n] = calls[n]
  <2>1. c[n] = calls[n]
    BY <1>2, <1>3
  <2> QED BY <1>1, <1>4, <2>1, Zenon DEF AG!Given
<1>6. ASSUME NEW n \in Made' \ Made PROVE n > Len(calls) /\ (AG!Id(n)' = MaxPerTurn + n \/ ~AG!Given(n)')
  <2>1. PICK i \in 1 .. L : n = N + i
    <3>1. n - N \in 1 .. L /\ n = N + (n - N)
      BY <1>3
    <3> QED BY <3>1, Zenon
  <2>2. AG!Id(n)' = made[i].id
    BY <1>2, <1>4, <2>1, Zenon
  <2>3. made[i].id \in Nat
    <3>1. i \in 1 .. Len(made)
      BY <1>0
    <3>2. made[i] \in [tool : AG!Tools, id : Nat]
      BY <3>1, ElementOfSeq, Zenon
    <3> QED BY <3>2
  <2>4. AG!Id(n)' = M + n \/ AG!Id(n)' <= M
    BY <1>0, <2>1, <2>2
  <2>5. ~AG!Given(n)' <=> ~(AG!Id(n)' > M)
    BY <1>0 DEF AG!Given
  <2> QED BY <1>0, <2>1, <2>2, <2>3, <2>4, <2>5
<1> QED BY <1>0, <1>1, <1>2, <1>3, <1>5, <1>6

LEMMA MoreIn ==
  ASSUME NEW S, NEW T, S \subseteq T
  PROVE  Seq(S) \subseteq Seq(T) /\ Seq(Messages(S)) \subseteq Seq(Messages(T)) /\ Chatting(S) \subseteq Chatting(T)
<1>1. Seq(S) \subseteq Seq(T)
  OBVIOUS
<1>2. Messages(S) \subseteq Messages(T)
  BY <1>1 DEF Messages
<1>3. Seq(Messages(S)) \subseteq Seq(Messages(T))
  BY <1>2
<1> QED BY <1>1, <1>3 DEF Chatting

\* The model asks for calls.
LEMMA ThinkKeeps ==
  ASSUME AgentInv, NEW k \in AG!Requests, AG!Thinks(k), NEW tools \in AG!Turns, NEW named \in BOOLEAN,
         AG!Think(k, tools, named), tools # <<>>
  PROVE  AgentInv'
<1> USE DEF AgentInv
<1>1. PICK d \in Chatting(Made) : d = chat[k]
  BY AtWorkIs DEF AG!Thinks, AG!Working
<1>2. PICK N \in Nat, L \in Nat : N = Len(calls) /\ L = Len(tools) /\ tools \in Seq(AG!Tools) /\ L <= MaxPerTurn
  <2>1. PICK i \in 0 .. MaxPerTurn : tools \in [1 .. i -> AG!Tools]
    BY DEF AG!Turns
  <2>2. tools \in Seq(AG!Tools) /\ Len(tools) <= MaxPerTurn /\ Len(tools) \in Nat
    BY <2>1
  <2> QED BY <2>2 DEF AgentTyped
<1>0. PICK T : T = Made'
  OBVIOUS
<1>3. PICK ns : ns = [i \in DOMAIN tools |-> Len(calls) + i]
  BY Zenon
<1>4. PICK made : made = [i \in DOMAIN tools |->
                            [tool |-> tools[i], id |-> IF named THEN MaxPerTurn + Len(calls) + i ELSE i]]
  BY Zenon
<1>5. PICK m : m = AG!Asks(ns)
  OBVIOUS
<1>6. PICK r : r = [d EXCEPT !.at = "calls", !.todo = ns, !.pending = {}, !.new = Append(@, m), !.round = @ + 1]
  OBVIOUS
<1>7. /\ N + L <= MaxCalls /\ calls' = calls \o made /\ chat' = [chat EXCEPT ![k] = r]
      /\ page' = (IF page.waits = k /\ d.stream THEN AG!Told(m) ELSE page)
      /\ agreed' = (IF d.auto THEN agreed \cup AG!Range(ns) ELSE agreed)
      /\ UNCHANGED <<runs, unheard, gap>>
  BY <1>1, <1>2, <1>3, <1>4, <1>5, <1>6 DEF AG!Think, AG!Shown, AG!Hears
<1>8. /\ made \in Seq([tool : AG!Tools, id : Nat]) /\ Len(made) = L
      /\ \A i \in 1 .. L : made[i].id = MaxPerTurn + (N + i) \/ made[i].id <= MaxPerTurn
  BY <1>0, <1>2, <1>4, AgentAssumption
<1>9. /\ calls' \in Seq([tool : AG!Tools, id : Nat]) /\ Len(calls') = N + L
      /\ Made \subseteq T /\ T \subseteq AG!CallIds /\ DOMAIN calls' = T
      /\ \A n \in Made : AG!Id(n)' = AG!Id(n) /\ AG!Given(n)' = AG!Given(n) /\ calls'[n] = calls[n]
      /\ \A n \in T \ Made : n > N /\ (AG!Id(n)' = MaxPerTurn + n \/ ~AG!Given(n)')
  BY <1>0, <1>2, <1>7, <1>8, CallsGrow, Zenon
<1>10. Made = 1 .. N /\ T = 1 .. N + L
  BY <1>0, <1>2, <1>9 DEF Made
<1>11. /\ ns \in Seq(T) \ {<<>>} /\ Unlike(ns) /\ \A n \in AG!Range(ns) : n \in T \ Made
  <2>1. ns \in [1 .. L -> T] /\ \A i \in 1 .. L : ns[i] = N + i
    BY <1>0, <1>2, <1>3, <1>10
  <2>2. ns \in Seq(T) /\ Len(ns) = L /\ L # 0
    BY <1>0, <1>2, <2>1
  <2>3. ns # <<>>
    BY <2>2
  <2>4. \A n \in AG!Range(ns) : n \in T \ Made
    BY <1>10, <2>1 DEF AG!Range
  <2>5. Unlike(ns)
    BY <2>1, <2>2 DEF Unlike
  <2> QED BY <2>2, <2>3, <2>4, <2>5
<1>12. m \in Messages(T) /\ m.kind = "asks" /\ m.ns = ns
  BY <1>5, <1>11, MessageIs
<1>13. /\ Seq(Messages(Made)) \subseteq Seq(Messages(T)) /\ Chatting(Made) \subseteq Chatting(T)
  BY <1>9, MoreIn, Zenon
<1>14. /\ d.base \in Seq(Messages(T)) /\ d.new \in Seq(Messages(T)) /\ Talk(d) \in Seq(Messages(T))
       /\ d.stream \in BOOLEAN /\ Talk(d) \in Seq(Messages(Made)) /\ d.todo = <<>> /\ d.at # "start"
  <2>1. d.todo = <<>> /\ d.at # "start"
    BY <1>1 DEF AG!Thinks, Consented, Consent, AG!Working
  <2> QED BY <1>1, <1>13, <2>1, ChatFields
<1>15. /\ r.at = "calls" /\ r.stream = d.stream /\ r.auto = d.auto /\ r.base = d.base /\ r.yes = d.yes
       /\ r.no = d.no /\ r.pending = {} /\ r.todo = ns /\ r.new = Append(d.new, m)
  BY <1>1, <1>6 DEF Chatting
<1>16. Append(d.new, m) \in Seq(Messages(T)) /\ AG!Answered(r.new) = AG!Answered(d.new)
  BY <1>12, <1>14, <1>15, MoreTold
<1>17. r \in Chatting(T)
  <2>1. d \in Chatting(T)
    BY <1>13
  <2>2. r = [at |-> "calls", stream |-> d.stream, auto |-> d.auto, base |-> d.base, new |-> r.new,
             yes |-> d.yes, no |-> d.no, round |-> d.round + 1, todo |-> ns, pending |-> {}]
    BY <1>1, <1>6, <1>15, Zenon DEF Chatting
  <2>3. r.new \in Seq(Messages(T)) /\ ns \in Seq(T)
    BY <1>11, <1>15, <1>16
  <2> QED BY <2>1, <2>2, <2>3, ChatFields DEF Chatting
<1>18. Talk(r) = Append(Talk(d), m)
  <2>1. d.base \o Append(d.new, m) = Append(d.base \o d.new, m)
    <3>1. \A x, y \in Seq(Messages(T)) : \A z \in Messages(T) : x \o Append(y, z) = Append(x \o y, z)
      BY AddedTo
    <3>2. d.base \in Seq(Messages(T)) /\ d.new \in Seq(Messages(T)) /\ m \in Messages(T)
      BY <1>12, <1>14
    <3> QED BY <3>1, <3>2, Zenon
  <2> QED BY <1>15, <2>1 DEF Talk
<1>19. /\ AG!Answered(Talk(r)) = AG!Answered(Talk(d)) /\ AG!Asked(Talk(r)) = AG!Asked(Talk(d)) \cup AG!Range(ns)
       /\ LastAsked(Talk(r)) = AG!Range(ns)
  BY <1>12, <1>14, <1>18, MoreTold
<1>20. /\ page.msgs \in Seq(Messages(Made)) /\ page.msgs \in Seq(Messages(T)) /\ page.pending \subseteq Made
       /\ page.waits \in 0 .. MaxChatRequests
       /\ page \in [msgs : Seq(Messages(T)), pending : SUBSET T, waits : 0 .. MaxChatRequests]
  BY <1>9, <1>13 DEF AgentTyped
<1>21. Append(page.msgs, m) \in Seq(Messages(T)) /\ AG!Answered(Append(page.msgs, m)) = AG!Answered(page.msgs)
  BY <1>12, <1>20, MoreTold
<1>22. /\ page' \in [msgs : Seq(Messages(T)), pending : SUBSET T, waits : 0 .. MaxChatRequests]
       /\ page'.waits = page.waits /\ page'.pending = page.pending
       /\ page'.msgs = IF page.waits = k /\ d.stream THEN Append(page.msgs, m) ELSE page.msgs
       /\ AG!Answered(page'.msgs) = AG!Answered(page.msgs)
  BY <1>7, <1>20, <1>21, Zenon DEF AG!Told
<1>23. chat'[k] = r /\ \A l \in AG!Requests \ {k} : chat'[l] = chat[l]
  BY <1>7 DEF AgentTyped
<1>24. page.waits # 0 => page.waits \in AG!Requests
  BY <1>20 DEF AG!Requests
<1>25. AG!Range(ns) \subseteq T /\ agreed \subseteq agreed' /\ agreed' \subseteq T
  BY <1>7, <1>9, <1>11 DEF AgentTyped
<1>26. AgentTyped'
  <2>1. calls' \in Seq([tool : AG!Tools, id : Nat]) /\ Len(calls') <= MaxCalls
    BY <1>7, <1>9
  <2>2. \A n \in T : AG!Id(n)' = MaxPerTurn + n \/ ~AG!Given(n)'
    BY <1>9 DEF AgentTyped
  <2>3. DOMAIN chat' = AG!Requests
        /\ \A l \in AG!Requests : chat'[l] \in {[at |-> "none"], [at |-> "over"]} \cup Chatting(T)
    BY <1>7, <1>13, <1>17, <1>23 DEF AgentTyped
  <2>4. page'.waits # 0 => chat'[page'.waits].at \notin {"none", "over"}
    <3>1. CASE page.waits = k
      BY <1>15, <1>22, <1>23, <3>1
    <3>2. CASE page.waits # k
      BY <1>22, <1>23, <1>24, <3>2 DEF AgentTyped, AG!Working
    <3> QED BY <3>1, <3>2
  <2>5. /\ runs' \in [AG!CallIds -> Nat] /\ \A n \in AG!CallIds \ T : runs'[n] = 0
        /\ agreed' \subseteq T /\ unheard' \subseteq T /\ gap' \in BOOLEAN
    BY <1>7, <1>9, <1>25 DEF AgentTyped
  <2> QED BY <1>0, <1>2, <1>22, <2>1, <2>2, <2>3, <2>4, <2>5 DEF AgentTyped, AG!Working
<1>27. \A n \in T \ Made : runs[n] = 0
  BY <1>9 DEF AgentTyped
<1>28. Hearing'
  <2>1. CASE page.waits = k /\ k # 0
    <3>1. Heard(d)
      BY <1>1, <2>1 DEF Hearing
    <3>2. page'.msgs = IF r.stream THEN Talk(r) ELSE r.base
      BY <1>15, <1>18, <1>22, <2>1, <3>1 DEF Heard
    <3>3. \A i \in AG!Range(r.todo) : runs'[i] > 0 => i \in unheard'
      BY <1>7, <1>11, <1>15, <1>27
    <3>4. Heard(r)'
      BY <1>11, <1>15, <3>2, <3>3 DEF Heard
    <3> QED BY <1>22, <1>23, <2>1, <3>4 DEF Hearing
  <2>2. CASE page.waits # k /\ page.waits # 0
    <3>1. PICK w : w = chat[page.waits]
      OBVIOUS
    <3>2. Heard(w) /\ chat'[page.waits] = w
      BY <1>23, <1>24, <2>2, <3>1 DEF Hearing
    <3>3. Heard(w)'
      BY <1>7, <2>2, <3>2 DEF Heard
    <3> QED BY <1>22, <2>2, <3>2, <3>3 DEF Hearing
  <2> QED BY <1>22, <2>1, <2>2 DEF Hearing
<1>29. ResultsKnown'
  <2> SUFFICES ASSUME NEW i \in T, runs[i] > 0, i \notin unheard
               PROVE  \/ i \in AG!Answered(page'.msgs)
                      \/ page.waits # 0 /\ i \in AG!Answered(chat'[page.waits].new)
    BY <1>0, <1>2, <1>7, <1>22 DEF ResultsKnown
  <2>1. i \in Made
    BY <1>27
  <2>2. i \in AG!Answered(page.msgs) \/ (page.waits # 0 /\ i \in AG!Answered(chat[page.waits].new))
    BY <2>1 DEF ResultsKnown
  <2>3. page.waits # 0 => AG!Answered(chat[page.waits].new) = AG!Answered(chat'[page.waits].new)
    <3>1. CASE page.waits = k
      BY <1>1, <1>16, <1>23, <3>1
    <3>2. CASE page.waits # k
      BY <1>23, <1>24, <3>2
    <3> QED BY <3>1, <3>2
  <2> QED BY <1>22, <2>2, <2>3
<1>30. AG!RunOnce'
  <2> SUFFICES ASSUME NEW i \in T, runs[i] > 1 PROVE i \in unheard
    BY <1>7, <1>9 DEF AG!RunOnce
  <2>1. i \in Made
    BY <1>27
  <2> QED BY <2>1, MadeIs DEF AG!RunOnce
<1>31. Consented'
  <2>1. AG!AskedFirst'
    <3> SUFFICES ASSUME NEW i \in T, runs[i] > 0, calls'[i].tool = "change", AG!Given(i)'
                 PROVE  i \in agreed'
      BY <1>7, <1>9, Zenon DEF AG!AskedFirst
    <3>1. i \in Made
      BY <1>27
    <3>2. calls[i].tool = "change" /\ AG!Given(i)
      BY <1>9, <3>1
    <3> QED BY <1>25, <3>1, <3>2, MadeIs DEF Consented, AG!AskedFirst
  <2>2. ASSUME NEW l \in AG!Requests, AG!Working(l)' PROVE Consent(chat[l])'
    <3>1. PICK w : w = chat[l]
      OBVIOUS
    <3>2. PICK v : v = chat'[l]
      OBVIOUS
    <3>3. w \in Chatting(Made) /\ Consent(w)
      <4>1. AG!Working(l)
        BY <1>23, <2>2 DEF AG!Working, AG!Thinks
      <4> QED BY <3>1, <4>1, AtWorkIs DEF Consented
    <3>4. w.yes \subseteq Nat /\ w.todo \in Seq(Made) /\ AG!Range(w.todo) \subseteq Made
      BY <3>3, ChatFields, ElementsIn
    <3>5. v.yes = w.yes /\ v.no = w.no /\ v.auto = w.auto /\ (v = w \/ v = r)
      BY <1>1, <1>15, <1>23, <3>1, <3>2
    <3>6. \A n \in T : AG!Id(n)' \in w.yes /\ AG!Given(n)' => n \in agreed'
      <4> SUFFICES ASSUME NEW n \in T, AG!Id(n)' \in w.yes, AG!Given(n)' PROVE n \in agreed'
        OBVIOUS
      <4>1. CASE n \in Made
        BY <1>9, <1>25, <3>3, <4>1 DEF Consent
      <4>2. CASE n \notin Made
        <5>1. AG!Id(n)' = MaxPerTurn + n /\ n > N /\ n \in Nat
          BY <1>9, <1>10, <4>2
        <5>2. AG!Id(n)' <= MaxPerTurn + N
          BY <1>0, <1>2, <3>3 DEF Consent
        <5> QED BY <1>0, <1>2, <5>1, <5>2, AgentAssumption
      <4> QED BY <4>1, <4>2
    <3>7. \A i \in w.yes : i <= MaxPerTurn + Len(calls')
      <4> SUFFICES ASSUME NEW i \in w.yes PROVE i <= MaxPerTurn + Len(calls')
        OBVIOUS
      <4>1. i <= MaxPerTurn + N /\ i \in Nat
        BY <1>0, <1>2, <3>3, <3>4 DEF Consent
      <4> QED BY <1>0, <1>2, <1>9, <4>1, AgentAssumption
    <3>8. CASE v = r
      <4>1. r.auto => AG!Range(r.todo) \subseteq agreed'
        BY <1>7, <1>15
      <4> QED BY <1>0, <1>2, <1>15, <3>2, <3>5, <3>6, <3>7, <3>8, <4>1 DEF Consent
    <3>9. CASE v = w
      <4>1. w.at = "settle" => \A n \in AG!Range(w.todo) : AG!Id(n)' \in w.yes \cup w.no
        BY <1>9, <3>3, <3>4 DEF Consent
      <4> QED BY <1>0, <1>2, <1>25, <3>2, <3>3, <3>6, <3>7, <3>9, <4>1 DEF Consent
    <3> QED BY <3>5, <3>8, <3>9
  <2> QED BY <2>1, <2>2 DEF Consented
<1>32. Settled'
  <2> SUFFICES ASSUME ~gap PROVE PageSettled' /\ (page.waits # 0 => TalkSettled(chat[page.waits])')
    BY <1>7, <1>22 DEF Settled
  <2>1. PageSettled /\ (page.waits # 0 => TalkSettled(chat[page.waits]))
    BY DEF Settled
  <2>2. \A ms \in Seq(Messages(Made)) : \A s : Complete(ms, s) => Complete(ms, s)'
    <3> SUFFICES ASSUME NEW ms \in Seq(Messages(Made)), NEW s, Complete(ms, s) PROVE Complete(ms, s)'
      OBVIOUS
    <3>1. AG!Asked(ms) \subseteq Made
      BY ToldOf
    <3> QED BY <1>9, <3>1 DEF Complete
  <2>3. CASE page.waits = k /\ k # 0
    <3>1. PageSettled'
      <4>1. CASE d.stream
        BY <1>15, <1>22, <1>23, <2>3, <4>1, Zenon DEF PageSettled
      <4>2. CASE ~d.stream
        <5>1. Complete(page.msgs, page.pending) /\ page.pending \subseteq LastAsked(page.msgs)
          BY <1>1, <2>1, <2>3, <4>2 DEF PageSettled
        <5>2. page' = page
          BY <1>7, <4>2
        <5>3. Complete(page.msgs, page.pending)'
          BY <1>20, <2>2, <5>1, <5>2
        <5> QED BY <5>1, <5>2, <5>3 DEF PageSettled
      <4> QED BY <4>1, <4>2
    <3>2. TalkSettled(d)
      BY <1>1, <2>1, <2>3
    <3>3. d.pending = {}
      BY <1>1, <1>14, <3>2 DEF TalkSettled, AG!Thinks
    <3>4. Complete(Talk(d), {})
      <4>1. AG!Range(d.todo) = {}
        BY <1>14 DEF AG!Range
      <4> QED BY <1>14, <3>2, <3>3, <4>1, Zenon DEF TalkSettled
    <3>5. Complete(Talk(d), {})'
      BY <1>14, <2>2, <3>4
    <3>6. Complete(Talk(r), r.pending \cup AG!Range(r.todo))'
      BY <1>15, <1>19, <3>5 DEF Complete
    <3>7. TalkSettled(r)'
      BY <1>15, <1>19, <3>6 DEF TalkSettled
    <3> QED BY <1>22, <1>23, <2>3, <3>1, <3>7
  <2>4. CASE page.waits # k \/ page.waits = 0
    <3>1. page' = page /\ (page.waits # 0 => chat'[page.waits] = chat[page.waits])
      BY <1>7, <1>23, <1>24, <2>4 DEF AG!Requests
    <3>2. PageSettled'
      <4> SUFFICES ASSUME page.waits = 0 \/ ~chat[page.waits].stream \/ chat[page.waits].at = "start"
                   PROVE  Complete(page.msgs, page.pending)' /\ page.pending \subseteq LastAsked(page.msgs)
        BY <3>1 DEF PageSettled
      <4>1. Complete(page.msgs, page.pending) /\ page.pending \subseteq LastAsked(page.msgs)
        BY <2>1 DEF PageSettled
      <4> QED BY <1>20, <2>2, <3>1, <4>1
    <3>3. ASSUME page.waits # 0 PROVE TalkSettled(chat[page.waits])'
      <4>1. PICK w : w = chat[page.waits]
        OBVIOUS
      <4>2. TalkSettled(w)
        BY <2>1, <3>3, <4>1
      <4>3. w \in Chatting(Made)
        BY <1>24, <3>3, <4>1, AtWorkIs DEF AgentTyped
      <4>4. Talk(w) \in Seq(Messages(Made))
        BY <4>3, ChatFields
      <4>5. AG!IdsOf(page.pending)' = AG!IdsOf(page.pending)
        <5>1. \A n \in page.pending : AG!Id(n)' = AG!Id(n)
          BY <1>9, <1>20
        <5> QED BY <3>1, <5>1 DEF AG!IdsOf
      <4>6. w.at # "start" => Complete(Talk(w), w.pending \cup AG!Range(w.todo))'
        BY <2>2, <4>2, <4>4 DEF TalkSettled
      <4>7. TalkSettled(w)'
        BY <4>2, <4>5, <4>6 DEF TalkSettled
      <4> QED BY <3>1, <3>3, <4>1, <4>7
    <3> QED BY <3>2, <3>3
  <2> QED BY <2>3, <2>4
<1> QED BY <1>26, <1>28, <1>29, <1>30, <1>31, <1>32

\* A request that has no tools: a page that hears its stream has a gap then.
LEMMA OpenFailsKeeps ==
  ASSUME AgentInv, NEW k \in AG!Requests, AG!OpenFails(k)
  PROVE  AgentInv'
<1>1. PICK d \in Chatting(Made) : d = chat[k]
  BY AtWorkIs DEF AG!OpenFails, AG!Working, AgentInv
<1>2. AG!Working(k) /\ AG!Close(k, d, FALSE)
  BY <1>1 DEF AG!OpenFails, AG!Working
<1>3. gap' = (gap \/ (page.waits = k /\ d.stream))
  BY <1>1 DEF AG!OpenFails, AG!Shown, AG!Hears
<1>4. gap \in BOOLEAN /\ d.stream \in BOOLEAN /\ d.pending \subseteq Made
  BY <1>1, ChatFields DEF AgentInv, AgentTyped
<1>5. gap' \in BOOLEAN /\ (~gap' => ~gap) /\ (page.waits # k => gap' = gap)
      /\ ~(page.waits = k /\ ~gap' /\ (FALSE \/ d.stream))
  BY <1>3, <1>4
<1> QED BY <1>1, <1>2, <1>4, <1>5, CloseKeeps, Zenon

\* A request that ends without more calls.
LEMMA EndsKeep ==
  ASSUME AgentInv, NEW k \in AG!Requests,
         \/ AG!ThinkFails(k)
         \/ AG!Round(k)
         \/ AG!Thinks(k) /\ \E named \in BOOLEAN : AG!Think(k, <<>>, named)
  PROVE  AgentInv'
<1> USE DEF AgentInv
<1>1. chat[k].at \in {"think", "settle", "calls"} /\ AG!Working(k)
  BY Zenon DEF AG!ThinkFails, AG!Round, AG!Thinks, AG!Working
<1>2. PICK d \in Chatting(Made) : d = chat[k]
  BY <1>1, AtWorkIs
<1>3. d.todo = <<>> /\ d.pending \subseteq Made /\ d.at # "start"
  BY <1>1, <1>2, ChatFields, Zenon DEF AG!ThinkFails, AG!Round, AG!Thinks, Consented, Consent
<1>4. page.waits = k /\ ~gap =>
         /\ Complete(Talk(d), d.pending) /\ (d.pending \subseteq LastAsked(Talk(d)))
         /\ AG!Thinks(k) => d.pending = {}
  <2> SUFFICES ASSUME page.waits = k, ~gap
               PROVE  /\ Complete(Talk(d), d.pending) /\ (d.pending \subseteq LastAsked(Talk(d)))
                      /\ AG!Thinks(k) => d.pending = {}
    OBVIOUS
  <2>1. TalkSettled(d)
    BY <1>2 DEF Settled, AG!Requests
  <2>2. AG!Range(d.todo) = {}
    BY <1>3 DEF AG!Range
  <2>3. Complete(Talk(d), d.pending)
    BY <1>3, <2>1, <2>2, Zenon DEF TalkSettled
  <2>4. AG!Thinks(k) => d.pending = {}
    BY <1>2, <2>1 DEF TalkSettled, AG!Thinks
  <2>5. d.pending \subseteq LastAsked(Talk(d))
    BY <1>1, <1>2, <2>1 DEF TalkSettled
  <2> QED BY <2>3, <2>4, <2>5
<1>5. CASE AG!ThinkFails(k) \/ AG!Round(k)
  <2>1. AG!Close(k, d, FALSE) \/ AG!Close(k, d, TRUE)
    BY <1>2, <1>5, Zenon DEF AG!ThinkFails, AG!Round
  <2>2. gap' = gap /\ gap \in BOOLEAN
    BY <1>5 DEF AG!ThinkFails, AG!Round, AgentTyped
  <2> QED BY <1>1, <1>2, <1>3, <1>4, <2>1, <2>2, CloseKeeps, Zenon
<1>6. CASE AG!Thinks(k) /\ \E named \in BOOLEAN : AG!Think(k, <<>>, named)
  <2>1. PICK c : c = [d EXCEPT !.pending = {}]
    BY Zenon
  <2>2. AG!Close(k, c, TRUE)
    BY <1>2, <1>6, <2>1, Zenon DEF AG!Think
  <2>3. c.base = d.base /\ c.new = d.new /\ c.stream = d.stream /\ c.pending = {}
    BY <1>2, <2>1 DEF Chatting
  <2>4. Talk(c) = Talk(d)
    BY <2>3 DEF Talk
  <2>5. page.waits = k /\ ~gap /\ (TRUE \/ c.stream) =>
           Complete(Talk(c), c.pending) /\ c.pending \subseteq LastAsked(Talk(c))
    BY <1>4, <1>6, <2>3, <2>4, Zenon
  <2>6. gap' = gap /\ gap \in BOOLEAN
    BY <1>6 DEF AG!Think, AgentTyped
  <2> QED BY <1>1, <1>2, <2>2, <2>3, <2>5, <2>6, CloseKeeps, Zenon
<1> QED BY <1>5, <1>6

\* A new request.
LEMMA RequestKeeps ==
  ASSUME AgentInv, NEW k \in AG!Requests, k \in AG!Free, page.waits = 0,
         NEW stream \in BOOLEAN, NEW auto \in BOOLEAN, NEW yes, NEW no, AG!Request(k, stream, auto, yes, no),
         yes \cup no \subseteq AG!IdsOf(page.pending), agreed \subseteq agreed', agreed' \subseteq Made,
         \A n \in Made : AG!Id(n) \in yes /\ AG!Given(n) => n \in agreed',
         gap' \in BOOLEAN, ~gap' => ~gap /\ yes \cup no = AG!IdsOf(page.pending)
  PROVE  AgentInv'
<1> USE DEF AgentInv
<1>1. /\ page.msgs \in Seq(Messages(Made)) /\ page.pending \subseteq Made
      /\ page \in [msgs : Seq(Messages(Made)), pending : SUBSET Made, waits : 0 .. MaxChatRequests]
  BY DEF AgentTyped
<1>2. \A n \in Made : AG!Id(n) \in Nat /\ AG!Id(n) <= MaxPerTurn + Len(calls)
  <2> SUFFICES ASSUME NEW n \in Made PROVE AG!Id(n) \in Nat /\ AG!Id(n) <= MaxPerTurn + Len(calls)
    OBVIOUS
  <2>1. n \in 1 .. Len(calls) /\ n \in Nat /\ n <= Len(calls) /\ Len(calls) \in Nat
    BY DEF AgentTyped, Made
  <2>2. calls[n] \in [tool : AG!Tools, id : Nat]
    <3>1. calls \in Seq([tool : AG!Tools, id : Nat])
      BY DEF AgentInv, AgentTyped
    <3> QED BY <2>1, <3>1, ElementOfSeq, Zenon
  <2>3. AG!Id(n) \in Nat
    BY <2>2 DEF AG!Id
  <2>4. AG!Id(n) = MaxPerTurn + n \/ ~(AG!Id(n) > MaxPerTurn)
    BY DEF AgentTyped, AG!Given
  <2> QED BY <2>1, <2>3, <2>4, AgentAssumption
<1>3. /\ yes \subseteq Nat /\ no \subseteq Nat /\ \A i \in yes : i <= MaxPerTurn + Len(calls)
  <2>1. \A i \in yes \cup no : \E n \in Made : i = AG!Id(n)
    BY <1>1 DEF AG!IdsOf
  <2> QED BY <1>2, <2>1
<1>4. PICK r : r = [at |-> IF yes \cup no = {} THEN "think" ELSE "start", stream |-> stream, auto |-> auto,
                    base |-> page.msgs, new |-> <<>>, yes |-> yes, no |-> no, round |-> 0, todo |-> <<>>,
                    pending |-> {}]
  BY Zenon
<1>5. /\ chat' = [chat EXCEPT ![k] = r] /\ page' = [page EXCEPT !.waits = k]
      /\ UNCHANGED <<calls, runs, unheard>>
  BY <1>4 DEF AG!Request
<1>6. /\ r.at = (IF yes \cup no = {} THEN "think" ELSE "start") /\ r.stream = stream /\ r.base = page.msgs
      /\ r.new = <<>> /\ r.yes = yes /\ r.no = no /\ r.todo = <<>> /\ r.pending = {}
  BY <1>4
<1>7. r \in Chatting(Made)
  BY <1>1, <1>3, <1>4, EmptySeq DEF Chatting
<1>8. Talk(r) = page.msgs
  <2>1. page.msgs \o <<>> = page.msgs
    BY <1>1, TalkTold
  <2> QED BY <1>6, <2>1 DEF Talk
<1>9. /\ page' \in [msgs : Seq(Messages(Made)), pending : SUBSET Made, waits : 0 .. MaxChatRequests]
      /\ page'.waits = k /\ page'.msgs = page.msgs /\ page'.pending = page.pending /\ k # 0
  <2>1. k \in 0 .. MaxChatRequests /\ k # 0
    BY DEF AG!Requests
  <2> QED BY <1>1, <1>5, <2>1
<1>10. /\ runs' \in [AG!CallIds -> Nat] /\ unheard' \subseteq Made /\ \A n \in AG!CallIds \ Made : runs'[n] = 0
  BY <1>5 DEF AgentTyped
<1>11. /\ AgentTyped' /\ Made' = Made /\ chat'[k] = r /\ \A l \in AG!Requests \ {k} : chat'[l] = chat[l]
       /\ \A i : AG!Id(i)' = AG!Id(i) /\ AG!Given(i)' = AG!Given(i)
  BY <1>5, <1>7, <1>9, <1>10, TypedGoes, Zenon
<1>12. AG!Range(r.todo) = {} /\ Unlike(r.todo)
  BY <1>6 DEF AG!Range, Unlike
<1>13. Hearing'
  <2>1. Heard(r)'
    BY <1>6, <1>8, <1>9, <1>12 DEF Heard
  <2> QED BY <1>9, <1>11, <2>1 DEF Hearing
<1>14. ResultsKnown'
  BY <1>5, <1>9, <1>11 DEF ResultsKnown
<1>15. AG!RunOnce'
  BY <1>5 DEF AG!RunOnce
<1>16. Consented'
  <2>1. AG!AskedFirst'
    BY <1>5, <1>11 DEF Consented, AG!AskedFirst
  <2>2. Consent(r)'
    BY <1>3, <1>5, <1>6, <1>11, <1>12 DEF Consent
  <2> QED BY <1>5, <1>11, <2>1, <2>2, ConsentGoes DEF Consented
<1>17. Settled'
  <2> SUFFICES ASSUME ~gap' PROVE PageSettled' /\ TalkSettled(r)'
    BY <1>9, <1>11 DEF Settled
  <2>1. Complete(page.msgs, page.pending) /\ page.pending \subseteq LastAsked(page.msgs)
    BY DEF Settled, PageSettled
  <2>2. PageSettled'
    BY <1>9, <1>11, <2>1 DEF PageSettled, Complete
  <2>3. CASE r.at = "start"
    <3>1. AG!IdsOf(page.pending)' = AG!IdsOf(page.pending)
      BY <1>5, <1>9 DEF AG!IdsOf, AG!Id
    <3> QED BY <1>6, <2>2, <2>3, <3>1 DEF TalkSettled
  <2>4. CASE r.at = "think"
    <3>1. AG!IdsOf(page.pending) = {}
      BY <1>6, <2>4
    <3>2. page.pending = {}
      BY <3>1 DEF AG!IdsOf
    <3>3. Complete(Talk(r), r.pending \cup AG!Range(r.todo))'
      BY <1>6, <1>8, <1>11, <1>12, <2>1, <3>2 DEF Complete
    <3> QED BY <1>6, <2>2, <2>4, <3>3 DEF TalkSettled
  <2> QED BY <1>6, <2>3, <2>4
<1> QED BY <1>11, <1>13, <1>14, <1>15, <1>16, <1>17

LEMMA AskKeeps ==
  ASSUME AgentInv, NEW k \in AG!Requests, k \in AG!Free, page.waits = 0,
         NEW stream \in BOOLEAN, NEW auto \in BOOLEAN,
         \/ AG!Send(k, stream, auto)
         \/ \E ns \in {page.pending} \cup {{n} : n \in page.pending}, approve \in BOOLEAN :
               AG!Confirm(k, ns, approve, stream, auto)
  PROVE  AgentInv'
<1>1. page.pending \subseteq Made /\ agreed \subseteq Made /\ gap \in BOOLEAN
  BY DEF AgentInv, AgentTyped
<1>2. CASE AG!Send(k, stream, auto)
  <2>1. AG!Request(k, stream, auto, {}, {}) /\ UNCHANGED <<agreed, gap>> /\ page.pending = {}
    BY <1>2 DEF AG!Send
  <2>2. AG!IdsOf(page.pending) = {}
    BY <2>1 DEF AG!IdsOf
  <2> QED BY <1>1, <2>1, <2>2, RequestKeeps
<1>3. ASSUME NEW ns, NEW approve \in BOOLEAN, AG!Confirm(k, ns, approve, stream, auto)
      PROVE  AgentInv'
  <2>1. PICK yes, no : yes = (IF approve THEN AG!IdsOf(ns) ELSE {}) /\ no = (IF approve THEN {} ELSE AG!IdsOf(ns))
    BY Zenon
  <2>2. /\ AG!Request(k, stream, auto, yes, no) /\ ns \subseteq page.pending
        /\ agreed' = (IF approve THEN agreed \cup ns ELSE agreed)
        /\ gap' = (gap \/ ns # page.pending)
    BY <1>3, <2>1 DEF AG!Confirm
  <2>3. yes \cup no = AG!IdsOf(ns) /\ AG!IdsOf(ns) \subseteq AG!IdsOf(page.pending)
    BY <2>1, <2>2 DEF AG!IdsOf
  <2>4. agreed \subseteq agreed' /\ agreed' \subseteq Made
    BY <1>1, <2>2
  <2>5. \A n \in Made : AG!Id(n) \in yes /\ AG!Given(n) => n \in agreed'
    <3> SUFFICES ASSUME NEW n \in Made, AG!Id(n) \in yes, AG!Given(n) PROVE n \in agreed'
      OBVIOUS
    <3>1. approve /\ AG!Id(n) \in AG!IdsOf(ns)
      BY <2>1
    <3>2. PICK m \in ns : AG!Id(n) = AG!Id(m)
      BY <3>1 DEF AG!IdsOf
    <3>3. n = m
      BY <1>1, <2>2, <3>2, OwnId DEF AgentInv
    <3> QED BY <2>2, <3>1, <3>2, <3>3
  <2>6. gap' \in BOOLEAN /\ (~gap' => ~gap /\ yes \cup no = AG!IdsOf(page.pending))
    BY <1>1, <2>2, <2>3, Zenon
  <2> QED BY <2>2, <2>3, <2>4, <2>5, <2>6, RequestKeeps
<1> QED BY <1>2, <1>3

LEMMA AgentBegins == AG!Init => AgentInv
<1> SUFFICES ASSUME AG!Init PROVE AgentInv
  OBVIOUS
<1>1. Made = {} /\ DOMAIN calls = {} /\ Len(calls) = 0
  BY DEF AG!Init, Made
<1>2. <<>> \in Seq(Messages(Made)) /\ <<>> \in Seq([tool : AG!Tools, id : Nat])
  BY EmptySeq
<1>3. AgentTyped
  <2>1. page \in [msgs : Seq(Messages(Made)), pending : SUBSET Made, waits : 0 .. MaxChatRequests]
    BY <1>2, AgentAssumption DEF AG!Init
  <2>2. DOMAIN chat = AG!Requests /\ \A k \in AG!Requests : chat[k] \in {[at |-> "none"], [at |-> "over"]}
    BY DEF AG!Init
  <2>3. runs \in [AG!CallIds -> Nat] /\ \A n \in AG!CallIds \ Made : runs[n] = 0
    BY DEF AG!Init
  <2>4. page.waits = 0 /\ agreed = {} /\ unheard = {} /\ gap \in BOOLEAN
    BY Zenon DEF AG!Init
  <2>5. calls \in Seq([tool : AG!Tools, id : Nat]) /\ Len(calls) <= MaxCalls
    BY <1>1, <1>2, AgentAssumption DEF AG!Init
  <2> QED BY <1>1, <2>1, <2>2, <2>3, <2>4, <2>5 DEF AgentTyped
<1>4. Hearing /\ ResultsKnown /\ AG!RunOnce /\ AG!AskedFirst
  BY <1>1 DEF AG!Init, Hearing, ResultsKnown, AG!RunOnce, AG!AskedFirst
<1>5. Consented
  BY <1>4 DEF AG!Init, Consented, AG!Working
<1>6. AG!Asked(page.msgs) = {}
  BY <1>1, <1>2, TalkTold, Zenon DEF AG!Init
<1>7. Settled
  BY <1>6 DEF AG!Init, Settled, PageSettled, Complete
<1> QED BY <1>3, <1>4, <1>5, <1>7 DEF AgentInv

LEMMA AgentGoes == AgentInv /\ [AG!Next]_agentvars => AgentInv'
<1> SUFFICES ASSUME AgentInv, [AG!Next]_agentvars PROVE AgentInv'
  OBVIOUS
<1>1. CASE UNCHANGED agentvars
  BY <1>1 DEF agentvars, AgentInv, AgentTyped, Hearing, ResultsKnown, AG!RunOnce, Consented, Settled, Made, AG!Id,
     AG!Given, AG!Working, Heard, AG!AskedFirst, Consent, PageSettled, TalkSettled, Complete, AG!IdsOf
<1>2. CASE AG!Next
  <2>1. PICK k \in AG!Requests :
          \/ k \in AG!Free /\ page.waits = 0 /\ \E stream, auto \in BOOLEAN :
              \/ AG!Send(k, stream, auto)
              \/ \E ns \in {page.pending} \cup {{n} : n \in page.pending}, approve \in BOOLEAN :
                    AG!Confirm(k, ns, approve, stream, auto)
          \/ AG!Open(k) \/ AG!OpenFails(k) \/ AG!Settle(k) \/ AG!ThinkFails(k) \/ AG!Call(k) \/ AG!Round(k) \/ AG!Break(k)
          \/ AG!Thinks(k) /\ \E tools \in AG!Turns, named \in BOOLEAN : AG!Think(k, tools, named)
    BY <1>2, Zenon DEF AG!Next
  <2>2. CASE k \in AG!Free /\ page.waits = 0 /\ \E stream, auto \in BOOLEAN :
              \/ AG!Send(k, stream, auto)
              \/ \E ns \in {page.pending} \cup {{n} : n \in page.pending}, approve \in BOOLEAN :
                    AG!Confirm(k, ns, approve, stream, auto)
    BY <2>2, AskKeeps
  <2>3. CASE AG!Open(k)
    BY <2>3, OpenKeeps
  <2>9. CASE AG!OpenFails(k)
    BY <2>9, OpenFailsKeeps
  <2>4. CASE AG!Settle(k)
    BY <2>4, SettleKeeps
  <2>5. CASE AG!ThinkFails(k) \/ AG!Round(k)
    BY <2>5, EndsKeep
  <2>6. CASE AG!Call(k)
    BY <2>6, CallKeeps
  <2>7. CASE AG!Break(k)
    BY <2>7, BreakKeeps
  <2>8. CASE AG!Thinks(k) /\ \E tools \in AG!Turns, named \in BOOLEAN : AG!Think(k, tools, named)
    <3>1. PICK tools \in AG!Turns, named \in BOOLEAN : AG!Thinks(k) /\ AG!Think(k, tools, named)
      BY <2>8
    <3>2. CASE tools = <<>>
      BY <3>1, <3>2, EndsKeep
    <3>3. CASE tools # <<>>
      BY <3>1, <3>3, ThinkKeeps
    <3> QED BY <3>2, <3>3
  <2> QED BY <2>1, <2>2, <2>3, <2>4, <2>5, <2>6, <2>7, <2>8, <2>9
<1> QED BY <1>1, <1>2

\* What the run checks of the chat.
LEMMA AgentHolds ==
  ASSUME AgentInv
  PROVE  AG!TypeOK /\ AG!AskedFirst /\ AG!RunOnce /\ AG!AllAnswered
<1>1. AG!TypeOK
  <2>1. \A k \in AG!Requests : chat[k].at \in {"none", "start", "settle", "think", "calls", "over"}
    <3> SUFFICES ASSUME NEW k \in AG!Requests
                 PROVE  chat[k].at \in {"none", "start", "settle", "think", "calls", "over"}
      OBVIOUS
    <3>1. chat[k] \in {[at |-> "none"], [at |-> "over"]} \/ chat[k] \in Chatting(Made)
      BY DEF AgentInv, AgentTyped
    <3> QED BY <3>1, ChatFields
  <2>2. \A n \in DOMAIN calls : calls[n].tool \in AG!Tools
    <3> SUFFICES ASSUME NEW n \in DOMAIN calls PROVE calls[n].tool \in AG!Tools
      OBVIOUS
    <3>1. calls \in Seq([tool : AG!Tools, id : Nat]) /\ n \in 1 .. Len(calls)
      BY DEF AgentInv, AgentTyped
    <3>2. calls[n] \in [tool : AG!Tools, id : Nat]
      BY <3>1, ElementOfSeq, Zenon
    <3> QED BY <3>2
  <2> QED BY <2>1, <2>2, MadeIs DEF AgentInv, AgentTyped, AG!TypeOK
<1>2. AG!AllAnswered
  <2> SUFFICES ASSUME page.waits = 0, ~gap, NEW n \in AG!Asked(page.msgs)
               PROVE  n \in AG!Answered(page.msgs) \/ n \in page.pending \/ ~AG!Given(n)
    BY DEF AG!AllAnswered
  <2>1. PageSettled
    BY DEF AgentInv, Settled
  <2> QED BY <2>1 DEF PageSettled, Complete
<1> QED BY <1>1, <1>2 DEF AgentInv, Consented

\* Whatever breaks, and however the page's requests, the turns of the model and the answers
\* follow each other: a call that changes something, with an id of its own, is run only if
\* its user approved it or let calls run on their own; a call is run once, but for those whose
\* result did not reach the page; and between requests every call of the conversation has its
\* answer or awaits its user's, unless a stream broke or had no tools for the calls confirmed,
\* only some of the calls were confirmed, or the id is a place in a message.
THEOREM CallsAreAnswered == Spec => []CallsAnswered
<1>1. Init => AgentInv
  BY AgentBegins DEF Init
<1>2. AgentInv /\ [Next]_vars => AgentInv'
  BY Turns, AgentGoes
<1>3. AgentInv => CallsAnswered
  BY AgentHolds DEF CallsAnswered
<1>. QED
  BY <1>1, <1>2, <1>3, PTL DEF Spec
=============================================================================
