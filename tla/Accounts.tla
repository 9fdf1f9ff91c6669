-------------------------------- MODULE Accounts --------------------------------
(***************************************************************************)
(* User accounts (domain/auth/service.py, domain/user/service.py):         *)
(* registration, changes by the user and by those who manage users, and    *)
(* password resets with tokens kept in memory.  Every query and save is    *)
(* awaited; the token store's methods hold a lock that nobody keeps across *)
(* an await, so each of them is one step.                                  *)
(*                                                                         *)
(* An account is its name (which stands for its e-mail address too: both   *)
(* are unique), its password, and the flags admin and disabled.  A         *)
(* password is the number of the request that asked for it.  Roles are     *)
(* PermissionCache's; that anyone who manages users may do so is taken for *)
(* granted here, but for the rules about one's own account.                *)
(***************************************************************************)
EXTENDS Naturals

CONSTANTS Clients, Names, Uids, Tokens,
          MaxRequests,  \* bound on requests; each is a password of its own
          None

VARIABLES users,     \* UserAccount: the rows by their ids
          unused,    \* the ids the table has not given yet
          valid,     \* PasswordResetStore._tokens: the user of each, or None
          issued,    \* tokens made so far: secrets.token_urlsafe repeats none
          call,      \* what each client awaits
          requests,
          uses,      \* history: how often each token set a password
          doubled    \* history: tokens two confirmations held at once

vars == <<users, unused, valid, issued, call, requests, uses, doubled>>

Ready == [at |-> "ready"]
Becomes(c, r) == call' = [call EXCEPT ![c] = r]
Starts(c) == call[c] = Ready /\ requests < MaxRequests /\ requests' = requests + 1

Existing == {u \in Uids : users[u] # None}
Taken(n) == \E u \in Existing : users[u].name = n
Others(u) == Existing \ {u}

\* History: edits in flight of a row that is written are out of date.
Stale(u) == [c \in Clients |-> IF call[c].at = "edit" /\ call[c].u = u
                               THEN [call[c] EXCEPT !.stale = TRUE] ELSE call[c]]
Write(c, u, row) ==
    /\ users' = [users EXCEPT ![u] = row]
    /\ call' = [Stale(u) EXCEPT ![c] = Ready]

-----------------------------------------------------------------------------
(* New accounts. *)

\* History: registrations in flight at the same time know of each other.
Met(c) == [d \in Clients |-> IF call[d].at \in {"name", "insert"}
                             THEN [call[d] EXCEPT !.met = TRUE] ELSE call[d]]
Joining == \E d \in Clients : call[d].at \in {"name", "insert"}

\* register_user counts the users: the first is an administrator.  With users,
\* registration may be closed, or its role not configured.
Register(c, n) ==
    /\ Starts(c)
    /\ \/ call' = [Met(c) EXCEPT ![c] =
              [at |-> "name", name |-> n, admin |-> Existing = {}, by |-> "register", met |-> Joining]]
       \/ Existing # {} /\ UNCHANGED call
    /\ UNCHANGED <<users, unused, valid, issued, uses, doubled>>

\* create_user, by someone who manages users.
CreateUser(c, n, admin) ==
    /\ Starts(c) /\ Existing # {}
    /\ call' = [Met(c) EXCEPT ![c] =
            [at |-> "name", name |-> n, admin |-> admin, by |-> "create", met |-> Joining]]
    /\ UNCHANGED <<users, unused, valid, issued, uses, doubled>>

\* The name and the address must be free ...
CheckName(c) ==
    /\ call[c].at = "name"
    /\ Becomes(c, IF Taken(call[c].name) THEN Ready ELSE [call[c] EXCEPT !.at = "insert"])
    /\ UNCHANGED <<users, unused, valid, issued, requests, uses, doubled>>

\* ... and are again by the table's unique keys.
Insert(c) ==
    /\ call[c].at = "insert"
    /\ IF Taken(call[c].name)
       THEN Becomes(c, Ready) /\ UNCHANGED <<users, unused>>
       ELSE \E u \in unused :
            /\ Write(c, u, [name |-> call[c].name, pass |-> requests, admin |-> call[c].admin,
                            disabled |-> FALSE])
            /\ unused' = unused \ {u}
    /\ UNCHANGED <<valid, issued, requests, uses, doubled>>

-----------------------------------------------------------------------------
(* Changes.  The row is read, changed in memory, and all of it is saved.    *)

Edit(c, u, field, value) ==
    /\ Starts(c)
    /\ Becomes(c, [at |-> "edit", u |-> u, row |-> [users[u] EXCEPT ![field] = value],
                   field |-> field, value |-> value, stale |-> FALSE])
    /\ UNCHANGED <<users, unused, valid, issued, uses, doubled>>

\* update_me: one's name or, knowing the old one, one's password.
UpdateMe(c, u) ==
    /\ u \in Existing /\ ~users[u].disabled
    /\ \/ \E n \in Names : ~(\E o \in Others(u) : users[o].name = n) /\ Edit(c, u, "name", n)
       \/ Edit(c, u, "pass", requests + 1)

\* update_user: anything, but one's own flags (an account cannot disable itself,
\* nor make or unmake itself an administrator).
UpdateUser(c, u) ==
    /\ u \in Existing
    /\ \/ \E n \in Names : ~(\E o \in Others(u) : users[o].name = n) /\ Edit(c, u, "name", n)
       \/ Edit(c, u, "pass", requests + 1)
       \/ /\ \E o \in Others(u) : ~users[o].disabled
          /\ \E f \in {"admin", "disabled"}, b \in BOOLEAN : Edit(c, u, f, b)

\* The save; a name taken meanwhile is refused, a row deleted stays deleted.
SaveEdit(c) ==
    /\ call[c].at = "edit"
    /\ LET u == call[c].u IN
       IF users[u] = None \/ \E o \in Others(u) : users[o].name = call[c].row.name
       THEN Becomes(c, Ready) /\ UNCHANGED users
       ELSE Write(c, u, call[c].row)
    /\ UNCHANGED <<unused, valid, issued, requests, uses, doubled>>

\* delete_user: not oneself.  Its roles are deleted before it is.
DeleteUser(c, u) ==
    /\ Starts(c)
    /\ u \in Existing /\ \E o \in Others(u) : ~users[o].disabled
    /\ Becomes(c, [at |-> "delete", u |-> u])
    /\ UNCHANGED <<users, unused, valid, issued, uses, doubled>>

Remove(c) ==
    /\ call[c].at = "delete"
    /\ Write(c, call[c].u, None)
    /\ UNCHANGED <<unused, valid, issued, requests, uses, doubled>>

-----------------------------------------------------------------------------
(* Password resets. *)

Without(u) == [t \in Tokens |-> IF valid[t] = u THEN None ELSE valid[t]]

\* request_password_reset looks the user up ...
AskReset(c, u) ==
    /\ Starts(c) /\ u \in Existing
    /\ Becomes(c, [at |-> "ask", u |-> u])
    /\ UNCHANGED <<users, unused, valid, issued, uses, doubled>>

\* ... makes a token in place of all others of the user ...
CreateToken(c, t) ==
    /\ call[c].at = "ask" /\ t \in Tokens \ issued
    /\ valid' = [Without(call[c].u) EXCEPT ![t] = call[c].u]
    /\ issued' = issued \cup {t}
    /\ Becomes(c, [call[c] EXCEPT !.at = "mail"])
    /\ UNCHANGED <<users, unused, requests, uses, doubled>>

\* ... and queues the e-mail; if that fails the user has no token.
Mail(c) ==
    /\ call[c].at = "mail"
    /\ valid' \in {valid, Without(call[c].u)}
    /\ Becomes(c, Ready)
    /\ UNCHANGED <<users, unused, issued, requests, uses, doubled>>

\* A token's ten minutes have passed: _cleanup drops it before the next look.
Expire(t) ==
    /\ valid[t] # None
    /\ valid' = [valid EXCEPT ![t] = None]
    /\ UNCHANGED <<users, unused, issued, call, requests, uses, doubled>>

Holds(d, t) == call[d].at \in {"look", "reset", "mark"} /\ call[d].t = t

\* reset_password_with_token looks the token up ...
Confirm(c, t) ==
    /\ Starts(c) /\ valid[t] # None
    /\ Becomes(c, [at |-> "look", t |-> t, u |-> valid[t], pass |-> requests + 1, row |-> None])
    /\ doubled' = IF \E d \in Clients : Holds(d, t) THEN doubled \cup {t} ELSE doubled
    /\ UNCHANGED <<users, unused, valid, issued, uses>>

\* ... then the user, who may be gone ...
FindUser(c) ==
    /\ call[c].at = "look"
    /\ Becomes(c, IF users[call[c].u] = None THEN Ready
                  ELSE [call[c] EXCEPT !.at = "reset", !.row = users[call[c].u]])
    /\ UNCHANGED <<users, unused, valid, issued, requests, uses, doubled>>

\* Mutant: the whole row is saved, as it was read.
SaveAllOfPassword(c) ==
    /\ call[c].at = "reset"
    /\ LET u == call[c].u IN
       IF users[u] = None THEN UNCHANGED users /\ Becomes(c, [call[c] EXCEPT !.at = "mark"])
       ELSE /\ users' = [users EXCEPT ![u] = [call[c].row EXCEPT !.pass = call[c].pass]]
            /\ call' = [Stale(u) EXCEPT ![c].at = "mark"]
    /\ uses' = [uses EXCEPT ![call[c].t] = @ + 1]
    /\ UNCHANGED <<unused, valid, issued, requests, doubled>>

\* ... saves the password alone ...
SavePassword(c) ==
    /\ call[c].at = "reset"
    /\ LET u == call[c].u IN
       IF users[u] = None THEN UNCHANGED users /\ Becomes(c, [call[c] EXCEPT !.at = "mark"])
       ELSE /\ users' = [users EXCEPT ![u].pass = call[c].pass]
            /\ call' = [Stale(u) EXCEPT ![c].at = "mark"]
    /\ uses' = [uses EXCEPT ![call[c].t] = @ + 1]
    /\ UNCHANGED <<unused, valid, issued, requests, doubled>>

\* ... and takes the token, with any other of the user, out of the store.
MarkUsed(c) ==
    /\ call[c].at = "mark"
    /\ valid' = [Without(call[c].u) EXCEPT ![call[c].t] = None]
    /\ Becomes(c, Ready)
    /\ UNCHANGED <<users, unused, issued, requests, uses, doubled>>

-----------------------------------------------------------------------------
Init ==
    /\ users = [u \in Uids |-> None] /\ unused = Uids
    /\ valid = [t \in Tokens |-> None] /\ issued = {}
    /\ call = [c \in Clients |-> Ready] /\ requests = 0
    /\ uses = [t \in Tokens |-> 0] /\ doubled = {}

Next ==
    \/ \E c \in Clients, n \in Names : Register(c, n) \/ \E b \in BOOLEAN : CreateUser(c, n, b)
    \/ \E c \in Clients, u \in Uids :
        UpdateMe(c, u) \/ UpdateUser(c, u) \/ DeleteUser(c, u) \/ AskReset(c, u)
    \/ \E c \in Clients, t \in Tokens : CreateToken(c, t) \/ Confirm(c, t)
    \/ \E c \in Clients : \/ CheckName(c) \/ Insert(c) \/ SaveEdit(c) \/ Remove(c)
                          \/ Mail(c) \/ FindUser(c) \/ SavePassword(c) \/ MarkUsed(c)
    \/ \E t \in Tokens : Expire(t)

Spec == Init /\ [][Next]_vars

-----------------------------------------------------------------------------
Rows == [name : Names, pass : 1 .. MaxRequests, admin : BOOLEAN, disabled : BOOLEAN]

TypeOK ==
    /\ users \in [Uids -> Rows \cup {None}]
    /\ \A u, v \in Existing : users[u].name = users[v].name => u = v
    /\ unused \cap Existing = {}
    /\ valid \in [Tokens -> Uids \cup {None}] /\ issued \subseteq Tokens
    /\ \A t \in Tokens \ issued : valid[t] = None /\ uses[t] = 0
    /\ requests \in 0 .. MaxRequests /\ doubled \subseteq Tokens

\* Whoever registers becomes an administrator only as the first user there is,
\* unless another account was being made while the request was under way
\* (register_user counts the users several queries before it makes one).
FirstStep ==
    \A c \in Clients, u \in Uids :
        /\ call[c].at = "insert" /\ call[c].by = "register" /\ ~call[c].met
        /\ call'[c] = Ready /\ users[u] = None /\ users'[u] # None
        => (users'[u].admin => Existing = {})
FirstIsAdmin == [][FirstStep]_vars

\* A field of an account changes only to what the request that writes it asked for;
\* the exception is an edit that read the row before another request wrote to it,
\* for update_me and update_user save whole rows.  A reset never is one.
AskedFor(c, f, v) ==
    \/ call[c].at = "edit" /\ (call[c].stale \/ (call[c].field = f /\ call[c].value = v))
    \/ call[c].at = "reset" /\ f = "pass" /\ call[c].pass = v
AskedStep ==
    \A u \in Uids : users[u] # None /\ users'[u] # None =>
        \A f \in {"name", "pass", "admin", "disabled"} : users'[u][f] # users[u][f] =>
            \E c \in Clients : call'[c] # call[c] /\ AskedFor(c, f, users'[u][f])
OnlyEditsUndo == [][AskedStep]_vars

\* A reset token sets one password and is dead then, as is every other token of its
\* user; and a user has one token at a time.  Only two confirmations that both held
\* the token before either was done may both set one.
TokenOnce ==
    /\ \A t \in Tokens : uses[t] > 1 => t \in doubled
    /\ \A t \in Tokens : uses[t] > 0 /\ ~(\E c \in Clients : Holds(c, t)) => valid[t] = None
    /\ \A s, t \in Tokens : valid[s] = valid[t] /\ valid[s] # None => s = t
=================================================================================
