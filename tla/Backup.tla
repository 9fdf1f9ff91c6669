--------------------------------- MODULE Backup ---------------------------------
(***************************************************************************)
(* Export and import of the tables (backup/service.py) in the database of  *)
(* models/database.py, whose foreign keys cascade.  Two families of tables *)
(* stand for all: accounts with their shares and their roles, which no     *)
(* section exports, and AI providers with their models and default models. *)
(* The other sections are like providers without models.                   *)
(***************************************************************************)
EXTENDS Naturals, Sequences, SequencesExt, FiniteSets

CONSTANTS MaxRows, \* rows of a table
          MaxEdits,
          Names,    \* what is unique in a table, and the value of its rows
          SectionSets, \* the sections somebody exports
          Gone

VARIABLES db,   \* the tables
          used,  \* the last id given in each table
          file,  \* the last export
          last,  \* how the last import ended, until the next change
          was,   \* history: the tables before it
          edits

bkvars == <<db, used, file, last, was, edits>>

Sections == {"users", "shares", "providers", "models", "defaults"}
Tables == Sections \cup {"roles"}
RowIds == 1 .. MaxRows
Nobody == 0
Parent == [users |-> "users", shares |-> "users", roles |-> "users", providers |-> "providers",
           models |-> "providers", defaults |-> "models"]
NoRow == [i \in RowIds |-> Gone]
Rows(d, t) == {i \in RowIds : d[t][i] # Gone}

\* created_by may be empty; providers refer to nothing.
RefOK(d, t, r) == r.ref = Nobody \/ (t # "providers" /\ r.ref \in Rows(d, Parent[t]))
RefNeeded(t) == t \notin {"users", "providers"}

\* A model's name is unique with its provider, a role with its user.
Same(t, r, s) == r.name = s.name /\ (t \in {"models", "roles"} => r.ref = s.ref)
Fits(d, t, i, r) == RefOK(d, t, r) /\ \A j \in Rows(d, t) \ {i} : ~Same(t, r, d[t][j])

\* The rows that refer to rows that are gone: deleted, but an account only forgets.
Without(d, dead) ==
    [t \in Tables |-> [i \in RowIds |->
        IF i \in dead[t] THEN Gone
        ELSE IF t = "users" /\ d[t][i] # Gone /\ d[t][i].ref \in dead[t]
             THEN [d[t][i] EXCEPT !.ref = Nobody] ELSE d[t][i]]]

\* DELETE FROM t WHERE id IN ids
Deleted(d, t, ids) ==
    LET child(p, gone, u) == {i \in Rows(d, u) : RefNeeded(u) /\ Parent[u] = p /\ d[u][i].ref \in gone}
        models == IF t = "providers" THEN child(t, ids, "models") ELSE {}
    IN Without(d, [u \in Tables |-> child(t, ids, u) \cup child("models", models, u)
                                     \cup (IF u = t THEN ids ELSE {})])

-----------------------------------------------------------------------------
(* What the rest of the program does to the tables. *)
Edited(d) ==
    /\ edits < MaxEdits /\ edits' = edits + 1
    /\ db' = d
    /\ last' = "none" /\ was' = Gone
    /\ UNCHANGED file

Add(t, r) ==
    /\ used[t] < MaxRows
    /\ RefNeeded(t) => r.ref # Nobody
    /\ Fits(db, t, 0, r)
    /\ Edited([db EXCEPT ![t][used[t] + 1] = r])
    /\ used' = [used EXCEPT ![t] = @ + 1]

Change(t, i, n) ==
    /\ i \in Rows(db, t)
    /\ LET r == [db[t][i] EXCEPT !.name = n] IN
       /\ r # db[t][i] /\ Fits(db, t, i, r)
       /\ Edited([db EXCEPT ![t][i] = r])
    /\ UNCHANGED used

Drop(t, i) ==
    /\ i \in Rows(db, t)
    /\ Edited(Deleted(db, t, {i}))
    /\ UNCHANGED used

-----------------------------------------------------------------------------
\* export_data reads the tables of the sections in one transaction.
Export(S) ==
    /\ file' = [sections |-> S, rows |-> [t \in S |-> db[t]]]
    /\ last' = "none" /\ was' = Gone
    /\ UNCHANGED <<db, used, edits>>

DeleteOrder == <<"shares", "users", "defaults", "models", "providers">>

\* Mutant: models are made before their providers.
CreateMixed == <<"users", "shares", "models", "providers", "defaults">>

CreateOrder == <<"users", "shares", "providers", "models", "defaults">>

\* INSERT of a row, in a transaction s that a violation ends.
Insert(s, t, i, r) ==
    IF s.ok /\ i \notin Rows(s.db, t) /\ Fits(s.db, t, i, r)
    THEN [s EXCEPT !.db[t][i] = r] ELSE [s EXCEPT !.ok = FALSE]

\* _merge_records: UPDATE of the row of that id, or else INSERT.
Merge(s, t, i, r) ==
    IF i \in Rows(s.db, t) /\ s.ok
    THEN IF Fits(s.db, t, i, r) THEN [s EXCEPT !.db[t][i] = r] ELSE [s EXCEPT !.ok = FALSE]
    ELSE Insert(s, t, i, r)

\* The records of a section, one after the other.
Load(s, t, mode) ==
    FoldLeft(LAMBDA a, i : IF file.rows[t][i] = Gone THEN a
                           ELSE IF mode = "merge" THEN Merge(a, t, i, file.rows[t][i])
                           ELSE Insert(a, t, i, file.rows[t][i]),
             s, [i \in RowIds |-> i])

Chosen(order) == SelectSeq(order, LAMBDA t : t \in file.sections)

Emptied(d) == FoldLeft(LAMBDA a, t : Deleted(a, t, RowIds), d, Chosen(DeleteOrder))

\* import_data: the deletions of mode replace, then the sections in their order.
Imported(d, mode) ==
    FoldLeft(LAMBDA s, t : Load(s, t, mode), [db |-> d, ok |-> TRUE], Chosen(CreateOrder))

\* The transaction is committed, or rolled back.  Ids once given are not given again.
Import(mode) ==
    /\ file # Gone /\ last = "none"
    /\ \E d \in {IF mode = "merge" THEN db ELSE Emptied(db)} : \E s \in {Imported(d, mode)} :
       /\ db' = IF s.ok THEN s.db ELSE db
       /\ last' = IF s.ok THEN mode ELSE "refused " \o mode
    /\ was' = db
    /\ UNCHANGED <<used, file, edits>>

Init ==
    /\ db = [t \in Tables |-> NoRow] /\ used = [t \in Tables |-> 0]
    /\ file = Gone /\ last = "none" /\ was = Gone /\ edits = 0

Next ==
    \/ \E t \in Tables : \/ \E n \in Names, ref \in RowIds \cup {Nobody} : Add(t, [name |-> n, ref |-> ref])
                         \/ \E i \in RowIds : Drop(t, i) \/ \E n \in Names : Change(t, i, n)
    \/ \E S \in SectionSets : Export(S)
    \/ \E mode \in {"replace", "merge"} : Import(mode)

BkSpec == Init /\ [][Next]_bkvars

-----------------------------------------------------------------------------
TypeOK ==
    /\ \A t \in Tables : \A i \in Rows(db, t) :
        db[t][i] \in [name : Names, ref : RowIds \cup {Nobody}] /\ RefOK(db, t, db[t][i])
    /\ used \in [Tables -> 0 .. MaxRows] /\ edits \in 0 .. MaxEdits
    /\ last \in {"none", "replace", "merge", "refused replace", "refused merge"}

Closed(S) == \A t \in S : Parent[t] \in S

\* An export that has the tables its tables refer to can always be brought back, whatever
\* has become of the database: it is never refused, and its sections are as they were.
Restores ==
    /\ last = "refused replace" => ~Closed(file.sections)
    /\ last = "replace" => \A t \in file.sections : db[t] = file.rows[t]

\* What no section names is left alone, but for what goes with a table that is replaced:
\* the roles of all accounts, the models of all providers, even where the account or the
\* provider is back under its id.  A merge takes nothing away; a refused import does
\* nothing.
SparesOthers ==
    /\ last = "replace" => \A t \in Tables \ file.sections :
        \/ db[t] = was[t]
        \/ Parent[t] \in file.sections \/ Parent[Parent[t]] \in file.sections
    /\ last = "merge" => \A t \in Tables : \A i \in Rows(was, t) :
        db[t][i] = IF t \in file.sections /\ file.rows[t][i] # Gone THEN file.rows[t][i] ELSE was[t][i]
    /\ last \in {"refused replace", "refused merge"} => db = was
=================================================================================
