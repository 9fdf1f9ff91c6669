--------------------------------- MODULE Plugins ---------------------------------
(***************************************************************************)
(* Plugins: their files, rows and processors (plugins/service.py,          *)
(* loader.py and startup.py), and the processor types of                   *)
(* processors/registry.py.  Requests of administrators run until they      *)
(* query the database; files and types change between queries.             *)
(***************************************************************************)
EXTENDS Naturals

CONSTANTS Admins, Plugins,
          Provides,    \* Provides[p][v]: the processor types of version v of plugin p
          Builtin,     \* the types that come with Foxel
          MaxRequests,
          Nothing

VARIABLES dir,     \* data/plugins/<key>: the version whose files are there
          backup,  \* data/plugins/<key>.backup
          row,     \* the Plugin table
          types,   \* TYPE_MAP: who provides each type
          ops,     \* the request of each administrator
          asked,   \* requests so far
          loose,   \* history: the plugins whose types may be off for a known reason,
          hurt     \*   and those whose files may be

plvars == <<dir, backup, row, types, ops, asked, loose, hurt>>

Versions == {1, 2}
TypeNames == Builtin \cup UNION {Provides[p][v] : p \in Plugins, v \in Versions}
Native == [t \in TypeNames |-> IF t \in Builtin THEN "builtin" ELSE Nothing]
Torn == 0
Idle == [at |-> "idle"]
At(c, at) == ops[c].at = at
Goes(c, at) == ops' = [ops EXCEPT ![c].at = at]
Ends(c) == ops' = [ops EXCEPT ![c] = Idle]
On(p) == {c \in Admins : ops[c].at # "idle" /\ ops[c].p = p}
Of(p) == {t \in TypeNames : types[t] = p}

\* History: two requests about one plugin at a time.
Begins(c, r) ==
    /\ At(c, "idle") /\ asked < MaxRequests
    /\ asked' = asked + 1
    /\ ops' = [ops EXCEPT ![c] = r]
    /\ LET both == IF On(r.p) = {} THEN {} ELSE {r.p} IN
       loose' = loose \cup both /\ hurt' = hurt \cup both

-----------------------------------------------------------------------------
(* install_package *)

\* unpack_foxpkg: the old files are set aside, the new ones extracted, the old removed.
Unpack(c, p, v) ==
    /\ Begins(c, [at |-> "look", p |-> p, v |-> v])
    /\ dir' = [dir EXCEPT ![p] = v] /\ backup' = [backup EXCEPT ![p] = Nothing]
    /\ UNCHANGED <<row, types>>

\* Mutant: the old files are not brought back.
UnpackBreaks(p) ==
    /\ dir' = [dir EXCEPT ![p] = Torn]
    /\ backup' = [backup EXCEPT ![p] = IF dir[p] # Nothing THEN dir[p] ELSE @]

\* An archive that cannot be extracted: the files set aside come back, if there are any.
UnpackFails(p) ==
    LET old == IF dir[p] # Nothing THEN dir[p] ELSE backup[p] IN
    /\ dir' = [dir EXCEPT ![p] = IF old = Nothing THEN Torn ELSE old]
    /\ backup' = [backup EXCEPT ![p] = Nothing]

BadPackage(c, p) ==
    /\ At(c, "idle") /\ asked < MaxRequests
    /\ asked' = asked + 1
    /\ UnpackFails(p)
    /\ loose' = (IF On(p) = {} THEN loose ELSE loose \cup {p})
    /\ hurt' = (IF On(p) = {} THEN hurt ELSE hurt \cup {p})
    /\ UNCHANGED <<row, types, ops>>

Look(c) ==
    /\ At(c, "look")
    /\ ops' = [ops EXCEPT ![c] = [at |-> "save", p |-> @.p, v |-> @.v,
                                  id |-> IF row[@.p] = Nothing THEN 0 ELSE row[@.p].id,
                                  new |-> row[@.p] = Nothing]]
    /\ UNCHANGED <<dir, backup, row, types, asked, loose, hurt>>

\* The row's id is the number of requests so far: a later row has another.
\* UPDATE of a row that may be gone, or INSERT, which fails if there is one: by then the
\* files have changed.
Save(c) ==
    /\ At(c, "save")
    /\ LET o == ops[c] IN
       IF o.new /\ row[o.p] # Nothing THEN Ends(c) /\ UNCHANGED row
       ELSE /\ ops' = [ops EXCEPT ![c] = [at |-> "load", p |-> o.p, v |-> o.v,
                                          id |-> IF o.new THEN asked ELSE o.id]]
            /\ row' = IF o.new THEN [row EXCEPT ![o.p] = [id |-> asked, v |-> o.v, loaded |-> {}]]
                      ELSE IF row[o.p] # Nothing /\ row[o.p].id = o.id THEN [row EXCEPT ![o.p].v = o.v]
                      ELSE row
    /\ UNCHANGED <<dir, backup, types, asked, loose, hurt>>

\* A query of a request fails and ends it, with what it has done so far: the files of an
\* installation stay replaced, the types of a removal unloaded.
QueryFails(c) ==
    /\ ops[c].at \in {"look", "save", "note", "drop"}
    /\ IF ops[c].at \in {"look", "save"}
       THEN hurt' = hurt \cup {ops[c].p} /\ loose' = loose
       ELSE loose' = loose \cup {ops[c].p} /\ hurt' = hurt
    /\ Ends(c)
    /\ UNCHANGED <<dir, backup, row, types, asked>>

\* load_all_processors: the types are registered one by one, over whoever has them, from the
\* files that are there; one that cannot be loaded ends it.
Loadable(p, v) == IF dir[p] \in Versions THEN Provides[p][v] \cap Provides[p][dir[p]] ELSE {}
Registered(p, ts) == [t \in TypeNames |-> IF t \in ts THEN p ELSE types[t]]
Robbed(p, ts) == {q \in Plugins \ {p} : Of(q) \cap ts # {}}

\* History: types of the version before stay; others' types are taken.
Load(c) ==
    /\ At(c, "load")
    /\ LET o == ops[c]
           all == Provides[o.p][o.v]
       IN \E ts \in SUBSET Loadable(o.p, o.v) :
          /\ types' = Registered(o.p, ts)
          /\ ops' = [ops EXCEPT ![c] = [at |-> "note", p |-> o.p, v |-> o.v, id |-> o.id,
                                        ts |-> IF ts = all THEN all ELSE {}]]
          /\ loose' = loose \cup Robbed(o.p, ts)
                            \cup (IF ts # all \/ ~(Of(o.p) \subseteq all) \/ Robbed(o.p, ts) # {} THEN {o.p} ELSE {})
    /\ UNCHANGED <<dir, backup, row, asked, hurt>>

Note(c) ==
    /\ At(c, "note")
    /\ LET o == ops[c] IN
       row' = IF row[o.p] # Nothing /\ row[o.p].id = o.id
              THEN [row EXCEPT ![o.p] = [id |-> o.id, v |-> o.v, loaded |-> o.ts]] ELSE row
    /\ Ends(c)
    /\ UNCHANGED <<dir, backup, types, asked, loose, hurt>>

-----------------------------------------------------------------------------
(* delete *)
Delete(c, p) ==
    /\ row[p] # Nothing
    /\ Begins(c, [at |-> "unload", p |-> p, v |-> row[p].v, id |-> row[p].id])
    /\ UNCHANGED <<dir, backup, row, types>>

\* unload_plugin removes the types of the row's manifest, whoever provides them.
Unload(c) ==
    /\ At(c, "unload")
    /\ LET ts == Provides[ops[c].p][ops[c].v] IN
       /\ types' = [t \in TypeNames |-> IF t \in ts THEN Nothing ELSE types[t]]
       /\ loose' = loose \cup Robbed(ops[c].p, ts)
    /\ Goes(c, "drop")
    /\ UNCHANGED <<dir, backup, row, asked, hurt>>

DropRow(c) ==
    /\ At(c, "drop")
    /\ row' = IF row[ops[c].p] # Nothing /\ row[ops[c].p].id = ops[c].id
              THEN [row EXCEPT ![ops[c].p] = Nothing] ELSE row
    /\ Goes(c, "remove")
    /\ UNCHANGED <<dir, backup, types, asked, loose, hurt>>

\* A removal that fails is not noticed: all of the files may stay, or some.
RemoveFiles(c) ==
    /\ At(c, "remove")
    /\ \E left \in {Nothing} \cup (IF dir[ops[c].p] = Nothing THEN {} ELSE {dir[ops[c].p], Torn}) :
        /\ dir' = [dir EXCEPT ![ops[c].p] = left]
        /\ hurt' = IF left = Nothing THEN hurt ELSE hurt \cup {ops[c].p}
    /\ Ends(c)
    /\ UNCHANGED <<backup, row, types, asked, loose>>

-----------------------------------------------------------------------------
\* reload_processors clears every type and finds the builtin ones again.
Reload ==
    /\ asked < MaxRequests
    /\ asked' = asked + 1
    /\ types' = Native
    /\ loose' = Plugins
    /\ UNCHANGED <<dir, backup, row, ops, hurt>>

\* load_installed_plugins registers the types of one row after the other: the last plugin
\* that has a type provides it.
Installed == {p \in Plugins : row[p] # Nothing}
Claims(t) == {p \in Installed : t \in Loadable(p, row[p].v)}
AtStart == [t \in TypeNames |->
    IF Claims(t) = {} THEN Native[t]
    ELSE CHOOSE p \in Claims(t) : \A q \in Claims(t) : row[q].id <= row[p].id]

\* A restart, whatever was under way; in the middle of an extraction too.  Afterwards the
\* rows say what is loaded, but for those whose save fails.
Restart(inside, unsaved) ==
    /\ asked < MaxRequests
    /\ asked' = asked + 1
    /\ ops' = [c \in Admins |-> Idle]
    /\ types' = AtStart
    /\ row' = [p \in Plugins |-> IF row[p] = Nothing \/ p \in unsaved THEN row[p]
                 ELSE [row[p] EXCEPT !.loaded = IF Loadable(p, row[p].v) = Provides[p][row[p].v]
                                          THEN Provides[p][row[p].v] ELSE {}]]
    /\ loose' = unsaved \cup
           {p \in Plugins : row[p] # Nothing /\ {t \in TypeNames : AtStart[t] = p} # Provides[p][row[p].v]}
    /\ hurt' = hurt \cup inside \cup {p \in Plugins : On(p) # {}}
    /\ dir' = [p \in Plugins |-> IF p \in inside THEN Torn ELSE dir[p]]
    /\ backup' = [p \in Plugins |-> IF p \in inside /\ dir[p] # Nothing THEN dir[p] ELSE backup[p]]

Init ==
    /\ dir = [p \in Plugins |-> Nothing] /\ backup = [p \in Plugins |-> Nothing]
    /\ row = [p \in Plugins |-> Nothing] /\ types = Native
    /\ ops = [c \in Admins |-> Idle] /\ asked = 0 /\ loose = {} /\ hurt = {}

Next ==
    \/ \E c \in Admins, p \in Plugins :
        \/ \E v \in Versions : Unpack(c, p, v)
        \/ BadPackage(c, p) \/ Delete(c, p)
    \/ \E c \in Admins : Look(c) \/ Save(c) \/ Load(c) \/ Note(c) \/ Unload(c) \/ DropRow(c) \/ RemoveFiles(c)
        \/ QueryFails(c)
    \/ Reload \/ \E inside, unsaved \in {{}} \cup {{p} : p \in Plugins} : Restart(inside, unsaved)

PlSpec == Init /\ [][Next]_plvars

-----------------------------------------------------------------------------
TypeOK ==
    /\ \A p \in Plugins :
        /\ dir[p] \in Versions \cup {Torn, Nothing} /\ backup[p] \in Versions \cup {Torn, Nothing}
        /\ row[p] # Nothing => row[p].v \in Versions /\ row[p].loaded \subseteq TypeNames
    /\ \A t \in TypeNames : types[t] \in Plugins \cup {"builtin", Nothing}
    /\ \A c \in Admins : ops[c].at \in {"idle", "look", "save", "load", "note", "unload", "drop", "remove"}
    /\ asked \in 0 .. MaxRequests /\ loose \cup hurt \subseteq Plugins

\* A plugin nothing is being done to provides the types its row says, and one that is not
\* installed none; but, until the next restart, where the processors were reloaded, two
\* requests about the plugin overlapped, a module did not load or the row could not be told,
\* another plugin provides or provided the same type, or an update has fewer types.
TypesAreInstalled ==
    \A p \in Plugins \ loose : On(p) = {} => Of(p) = IF row[p] = Nothing THEN {} ELSE row[p].loaded

\* The files of a plugin nothing is being done to are those of its row, and one that is not
\* installed has none that could be taken for whole, but after two requests about it
\* overlapped, a restart cut one short, the row could not be saved or the files not be
\* removed: an update whose files are no good leaves the old ones.
FilesAreRows ==
    \A p \in Plugins \ hurt : On(p) = {} =>
        IF row[p] = Nothing THEN dir[p] \in {Nothing, Torn} ELSE dir[p] = row[p].v
=================================================================================
