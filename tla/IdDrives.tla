-------------------------------- MODULE IdDrives --------------------------------
(***************************************************************************)
(* The providers whose services know things by identifiers, where names    *)
(* need not be unique: googledrive.py, quark.py and pikpak.py.  A path is  *)
(* turned into an identifier directory by directory.  Quark and PikPak     *)
(* keep what they learn: _children_cache, the rows of a directory, and     *)
(* _dir_fid_cache or _dir_id_cache, the directory a path leads to.         *)
(*                                                                         *)
(* An operation is a list of steps.  A request is an await: the service    *)
(* answers (Serve), and later the provider goes on (Receive).  The other   *)
(* steps run without one, so no other call runs in between.  Identifiers   *)
(* grow with the time of creation.  Uploads are one request (Upload).      *)
(***************************************************************************)
EXTENDS Naturals, Sequences, SequencesExt, FiniteSets, FiniteSetsExt

CONSTANTS IdDrivesUsed, Callers, Routes, \* the paths there may be
          MaxId,     \* the identifiers there are
          MaxEvents, \* bound on calls, changes from elsewhere and lost answers together
          Alias,     \* the name a service gives a copy whose own is taken
          Nil, Gone

VARIABLES service, \* which provider this is, or Nil before there is one
          item,    \* the service: what each identifier stands for
          kids,    \* _children_cache
          ways,    \* _dir_fid_cache, _dir_id_cache
          call,    \* what each caller is at
          spent,   \* events so far
          doubt    \* history: directories and paths cached wrongly for a known reason

idvars == <<service, item, kids, ways, call, spent, doubt>>

Root == 0
Ids == 1 .. MaxId
Up(p) == Front(p)
Nam(p) == Last(p)
Names == {Nam(p) : p \in Routes}
Caching == service \in {"quark", "pikpak"}

Thing(name, up, dir, v) == [name |-> name, up |-> up, dir |-> dir, v |-> v]
Present(things) == {i \in Ids : things[i] \notin {Nil, Gone}}
Living == Present(item)
IsFolder(i) == i = Root \/ (i \in Living /\ item[i].dir)
Rows(d) == {[id |-> i, name |-> item[i].name, dir |-> item[i].dir] : i \in {j \in Living : item[j].up = d}}
Fresh == {i \in Ids : item[i] = Nil}

\* What is at each path: more than one thing, perhaps.
At(things) ==
    LET at[p \in Routes] == {i \in Present(things) : /\ things[i].name = Nam(p)
                                               /\ IF Len(p) = 1 THEN things[i].up = Root
                                                  ELSE things[i].up \in at[Up(p)] /\ things[things[i].up].dir}
    IN  at
Led(p) == {i \in At(item)[p] : item[i].dir}

WrongKids == {d \in {e \in DOMAIN kids : IsFolder(e)} : kids[d] # Nil /\ kids[d] # Rows(d)}
WrongWays == {p \in DOMAIN ways : ways[p] # Nil /\ ways[p] \notin Led(p)}
\* History: for what is wrong in the caches now, the reason is known.
Excuse == doubt' = [kids |-> WrongKids, ways |-> WrongWays]'

-----------------------------------------------------------------------------
(* Steps.  A Folder or a Find that meets nothing raises, ends the operation *)
(* in success, or goes on after the Find without a thing.                   *)

Step(do, p, reg, miss) == [do |-> do, p |-> p, reg |-> reg, miss |-> miss]
Folder(p, reg) == Step("folder", p, reg, "raise")
Find(p, miss) == <<Step("folder", Up(p), "from", miss), Step("find", p, "from", miss)>>
Do(c) == Step(c, <<>>, "to", "raise")
On(c, p) == Step(c, p, "to", "raise")
Forget(reg) == Step("forget", <<>>, reg, "raise")

-----------------------------------------------------------------------------
(* googledrive.py *)
GdriveRead(o) == Find(o.p, "raise") \o <<Do("get")>>
GdriveStat(o) == Find(o.p, "raise") \o <<Do("peek")>>
GdriveList(o) == <<Step("folder", o.p, "to", "quit"), Do("rows")>>

\* Mutant: what is there already is not looked for.
GdriveWriteNew(o) == <<Folder(Up(o.p), "to"), On("put", o.p)>>

\* A file that is there is written over, otherwise one is made.
GdriveWrite(o) == <<Folder(Up(o.p), "to")>> \o Find(o.p, "none") \o <<On("put", o.p)>>
GdriveMkdir(o) == <<Folder(Up(o.p), "to"), On("mkdir", o.p)>>
GdriveDelete(o) == Find(o.p, "quit") \o <<Do("remove")>>
GdriveMove(o) == Find(o.p, "raise") \o <<Do("parents"), Folder(Up(o.q), "to"), On("movename", o.q)>>
GdriveCopy(o) == Find(o.p, "raise") \o <<Folder(Up(o.q), "to"), On("copyname", o.q)>>

-----------------------------------------------------------------------------
(* quark.py: no copies; its paths' cache is never cleared. *)
QuarkRead(o) == Find(o.p, "raise") \o <<Do("get")>>
QuarkStat(o) == Find(o.p, "raise") \o <<Do("found")>>
QuarkList(o) == <<Folder(o.p, "to"), Do("rows")>>
QuarkWrite(o) == <<Folder(Up(o.p), "to"), On("upload", o.p), Forget("to")>>
QuarkMkdir(o) == <<Folder(Up(o.p), "to"), On("mkdir", o.p), Forget("to")>>
QuarkDelete(o) ==
    <<Folder(Up(o.p), "from"), Step("find", o.p, "from", "quit"), Do("trash"), Forget("from")>>
QuarkMove(o) ==
    Find(o.p, "raise")
    \o <<Folder(Up(o.q), "to"), Do("move"), Forget("from"), Forget("to"), On("rename", o.q), Forget("to")>>

-----------------------------------------------------------------------------
(* pikpak.py: no uploads; what happens to a directory clears the paths.     *)
PikpakRead(o) == Find(o.p, "raise") \o <<Do("get")>>
PikpakStat(o) == Find(o.p, "raise") \o <<Do("found")>>
PikpakList(o) == <<Folder(o.p, "to"), Do("rows")>>
PikpakMkdir(o) == <<Folder(Up(o.p), "to"), On("mkdir", o.p), Forget("to")>>

PikpakDelete(o) == Find(o.p, "raise") \o <<Do("trash"), Forget("from"), Do("clear")>>

PikpakMove(o) ==
    Find(o.p, "raise")
    \o <<Folder(Up(o.q), "to"), Do("move"), Forget("from"), Forget("to"), On("rename", o.q), Forget("to"),
         Do("clear")>>

\* The copy keeps its name; the newest thing of that name is then taken for it.
PikpakCopy(o) ==
    Find(o.p, "raise")
    \o <<Folder(Up(o.q), "to"), Do("copy"), Forget("to"), On("copied", o.q), On("rename", o.q), Forget("to"),
         Do("clear")>>

-----------------------------------------------------------------------------
Steps(o) ==
    CASE service = "googledrive" ->
            (CASE o.op = "read" -> GdriveRead(o) [] o.op = "stat" -> GdriveStat(o) [] o.op = "list" -> GdriveList(o)
               [] o.op = "write" -> GdriveWrite(o) [] o.op = "mkdir" -> GdriveMkdir(o)
               [] o.op = "delete" -> GdriveDelete(o) [] o.op = "move" -> GdriveMove(o)
               [] o.op = "copy" -> GdriveCopy(o))
      [] service = "quark" ->
            (CASE o.op = "read" -> QuarkRead(o) [] o.op = "stat" -> QuarkStat(o) [] o.op = "list" -> QuarkList(o)
               [] o.op = "write" -> QuarkWrite(o) [] o.op = "mkdir" -> QuarkMkdir(o)
               [] o.op = "delete" -> QuarkDelete(o) [] o.op = "move" -> QuarkMove(o))
      [] service = "pikpak" ->
            (CASE o.op = "read" -> PikpakRead(o) [] o.op = "stat" -> PikpakStat(o) [] o.op = "list" -> PikpakList(o)
               [] o.op = "mkdir" -> PikpakMkdir(o) [] o.op = "delete" -> PikpakDelete(o)
               [] o.op = "move" -> PikpakMove(o) [] o.op = "copy" -> PikpakCopy(o))

Offered ==
    CASE service = "googledrive" -> {"read", "stat", "list", "write", "mkdir", "delete", "move", "copy"}
      [] service = "quark" -> {"read", "stat", "list", "write", "mkdir", "delete", "move"}
      [] service = "pikpak" -> {"read", "stat", "list", "mkdir", "delete", "move", "copy"}
      [] OTHER -> {}

Beside(p, q) == ~IsPrefix(p, q) /\ ~IsPrefix(q, p)
Requests(op) ==
    CASE op = "list" -> [op : {op}, p : Routes \cup {<<>>}, q : {<<>>}]
      [] op \in {"move", "copy"} -> {o \in [op : {op}, p : Routes, q : Routes] : Beside(o.p, o.q)}
      [] OTHER -> [op : {op}, p : Routes, q : {<<>>}]

-----------------------------------------------------------------------------
Resting == [at |-> "rest"]
Under(c) == call[c].at \in {"run", "served", "refused"}
this(c) == Head(call[c].todo)
dir(c) == call[c][this(c).reg]
Doing(c, steps) == call[c].at = "run" /\ call[c].todo # <<>> /\ this(c).do \in steps

\* The rows of the directory a step looks in, when they are at hand.
AtHand(c) == IF Caching THEN kids[dir(c)] ELSE call[c].rows
Looks == {"seg", "find", "rows", "copied"}
Skips(c) ==
    \/ this(c).do = "move" /\ call[c].from = call[c].to
    \/ this(c).do = "rename" /\ call[c].it.name = Nam(this(c).p)
Asks == {"get", "peek", "put", "upload", "mkdir", "trash", "remove", "parents", "move", "rename",
         "movename", "copy", "copyname"}
Runs(c) ==
    /\ call[c].at = "run"
    /\ \/ call[c].todo = <<>>
       \/ this(c).do \in {"folder", "forget", "clear", "found"}
       \/ this(c).do \in Looks /\ AtHand(c) # Nil
       \/ this(c).do \in Asks /\ Skips(c)
Idle == \A c \in Callers : ~Runs(c)

Goes(c, r) == call' = [call EXCEPT ![c] = r]
Past(c) == [call[c] EXCEPT !.todo = Tail(@), !.rows = Nil]
Fails(c) == [at |-> "failed"]
\* After the Find that a missing thing was for.
AfterFind(s) == SubSeq(s, 1 + Min({i \in DOMAIN s : s[i].do = "find"}), Len(s))
Missing(c) ==
    CASE this(c).miss = "raise" -> Fails(c)
      [] this(c).miss = "quit" -> [call[c] EXCEPT !.todo = <<>>]
      [] this(c).miss = "none" -> [call[c] EXCEPT !.it = Nil, !.todo = AfterFind(@), !.rows = Nil]

Clean == WrongKids = {} /\ WrongWays = {} /\ \A p \in Routes : Cardinality(At(item)[p]) < 2

Setup(drive, things, full) ==
    /\ service' = drive /\ item' = things
    /\ kids' = [d \in {Root} \cup Ids |->
            IF full /\ Caching' /\ IsFolder(d)' THEN Rows(d)' ELSE Nil]
    /\ ways' = [p \in Routes |-> IF full /\ Caching' /\ Led(p)' # {} THEN Min(Led(p)') ELSE Nil]
    /\ UNCHANGED <<call, spent, doubt>>

\* A change meets the calls under way; what ended before it need not be told any more.
Met(c) == IF Under(c) THEN [call[c] EXCEPT !.clean = FALSE] ELSE Resting

Begin(c, o) ==
    /\ ~Under(c)
    /\ spent' = spent + 1
    /\ call' = [d \in Callers |->
            IF d = c THEN [at |-> "run", o |-> o, todo |-> Steps(o), rows |-> Nil, from |-> Nil, to |-> Nil,
                           it |-> Nil, got |-> Nil, before |-> item,
                           clean |-> Clean /\ \A e \in Callers : ~Under(e)]
            ELSE Met(d)]
    /\ UNCHANGED <<service, item, kids, ways, doubt>>

-----------------------------------------------------------------------------
(* Steps without an await. *)

Walk(c) ==
    /\ Doing(c, {"folder"})
    /\ LET p == this(c).p
           reg == this(c).reg IN
       Goes(c, IF p = <<>> THEN [Past(c) EXCEPT ![reg] = Root]
               ELSE IF Caching /\ ways[p] # Nil THEN [Past(c) EXCEPT ![reg] = ways[p]]
               ELSE [call[c] EXCEPT !.todo = <<[this(c) EXCEPT !.p = Up(p)], [this(c) EXCEPT !.do = "seg"]>> \o Tail(@)])
    /\ UNCHANGED <<service, item, kids, ways, spent, doubt>>

Named(c) == {r \in AtHand(c) : r.name = Nam(this(c).p)}

Seg(c) ==
    /\ Doing(c, {"seg"}) /\ AtHand(c) # Nil
    /\ LET p == this(c).p
           found == {r \in Named(c) : r.dir} IN
       IF found = {} THEN Goes(c, Missing(c)) /\ UNCHANGED <<ways, doubt>>
       ELSE \E r \in found :
            /\ Goes(c, [Past(c) EXCEPT ![this(c).reg] = r.id])
            /\ ways' = IF Caching THEN [ways EXCEPT ![p] = r.id] ELSE ways
            /\ doubt' = [doubt EXCEPT !.ways = IF r.id \in Led(p) THEN @ \ {p} ELSE @ \cup {p}]
    /\ UNCHANGED <<service, item, kids, spent>>

FindIt(c) ==
    /\ Doing(c, {"find"}) /\ AtHand(c) # Nil
    /\ IF Named(c) = {} THEN Goes(c, Missing(c))
       ELSE \E r \in Named(c) :
            Goes(c, IF r.dir /\ call[c].o.op = "read" THEN Fails(c) ELSE [Past(c) EXCEPT !.it = r])
    /\ UNCHANGED <<service, item, kids, ways, spent, doubt>>

Found(c) ==
    /\ Doing(c, {"found"})
    /\ Goes(c, [Past(c) EXCEPT !.got = call[c].it.dir])
    /\ UNCHANGED <<service, item, kids, ways, spent, doubt>>

Listed(c) ==
    /\ Doing(c, {"rows"}) /\ AtHand(c) # Nil
    /\ Goes(c, [Past(c) EXCEPT !.got = AtHand(c)])
    /\ UNCHANGED <<service, item, kids, ways, spent, doubt>>

Copied(c) ==
    /\ Doing(c, {"copied"}) /\ AtHand(c) # Nil
    /\ LET it == call[c].it
           like == {r \in AtHand(c) : r.name = it.name /\ r.id # it.id} IN
       Goes(c, IF it.name = Nam(this(c).p) THEN Past(c)
               ELSE IF like = {} THEN [Past(c) EXCEPT !.it.name = Nam(this(c).p)]
               ELSE [Past(c) EXCEPT !.it = CHOOSE r \in like : \A other \in like : r.id >= other.id])
    /\ UNCHANGED <<service, item, kids, ways, spent, doubt>>

Skip(c) ==
    /\ Doing(c, Asks) /\ Skips(c)
    /\ LET next == {i \in DOMAIN call[c].todo : i > 1 /\ call[c].todo[i].do # "forget"} IN
       Goes(c, [call[c] EXCEPT !.todo = IF next = {} THEN <<>> ELSE SubSeq(@, Min(next), Len(@))])
    /\ UNCHANGED <<service, item, kids, ways, spent, doubt>>

ForgetKids(c) ==
    /\ Doing(c, {"forget"})
    /\ kids' = [kids EXCEPT ![dir(c)] = Nil]
    /\ doubt' = [doubt EXCEPT !.kids = @ \ {dir(c)}]
    /\ Goes(c, Past(c))
    /\ UNCHANGED <<service, item, ways, spent>>

\* For a directory only.
ClearWays(c) ==
    /\ Doing(c, {"clear"})
    /\ IF call[c].it.dir THEN ways' = [p \in Routes |-> Nil] /\ doubt' = [doubt EXCEPT !.ways = {}]
       ELSE UNCHANGED <<ways, doubt>>
    /\ Goes(c, Past(c))
    /\ UNCHANGED <<service, item, kids, spent>>

Done(c) ==
    /\ call[c].at = "run" /\ call[c].todo = <<>>
    /\ Goes(c, IF call[c].clean
               THEN [call[c] EXCEPT !.at = "done", !.rows = Nil, !.from = Nil, !.to = Nil, !.it = Nil]
               ELSE Resting)
    /\ UNCHANGED <<service, item, kids, ways, spent, doubt>>

-----------------------------------------------------------------------------
(* Requests, as the service takes them: the things there are afterwards. *)

It(c) == call[c].it.id
Among(d, n) == {i \in Living : item[i].up = d /\ item[i].name = n}
BelowIt(i) == {i} \cup {j \in Living : item[j].up = i \/ (item[j].up \in Living /\ item[item[j].up].up = i)}
Lacks(is) == [j \in Ids |-> IF j \in is THEN Gone ELSE item[j]]
Makes(th) == IF Fresh = {} \/ ~IsFolder(th.up) THEN {} ELSE {[item EXCEPT ![Min(Fresh)] = th]}
Alters(i, th) == {[item EXCEPT ![i] = th]}
\* Quark and PikPak may refuse a second thing of one name, or keep both.
MayBe(d, n, i, results) == results \cup (IF Among(d, n) \ {i} # {} THEN {Nil} ELSE {})

Effects(c) ==
    LET to == call[c].to
        n == Nam(this(c).p)
        old == item[It(c)]
        here == It(c) \in Living
        fits == here /\ IsFolder(to) /\ to \notin BelowIt(It(c))
    IN
    CASE this(c).do \in Looks -> {item}
      [] this(c).do \in {"get", "peek", "parents"} /\ here -> {item}
      [] this(c).do = "put" /\ call[c].it = Nil -> Makes(Thing(n, to, FALSE, "new"))
      [] this(c).do = "put" /\ call[c].it # Nil /\ here /\ ~old.dir -> Alters(It(c), [old EXCEPT !.v = "new"])
      [] this(c).do = "upload" -> MayBe(to, n, Nil, Makes(Thing(n, to, FALSE, "new")))
      [] this(c).do = "mkdir" ->
            LET made == Makes(Thing(n, to, TRUE, "dir")) IN
            IF service = "googledrive" THEN made ELSE MayBe(to, n, Nil, made)
      [] this(c).do = "remove" \/ (this(c).do = "trash" /\ here) -> {Lacks(BelowIt(It(c)))}
      [] this(c).do = "move" /\ fits -> MayBe(to, old.name, It(c), Alters(It(c), [old EXCEPT !.up = to]))
      [] this(c).do = "rename" /\ here -> MayBe(old.up, n, It(c), Alters(It(c), [old EXCEPT !.name = n]))
      [] this(c).do = "movename" /\ fits -> Alters(It(c), [old EXCEPT !.up = to, !.name = n])
      [] this(c).do = "copyname" /\ here /\ ~old.dir -> Makes([old EXCEPT !.up = to, !.name = n])
      \* A directory is copied empty, here.
      [] this(c).do = "copy" /\ here ->
            MayBe(to, old.name, Nil, Makes([old EXCEPT !.up = to])
                \cup (IF Among(to, old.name) = {} THEN {} ELSE Makes([old EXCEPT !.up = to, !.name = Alias])))
      [] OTHER -> {}

Answer(c) ==
    CASE this(c).do \in Looks -> Rows(dir(c))
      [] this(c).do = "get" -> item[It(c)].v
      [] this(c).do = "peek" -> item[It(c)].dir
      [] this(c).do = "parents" -> item[It(c)].up
      [] OTHER -> Nil

Serve(c) ==
    /\ Doing(c, Looks \cup Asks) /\ Idle
    /\ \/ /\ Effects(c) \subseteq {Nil} \/ Nil \in Effects(c)
          /\ Goes(c, [call[c] EXCEPT !.at = "refused"])
          /\ UNCHANGED item
       \/ \E things \in Effects(c) \ {Nil} :
          /\ item' = things
          /\ Goes(c, [call[c] EXCEPT !.at = "served", !.rows = Answer(c)])
    /\ UNCHANGED <<service, kids, ways, spent, doubt>>

\* The provider goes on: rows are kept, whatever has happened since they were read.
Receive(c) ==
    /\ call[c].at = "served" /\ Idle
    /\ LET answer == call[c].rows
           on == [call[c] EXCEPT !.at = "run"] IN
       IF this(c).do \in Looks
       THEN /\ Goes(c, on)
            /\ IF Caching
               THEN /\ kids' = [kids EXCEPT ![dir(c)] = answer]
                    /\ doubt' = [doubt EXCEPT !.kids = IF answer = Rows(dir(c)) THEN @ \ {dir(c)} ELSE @ \cup {dir(c)}]
               ELSE UNCHANGED <<kids, doubt>>
       ELSE /\ Goes(c, IF this(c).do = "parents" THEN [Past(c) EXCEPT !.at = "run", !.from = answer]
                       ELSE [Past(c) EXCEPT !.at = "run", !.got = IF answer = Nil THEN @ ELSE answer])
            /\ UNCHANGED <<kids, doubt>>
    /\ UNCHANGED <<service, item, ways, spent>>

\* A refusal, or an answer that is lost, is raised: no cache hears of it.
Raises(c) ==
    /\ call[c].at \in {"refused", "served"} /\ Idle
    /\ call[c].at = "served" => spent < MaxEvents
    /\ spent' = IF call[c].at = "served" THEN spent + 1 ELSE spent
    /\ Goes(c, Fails(c))
    /\ UNCHANGED <<service, item, kids, ways>>
    /\ Excuse

\* Somebody else makes or removes something.
Elsewhere ==
    /\ Idle /\ service # Nil /\ spent < MaxEvents
    /\ spent' = spent + 1
    /\ \/ \E d \in {Root} \cup Living, n \in Names, folder \in BOOLEAN :
            item' \in Makes(Thing(n, d, folder, IF folder THEN "dir" ELSE "other"))
       \/ \E i \in Living : item' = Lacks(BelowIt(i))
    /\ call' = [c \in Callers |-> Met(c)]
    /\ UNCHANGED <<service, kids, ways>>
    /\ Excuse

Init ==
    /\ service = Nil
    /\ item = [i \in Ids |-> Nil]
    /\ kids = [d \in {Root} \cup Ids |-> Nil] /\ ways = [p \in Routes |-> Nil]
    /\ call = [c \in Callers |-> [at |-> "rest"]]
    /\ spent = 0
    /\ doubt = [kids |-> {}, ways |-> {}]

\* A directory and a file to begin with.
Setups == {[i \in Ids |-> IF i = 1 THEN Thing(CHOOSE m \in Names : TRUE, Root, TRUE, "dir")
                          ELSE IF i = 2 THEN Thing(n, d, FALSE, "old") ELSE Nil] :
           n \in Names, d \in {Root, 1}}

Next ==
    \/ /\ service = Nil
       /\ \E drive \in IdDrivesUsed, things \in Setups, full \in BOOLEAN : Setup(drive, things, full)
    \/ /\ Idle /\ spent < MaxEvents
       /\ \E c \in Callers, op \in Offered : \E o \in Requests(op) : Begin(c, o)
    \/ \E c \in Callers :
        \/ Walk(c) \/ Seg(c) \/ FindIt(c) \/ Found(c) \/ Listed(c) \/ Copied(c) \/ Skip(c)
        \/ ForgetKids(c) \/ ClearWays(c) \/ Done(c)
        \/ Serve(c) \/ Receive(c) \/ Raises(c)
    \/ Elsewhere

IdSpec == Init /\ [][Next]_idvars

-----------------------------------------------------------------------------
TypeOK ==
    /\ service \in IdDrivesUsed \cup {Nil}
    /\ \A i \in Living : item[i].up \in {Root} \cup Ids
    /\ \A c \in Callers : call[c].at \in {"rest", "run", "served", "refused", "done", "failed"}

Quiet == \A c \in Callers : call[c].at \in {"rest", "done", "failed"}

\* When nothing is under way, a cached directory lists what it holds: but where rows came
\* in after a later change, an answer was lost, or somebody else made a change.
KidsTrue == Quiet => WrongKids \subseteq doubt.kids

\* Then, too, a cached path of pikpak.py leads to a directory of that path.  Nothing ever
\* clears quark.py's: a path whose directory was moved, renamed or deleted goes on leading
\* to it, and writes go there.
WaysTrue == Quiet /\ service # "quark" => WrongWays \subseteq doubt.ways

\* What an operation alone has made of the things before.
IdContract(o, b, got) ==
    LET was == At(b)
        now == At(item)
        same(ps) == \A p \in Routes \ ps : now[p] = was[p] /\ \A i \in now[p] : item[i].v = b[i].v
    IN
    CASE o.op = "read" -> item = b /\ \E i \in was[o.p] : ~b[i].dir /\ got = b[i].v
      [] o.op = "stat" -> item = b /\ \E i \in was[o.p] : got = b[i].dir
      [] o.op = "list" -> item = b
      [] o.op = "write" -> /\ same({o.p}) /\ Cardinality(now[o.p]) = 1
                           /\ \A i \in now[o.p] : item[i].v = "new"
      [] o.op = "mkdir" -> /\ same({o.p}) /\ Cardinality(now[o.p]) = 1
                           /\ \A i \in now[o.p] : item[i].dir
      [] o.op = "delete" -> /\ now[o.p] = {} /\ \A p \in Routes : now[p] = was[p] \/ IsPrefix(o.p, p)
      [] o.op = "move" -> /\ now[o.p] = {} /\ now[o.q] = was[o.p]
                          /\ \A p \in Routes : now[p] = was[p] \/ IsPrefix(o.p, p) \/ IsPrefix(o.q, p)
      [] o.op = "copy" -> /\ same({o.q}) /\ Cardinality(now[o.q]) = 1
                          /\ \A i \in now[o.q], j \in was[o.p] : item[i].v = b[j].v

\* Nothing is made, moved or copied onto what is there: the operations above see to
\* that.  In Quark and PikPak what is moved or copied first has its old name there; a
\* copy within a directory that the service gives another name is never renamed.
Taken(o, b) ==
    \/ o.op = "mkdir" /\ At(b)[o.p] # {}
    \/ o.op = "write" /\ service = "quark" /\ At(b)[o.p] # {}
    \/ o.op \in {"move", "copy"} /\ At(b)[o.q] # {}
    \/ /\ service # "googledrive" /\ o.op \in {"move", "copy"}
       /\ \E i \in Present(b) \ (IF o.op = "move" THEN At(b)[o.p] ELSE {}) :
            b[i].name = Nam(o.p) /\ b[i].up \in (IF Len(o.q) = 1 THEN {Root} ELSE At(b)[Up(o.q)])

\* A call that ran alone, on caches that were right and names that were unique, and
\* succeeded has done exactly what it was asked to.
CleanIsExact == \A c \in Callers :
    call[c].at = "done" /\ Quiet /\ ~Taken(call[c].o, call[c].before) =>
        IdContract(call[c].o, call[c].before, call[c].got)
=================================================================================
