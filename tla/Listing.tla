-------------------------------- MODULE Listing --------------------------------
(***************************************************************************)
(* listing.py's list_virtual_dir and those who walk its pages: a browser,  *)
(* the S3 interface's _list_dir_all, WebDAV's PROPFIND with its one page,  *)
(* and process_file, which walks the adapter's own.  An entry is its rank  *)
(* in the order asked for; a directory may hold other adapters' mounts.    *)
(* The S3 interface's own pages of keys are here too: for each of them it  *)
(* lists its directory anew, page by page.                                 *)
(***************************************************************************)
EXTENDS TLC, Integers, Sequences, FiniteSets, FiniteSetsExt, Functions

CONSTANTS Ranks,         \* the entries a directory may hold
          MountRanks,    \* and the mounts, some of them in the place of an entry
          SelfRank, UpRank, \* the directory's own and its parent's names, as entries
          PageSizes, MaxChanges, MaxPages, Start,
          DirPages       \* the entries the S3 interface may ask for at a time

VARIABLES held,    \* the directory's entries
          mounts,  \* the mounts directly in it
          depth,   \* names between the adapter's root and it
          allowed, \* what the user may read
          walk,
          changes

lsvars == <<held, mounts, depth, allowed, walk, changes>>

\* Each entry at its place: there are i of S up to the i-th.
Sorted(S) == [i \in 1 .. Cardinality(S) |-> CHOOSE e \in S : Cardinality({f \in S : f <= e}) = i]
Window(s, n, size) == SubSeq(s, (n - 1) * size + 1, IF n * size < Len(s) THEN n * size ELSE Len(s))

\* list_dir of an adapter whose pages are slices: the page, and the total.
AdapterPage(n, size) == [items |-> Window(Sorted(held), n, size), total |-> Cardinality(held)]

\* Where a mount is not among the page's entries the page, with the directory and its
\* parent as entries of it, is merged with the mounts, sorted, and cut once more.
Merged(p) == Range(p.items) \cup (IF depth > 0 THEN {SelfRank} ELSE {}) \cup (IF depth > 1 THEN {UpRank} ELSE {})
ListVirtual(n, size) ==
    LET p == AdapterPage(n, size)
        all == Merged(p) \cup mounts
    IN IF mounts \subseteq Merged(p) THEN p
       ELSE [items |-> Window(Sorted(all), n, size), total |-> Cardinality(all)]

\* list_virtual_dir_with_permission: what the user may not read is left out afterwards.
ListPermitted(n, size) ==
    LET p == ListVirtual(n, size) IN [p EXCEPT !.items = SelectSeq(@, LAMBDA e : e \in allowed)]

-----------------------------------------------------------------------------
w == walk
Walking == w.at = "walk"
Got(p) == [w EXCEPT !.got = @ \o p.items, !.page = @ + 1]
Keeps == UNCHANGED <<held, mounts, depth, allowed, changes>>

ListSetup(h, m, d, a) ==
    /\ w.at = "setup"
    /\ held' = h /\ mounts' = m /\ depth' = d /\ allowed' = a
    /\ walk' = [at |-> "rest"]
    /\ UNCHANGED changes

WalkBegin(do, size) ==
    /\ w.at = "rest"
    /\ walk' = [at |-> "walk", do |-> do, size |-> size, page |-> 1, got |-> <<>>, changed |-> FALSE]
    /\ Keeps

\* A browser asks for the pages the total says there are.
Browse ==
    /\ Walking /\ w.do = "browse"
    /\ LET p == ListPermitted(w.page, w.size) IN
       walk' = [Got(p) EXCEPT !.at = IF w.page * w.size >= p.total THEN "done" ELSE "walk"]
    /\ Keeps

\* Mutant: a full page is taken for the last.
ListAllStops ==
    /\ Walking /\ w.do = "all"
    /\ walk' = [Got(ListVirtual(w.page, w.size)) EXCEPT !.at = "done"]
    /\ Keeps

\* _list_dir_all: until there are as many as the total says, or a page is short.
LastOf(p, seen, size) == seen + Len(p.items) >= p.total \/ Len(p.items) < size
ListAll ==
    /\ Walking /\ w.do = "all"
    /\ LET p == ListVirtual(w.page, w.size) IN
       walk' = [Got(p) EXCEPT !.at = IF LastOf(p, Len(w.got), w.size) THEN "done" ELSE "walk"]
    /\ Keeps

\* PROPFIND: one page.
Propfind ==
    /\ Walking /\ w.do = "dav"
    /\ walk' = [Got(ListPermitted(1, w.size)) EXCEPT !.at = "done"]
    /\ Keeps

\* process_file: the adapter's pages, each entry processed as it comes.
ProcessDir ==
    /\ Walking /\ w.do = "process"
    /\ LET p == AdapterPage(w.page, w.size) IN
       walk' = [Got(p) EXCEPT !.at = IF w.page * w.size >= p.total THEN "done" ELSE "walk"]
    /\ Keeps

\* Somebody makes or deletes an entry between two pages.  History: between two that are
\* read for the same keys.
Change(e) ==
    /\ Walking /\ changes < MaxChanges
    /\ w.page > 1 \/ (w.do = "keys" /\ w.n # 1)
    /\ changes' = changes + 1
    /\ held' = IF e \in held THEN held \ {e} ELSE held \cup {e}
    /\ walk' = IF w.do = "keys" THEN [w EXCEPT !.changed = TRUE, !.mixed = @ \/ w.n > 1]
               ELSE [w EXCEPT !.changed = TRUE]
    /\ UNCHANGED <<mounts, depth, allowed>>

-----------------------------------------------------------------------------
\* A client walks the keys of the S3 interface; it may send start-after again with every
\* token.
KeysBegin(after, again, max, dir) ==
    /\ w.at = "rest"
    /\ walk' = [at |-> "walk", do |-> "keys", size |-> max, page |-> 1, got |-> <<>>, changed |-> FALSE,
                after |-> after, again |-> again, token |-> Start,
                dir |-> dir, n |-> 1, seen |-> 0, found |-> <<>>, mixed |-> FALSE]
    /\ Keeps

\* For each of its requests _list_dir_all reads the directory's pages.  Mounts are no keys,
\* nor are the directory and its parent.
CollectKeys ==
    /\ Walking /\ w.do = "keys" /\ w.n > 0 /\ w.page <= MaxPages
    /\ LET p == ListVirtual(w.n, w.dir) IN
       walk' = [w EXCEPT !.found = @ \o SelectSeq(p.items, LAMBDA e : e \in held),
                         !.seen = @ + Len(p.items),
                         !.n = IF LastOf(p, w.seen, w.dir) THEN 0 ELSE @ + 1]
    /\ Keeps

\* A page that fails ends the request; one that is said to be missing, and a bad request,
\* leave it without keys, those of the pages before included.
CollectFails ==
    /\ Walking /\ w.do = "keys" /\ w.n > 0 /\ changes < MaxChanges
    /\ changes' = changes + 1
    /\ \/ walk' = [w EXCEPT !.at = "failed"]
       \/ walk' = [w EXCEPT !.n = 0, !.found = <<>>, !.changed = TRUE]
    /\ UNCHANGED <<held, mounts, depth, allowed>>

\* list_objects: what comes after the key to start after, in order, no more than max-keys,
\* and a token if there is more.  Of the two keys a request may bring, start-after goes
\* before the token.
Objects(after, token, max) ==
    LET start == IF after # Start THEN after ELSE token
        rest == SortSeq(SelectSeq(w.found, LAMBDA k : start = Start \/ k > start), <)
        page == Window(rest, 1, max)
    IN [items |-> page, truncated |-> Len(rest) > max,
        token |-> IF Len(rest) > max THEN page[max] ELSE Start]

KeysPage ==
    /\ Walking /\ w.do = "keys" /\ w.n = 0
    /\ LET after == IF w.page = 1 \/ w.again THEN w.after ELSE Start
           p == Objects(after, w.token, w.size)
       IN walk' = [Got(p) EXCEPT !.token = p.token, !.at = IF p.truncated THEN "walk" ELSE "done",
                                 !.n = 1, !.seen = 0, !.found = <<>>]
    /\ Keeps

Init ==
    /\ held = {} /\ mounts = {} /\ depth = 0 /\ allowed = {}
    /\ walk = [at |-> "setup"] /\ changes = 0

Next ==
    \/ w.at = "setup" /\ \E h \in SUBSET Ranks, m \in SUBSET MountRanks, d \in 0 .. 2 :
        \E a \in {Ranks \cup MountRanks \cup {SelfRank, UpRank}, {Min(Ranks), Max(MountRanks)}} : ListSetup(h, m, d, a)
    \/ \E do \in {"browse", "all", "dav", "process"}, size \in PageSizes : WalkBegin(do, size)
    \/ \E after \in Ranks \cup {Start}, again \in BOOLEAN, max \in PageSizes, dir \in DirPages :
          KeysBegin(after, again, max, dir)
    \/ Browse \/ ListAll \/ Propfind \/ ProcessDir
    \/ CollectKeys \/ CollectFails \/ KeysPage
    \/ \E e \in Ranks : Change(e)

LsSpec == Init /\ [][Next]_lsvars

-----------------------------------------------------------------------------
TypeOK ==
    /\ held \subseteq Ranks /\ mounts \subseteq MountRanks /\ depth \in 0 .. 2
    /\ w.at \in {"setup", "rest", "walk", "done", "failed"}

\* Nothing to merge on any page; and everything on one.
Unmerged == mounts = {}
OnePage(size) == Cardinality(held \cup mounts) + depth <= size
Permitted(S) == IF w.do \in {"browse", "dav"} THEN S \cap allowed ELSE S
Phantoms == Merged([items |-> <<>>]) \ held

\* A walk of a directory nobody changes meanwhile meets each entry once, in order, and
\* every mount: but where mounts are to be merged in and there is more than a page, and
\* what PROPFIND has no room for.  With a mount to merge in, the directory itself and its
\* parent show up as entries.
WalkIsExact ==
    w.at = "done" /\ w.do # "keys" /\ ~w.changed =>
        CASE w.do = "process" -> w.got = Sorted(held)
          [] w.do # "process" /\ Unmerged /\ (w.do # "dav" \/ Cardinality(held) <= w.size) ->
                w.got = Sorted(Permitted(held))
          [] w.do # "process" /\ ~Unmerged /\ OnePage(w.size) ->
                /\ \A i, j \in DOMAIN w.got : i < j => w.got[i] < w.got[j]
                /\ Range(w.got) \ Phantoms = Permitted(held \cup mounts) \ Phantoms
          [] OTHER -> TRUE

\* The pages of keys go on from a key and not from a number: they come in order and end,
\* whatever is made and deleted meanwhile, and none comes twice but where the directory
\* changed while its pages were read for the same keys.  Of a directory nobody changed and
\* whose pages all answer they bring each key once, but where mounts are to be merged in
\* and there is more than a page.  Unless start-after is sent again, which goes before the
\* token: then they never end.
KeysWalkIsExact ==
    w.at \in {"walk", "done"} /\ w.do = "keys" /\ ~(w.again /\ w.after # Start) =>
        /\ \A i, j \in DOMAIN w.got : i < j => w.got[i] < w.got[j] \/ (w.mixed /\ w.got[i] = w.got[j])
        /\ w.page <= Cardinality(Ranks) + 2
        /\ w.at = "done" /\ ~w.changed /\ (Unmerged \/ OnePage(w.dir)) =>
              w.got = Sorted({k \in held : w.after = Start \/ k > w.after})
=================================================================================
