------------------------------- MODULE MovePath -------------------------------
(***************************************************************************)
(* move_path, rename_path and copy_path of domain/virtual_fs/transfer.py   *)
(* for two paths of one mount, over the local adapter                      *)
(* (domain/adapters/providers/local.py).  A request looks at its           *)
(* destination, deletes it if it may be overwritten, and then calls the    *)
(* adapter: three awaits, between which other requests run.  One call of   *)
(* the adapter is one step.                                                *)
(***************************************************************************)
EXTENDS Integers, FiniteSets, Sequences, SequencesExt

CONSTANTS Requests,
          Paths,     \* sequences of names, closed under prefixes, without the root
          Trees,     \* the trees to begin with
          Ask,       \* the requests made: [op, src, dst, overwrite]
          Dir, None  \* what a path can be, other than a file with some content

VARIABLES tree,      \* what each path is
          request,   \* what each request asked, where it stands, what it answered
          saw,       \* history: the tree a request first looked at
          solo       \* history: no other request changed the tree since

vars == <<tree, request, saw, solo>>

Parents(p) == Prefixes(p) \ {<<>>, p}
Below(p) == {q \in Paths : IsPrefix(p, q)}
Inside(p, q) == p # q /\ IsPrefix(p, q)
IsFile(T, p) == T[p] \notin {Dir, None}
Contents(T) == {T[p] : p \in {q \in Paths : IsFile(T, q)}}
WellFormed(T) == \A p \in Paths : T[p] # None => \A q \in Parents(p) : T[q] = Dir

ASSUME PathsAssumption ==
    \A p \in Paths : p \in Seq({p[k] : k \in DOMAIN p}) /\ p # <<>> /\ Prefixes(p) \ {<<>>} \subseteq Paths
ASSUME DirAssumption == Dir # None
ASSUME TreesAssumption == \A T \in Trees : T = [p \in Paths |-> T[p]] /\ WellFormed(T)

\* Copying a directory into itself is left out.
ASSUME AskAssumption ==
    /\ Ask \subseteq [op : {"move", "rename", "copy"}, src : Paths, dst : Paths, overwrite : BOOLEAN]
    /\ \A a \in Ask : a.op = "copy" => ~Inside(a.src, a.dst)

-----------------------------------------------------------------------------
(* The local adapter. *)

\* delete: a directory goes with all below it; a missing path is no error.
Deleted(T, p) == [q \in Paths |-> IF q \in Below(p) THEN None ELSE T[q]]

\* The parents of the destination are made.
Made(T, p) == [q \in Paths |-> IF q \in Parents(p) /\ T[q] = None THEN Dir ELSE T[q]]

\* U with what T has at s put at d.
Suffix(q, d) == SubSeq(q, Len(d) + 1, Len(q))
Grafted(U, T, s, d) ==
    [q \in Paths |-> IF q \in Below(d)
                     THEN IF s \o Suffix(q, d) \in Paths THEN T[s \o Suffix(q, d)] ELSE None
                     ELSE U[q]]

\* Every path has room for the result (the file system bounds a path's length).
Room(T, s, d) == \A q \in Below(s) : T[q] # None => d \o Suffix(q, s) \in Paths

Result(T, answer) == [tree |-> T, answer |-> answer]
Renamed(T, s, d) == Result(Grafted(Deleted(T, s), T, s, d), "done")

\* What os.replace and os.rename do alike; a directory replaces an empty one.
Replaceable(T, s, d) ==
    \/ T[d] = None
    \/ IsFile(T, s) /\ IsFile(T, d)
    \/ T[s] = Dir /\ T[d] = Dir /\ \A q \in Below(d) \ {d} : T[q] = None

\* move: os.replace, and where that fails shutil.move, which moves a path into
\* a directory it is given, if the name is free there.
AdapterMove(T, s, d) ==
    LET U == Made(T, d)
        into == Append(d, Last(s))
    IN  IF s = d THEN Result(T, "done")
        ELSE IF T[s] = None THEN Result(T, "404")
        ELSE IF \E q \in Parents(d) : IsFile(T, q) THEN Result(T, "409")
        ELSE IF Inside(s, d) \/ ~Room(T, s, d) THEN Result(U, "500")
        ELSE IF Replaceable(U, s, d) THEN Renamed(U, s, d)
        ELSE IF IsFile(U, d) THEN Result(U, "409")
        ELSE IF into \notin Paths \/ ~Room(T, s, into) THEN Result(U, "500")
        ELSE IF U[into] # None THEN Result(U, "500")
        ELSE Renamed(U, s, into)

\* rename: os.rename, and where that fails os.replace.
AdapterRename(T, s, d) ==
    LET U == Made(T, d)
    IN  IF s = d THEN Result(T, "done")
        ELSE IF T[s] = None THEN Result(T, "404")
        ELSE IF \E q \in Parents(d) : IsFile(T, q) THEN Result(T, "409")
        ELSE IF Inside(s, d) \/ ~Room(T, s, d) THEN Result(U, "500")
        ELSE IF Replaceable(U, s, d) THEN Renamed(U, s, d)
        ELSE Result(U, IF IsFile(U, s) THEN "400" ELSE "500")

\* copy looks at the destination again in the same call.
AdapterCopy(T, s, d, overwrite) ==
    LET U == Made(T, d)
        V == Deleted(U, d)
    IN  IF T[s] = None THEN Result(T, "404")
        ELSE IF s = d THEN Result(T, "done")
        ELSE IF \E q \in Parents(d) : IsFile(T, q) THEN Result(T, "409")
        ELSE IF U[d] # None /\ ~overwrite THEN Result(U, "409")
        ELSE IF V[s] = None THEN Result(V, "404")
        ELSE IF ~Room(V, s, d) THEN Result(V, "500")
        ELSE Result(Grafted(V, V, s, d), "done")

-----------------------------------------------------------------------------
(* The requests. *)

Acted(i) == solo' = [j \in Requests |-> solo[j] /\ (j = i \/ tree' = tree)]

Answer(i, answer) == request' = [request EXCEPT ![i].pc = "answered", ![i].answer = answer]

\* Mutant: the destination is not looked at.
LookAway(i) ==
    /\ request[i].pc = "idle"
    /\ \E a \in Ask : request' = [request EXCEPT ![i] =
            [ask |-> a, answer |-> "",
             pc |-> IF tree[a.dst] # None /\ a.overwrite THEN "delete" ELSE "act"]]
    /\ saw' = [saw EXCEPT ![i] = tree]
    /\ solo' = [solo EXCEPT ![i] = TRUE]
    /\ UNCHANGED tree

\* The destination must not exist unless it may be overwritten.
Look(i) ==
    /\ request[i].pc = "idle"
    /\ \E a \in Ask : request' = [request EXCEPT ![i] =
            IF tree[a.dst] # None /\ ~a.overwrite
            THEN [ask |-> a, pc |-> "answered", answer |-> "409"]
            ELSE [ask |-> a, pc |-> IF tree[a.dst] # None THEN "delete" ELSE "act", answer |-> ""]]
    /\ saw' = [saw EXCEPT ![i] = tree]
    /\ solo' = [solo EXCEPT ![i] = TRUE]
    /\ UNCHANGED tree

\* Mutant: the source is deleted in the place of the destination.
PreDeleteSrc(i) ==
    /\ request[i].pc = "delete"
    /\ tree' = Deleted(tree, request[i].ask.src)
    /\ request' = [request EXCEPT ![i].pc = "act"]
    /\ Acted(i)
    /\ UNCHANGED saw

PreDelete(i) ==
    /\ request[i].pc = "delete"
    /\ tree' = Deleted(tree, request[i].ask.dst)
    /\ request' = [request EXCEPT ![i].pc = "act"]
    /\ Acted(i)
    /\ UNCHANGED saw

\* A source that is its own destination is left alone, here, after the delete.
Noop(i) ==
    /\ request[i].pc = "act"
    /\ request[i].ask.src = request[i].ask.dst
    /\ Answer(i, "noop")
    /\ UNCHANGED <<tree, saw, solo>>

\* The adapter is called for the operation asked for.
Act(i, op, r) ==
    /\ request[i].pc = "act" /\ request[i].ask.op = op
    /\ request[i].ask.src # request[i].ask.dst
    /\ tree' = r.tree
    /\ Answer(i, r.answer)
    /\ Acted(i)
    /\ UNCHANGED saw

\* rename_path and copy_path begin with the steps of move_path.
Move(i) == LET a == request[i].ask IN Act(i, "move", AdapterMove(tree, a.src, a.dst))
Rename(i) == LET a == request[i].ask IN Act(i, "rename", AdapterRename(tree, a.src, a.dst))
Copy(i) == LET a == request[i].ask IN Act(i, "copy", AdapterCopy(tree, a.src, a.dst, a.overwrite))

Init ==
    /\ tree \in Trees
    /\ request = [i \in Requests |-> [pc |-> "idle", answer |-> ""]]
    /\ saw = [i \in Requests |-> tree]
    /\ solo = [i \in Requests |-> FALSE]

Next == \E i \in Requests :
    Look(i) \/ PreDelete(i) \/ Noop(i) \/ Move(i) \/ Rename(i) \/ Copy(i)

Spec == Init /\ [][Next]_vars

-----------------------------------------------------------------------------
(* Properties. *)

TypeOK ==
    /\ DOMAIN tree = Paths /\ WellFormed(tree)
    /\ \A i \in Requests :
        /\ request[i].pc \in {"idle", "delete", "act", "answered"}
        /\ request[i].answer \in {"", "done", "noop", "400", "404", "409", "500"}
    /\ solo \in [Requests -> BOOLEAN]

Files(T) == [p \in Paths |-> IF IsFile(T, p) THEN T[p] ELSE None]
Answered(i) == request[i].pc = "answered"

\* What a request promises, told from the tree it found: the source, whatever it
\* is, is at the destination in the place of what was there; a move or a rename
\* takes it from where it was.
Promised(T, a) ==
    LET U == Deleted(Made(T, a.dst), a.dst)
    IN  Grafted(IF a.op = "copy" THEN U ELSE Deleted(U, a.src), T, a.src, a.dst)

\* A request that nobody interferes with and that answers success has done just
\* that, for files and for directories, with and without overwrite.
SoloExact ==
    \A i \in Requests : solo[i] /\ Answered(i) /\ request[i].answer = "done" =>
        tree = Promised(saw[i], request[i].ask)

\* A request without overwrite that nobody interferes with loses no content; if it
\* fails, whatever the reason, every file is where it was.
UnaskedLosesNothing ==
    \A i \in Requests : solo[i] /\ Answered(i) /\ ~request[i].ask.overwrite =>
        /\ Contents(saw[i]) \subseteq Contents(tree)
        /\ request[i].answer # "done" => Files(tree) = Files(saw[i])

\* A request alone on its files keeps the promise of its answer, and never loses what it
\* was not asked to replace.
AloneIsExact == TypeOK /\ SoloExact /\ UnaskedLosesNothing

\* Even among other requests, the only content a request's steps destroy is at its
\* destination or below it.
LossAtDestination ==
    [][\A i \in Requests : request'[i] # request[i] /\ request[i].pc # "idle" =>
        \A p \in Paths : IsFile(tree, p) /\ tree[p] \notin Contents(tree') =>
            IsPrefix(request[i].ask.dst, p)]_vars

\* What the answer to a race says (transfer.py:88): when the destination appears
\* after the check, the request is refused, so nothing is replaced.
RaceRefused ==
    [][\A i \in Requests : request'[i] # request[i] /\ request[i].pc = "act"
            /\ ~request[i].ask.overwrite =>
        Contents(tree) \subseteq Contents(tree')]_vars

\* What the answer "noop" says (transfer.py:79): nothing was done.
NoopIsNoop ==
    \A i \in Requests : solo[i] /\ request[i].answer = "noop" => tree = saw[i]
=============================================================================
