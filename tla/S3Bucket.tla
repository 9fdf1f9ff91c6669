-------------------------------- MODULE S3Bucket --------------------------------
(***************************************************************************)
(* The provider for S3 (domain/adapters/providers/s3.py).  A bucket holds  *)
(* objects by key and knows no directories: one is there while some key    *)
(* begins with its path and a slash, be it only the empty object mkdir     *)
(* puts under that very key, its mark.  Every request is a step; between   *)
(* two of them someone else may put or delete an object.  A stream is      *)
(* uploaded in parts that become an object when the upload is completed.   *)
(* A request may fail, without an effect or after it: its answer is lost.  *)
(***************************************************************************)
EXTENDS Naturals, Sequences, SequencesExt, FiniteSets

CONSTANTS Keys,     \* the paths there may be, none of them empty
          MaxParts, \* bound on the parts of a stream
          New, Other, \* what an operation writes, and what others do
          Void      \* no object

VARIABLES object,  \* the bucket: what each key holds
          mark,    \* the paths whose directory mark is there
          uploads, \* multipart uploads begun and neither completed nor aborted: the key,
                   \* and whether the one who began it was told its id
          s3job

s3vars == <<object, mark, uploads, s3job>>

Contents == Keys \cup {New, Other, Void}
Beneath(p) == {q \in Keys : IsPrefix(p, q) /\ q # p}
Exists(p) == object[p] # Void
DirLike(p) == p \in mark \/ \E q \in Beneath(p) : Exists(q) \/ q \in mark

S3Operations ==
    {x \in [op : {"read", "stat", "list", "put", "stream", "mkdir", "delete"}, p : Keys, q : Keys, overwrite : {FALSE}] :
        x.q = x.p}
    \cup {x \in [op : {"copy"}, p : Keys, q : Keys, overwrite : BOOLEAN]
                \cup [op : {"move"}, p : Keys, q : Keys, overwrite : {TRUE}] : x.q # x.p}

S3Begin(x) ==
    /\ s3job.at = "ready"
    /\ s3job' = [at |-> CASE x.op = "copy" -> IF x.overwrite THEN "copy" ELSE "free"
                          [] x.op = "move" -> "copy"
                          [] x.op = "stream" -> "create"
                          [] x.op = "delete" -> "head"
                          [] OTHER -> x.op,
                 o |-> x, parts |-> 0, got |-> Void, before |-> object, marked |-> mark,
                 disturbed |-> FALSE, lost |-> FALSE, left |-> FALSE]
    /\ UNCHANGED <<object, mark, uploads>>

Goes(pc) == s3job' = [s3job EXCEPT !.at = pc]
Fetch(pc, v) == s3job' = [s3job EXCEPT !.at = pc, !.got = v]
Answered(pc, otherwise) == Goes(pc) \/ Goes(otherwise)  \* done, but its answer may be lost
o == s3job.o

-----------------------------------------------------------------------------
S3Read ==
    /\ s3job.at = "read"
    /\ IF Exists(o.p) THEN Fetch("done", object[o.p]) ELSE Goes("failed")
    /\ UNCHANGED <<object, mark, uploads>>

\* stat_file: an object before a directory.
Kind(p) == IF Exists(p) THEN "file" ELSE IF DirLike(p) THEN "dir" ELSE "none"
S3Stat ==
    /\ s3job.at = "stat"
    /\ IF Kind(o.p) = "none" THEN Goes("failed") ELSE Fetch("done", Kind(o.p))
    /\ UNCHANGED <<object, mark, uploads>>

\* Names one deep: objects, and common prefixes.
Listing(p) == {<<Last(q), "file">> : q \in {r \in Beneath(p) : Len(r) = Len(p) + 1 /\ Exists(r)}}
       \cup {<<Last(q), "dir">> : q \in {r \in Beneath(p) : Len(r) = Len(p) + 1 /\ DirLike(r)}}
S3List ==
    /\ s3job.at = "list"
    /\ Fetch("done", Listing(o.p))
    /\ UNCHANGED <<object, mark, uploads>>

S3Put ==
    /\ s3job.at = "put"
    /\ object' = [object EXCEPT ![o.p] = New]
    /\ Answered("done", "failed")
    /\ UNCHANGED <<mark, uploads>>

S3Mkdir ==
    /\ s3job.at = "mkdir"
    /\ mark' = mark \cup {o.p}
    /\ Answered("done", "failed")
    /\ UNCHANGED <<object, uploads>>

\* Mutant: an upload that failed is not aborted.
S3FailNot ==
    /\ s3job.at \notin {"setup", "ready", "done", "failed", "abort"}
    /\ Goes("failed")
    /\ UNCHANGED <<object, mark, uploads>>

\* Any request may fail; once the upload is made that leads to its abort.
S3Fail ==
    /\ s3job.at \notin {"setup", "ready", "done", "failed", "abort"}
    /\ Goes(IF s3job.at \in {"part", "complete"} THEN "abort" ELSE "failed")
    /\ UNCHANGED <<object, mark, uploads>>

\* An upload whose id never arrived stays; the client may ask for another by itself.
S3Create ==
    /\ s3job.at = "create"
    /\ \/ uploads' = uploads \cup {<<o.p, TRUE>>} /\ Goes("part")
       \/ /\ uploads' = uploads \cup {<<o.p, FALSE>>}
          /\ \E pc \in {"create", "failed"} : s3job' = [s3job EXCEPT !.at = pc, !.left = TRUE]
    /\ UNCHANGED <<object, mark>>

\* Parts go up as the stream fills them; at its end the upload is completed.
S3Part ==
    /\ s3job.at = "part"
    /\ \/ s3job.parts < MaxParts /\ s3job' = [s3job EXCEPT !.parts = @ + 1]
       \/ Goes("complete")
    /\ UNCHANGED <<object, mark, uploads>>

\* Without a part, the stream was empty, the service refuses.
S3Complete ==
    /\ s3job.at = "complete"
    /\ IF s3job.parts = 0 THEN Goes("abort") /\ UNCHANGED <<object, uploads>>
       ELSE /\ object' = [object EXCEPT ![o.p] = New]
            /\ uploads' = uploads \ {<<o.p, TRUE>>}
            /\ Answered("done", "abort")
    /\ UNCHANGED mark

S3Abort ==
    /\ s3job.at = "abort"
    /\ \/ uploads' = uploads \ {<<o.p, TRUE>>} /\ Goes("failed")
       \/ UNCHANGED uploads /\ s3job' = [s3job EXCEPT !.at = "failed", !.left = TRUE]
    /\ UNCHANGED <<object, mark>>

\* What cancels the task is no Exception: nothing is aborted.
S3Cancel ==
    /\ s3job.at \in {"part", "complete"}
    /\ s3job' = [s3job EXCEPT !.at = "failed", !.left = TRUE]
    /\ UNCHANGED <<object, mark, uploads>>

-----------------------------------------------------------------------------
\* delete, or the end of a move: the key, without a slash, is never a directory's, and
\* stat_file's answer is never false, so the objects of a directory are never listed.
S3Head ==
    /\ s3job.at = "head"
    /\ Goes("look")
    /\ UNCHANGED <<object, mark, uploads>>
S3Look ==
    /\ s3job.at = "look"
    /\ Goes(IF Kind(o.p) = "none" THEN "failed" ELSE "delete")
    /\ UNCHANGED <<object, mark, uploads>>
S3Delete ==
    /\ s3job.at = "delete"
    /\ object' = [object EXCEPT ![o.p] = Void]
    /\ Goes("done") \/ s3job' = [s3job EXCEPT !.at = "failed", !.lost = TRUE]
    /\ UNCHANGED <<mark, uploads>>

S3Free ==
    /\ s3job.at = "free"
    /\ Goes(IF Exists(o.q) THEN "failed" ELSE "copy")
    /\ UNCHANGED <<object, mark, uploads>>

\* copy_object; a move goes on to delete the source.
S3Copy ==
    /\ s3job.at = "copy"
    /\ IF Exists(o.p)
       THEN /\ object' = [object EXCEPT ![o.q] = object[o.p]]
            /\ Answered(IF o.op = "move" THEN "head" ELSE "done", "failed")
       ELSE Goes("failed") /\ UNCHANGED object
    /\ UNCHANGED <<mark, uploads>>

Init ==
    /\ object = [p \in Keys |-> Void] /\ mark = {} /\ uploads = {}
    /\ s3job = [at |-> "setup"]

\* Some bucket to begin with.
S3Setup ==
    /\ s3job.at = "setup"
    /\ object' \in {b \in [Keys -> Keys \cup {Void}] : \A p \in Keys : b[p] \in {p, Void}}
    /\ mark' \in SUBSET Keys
    /\ Goes("ready")
    /\ UNCHANGED uploads

S3Interfere(p) ==
    /\ s3job.at \notin {"setup", "ready", "done", "failed"} /\ ~s3job.disturbed /\ p \in {o.p, o.q}
    /\ object' \in {[object EXCEPT ![p] = Other], [object EXCEPT ![p] = Void]}
    /\ s3job' = [s3job EXCEPT !.disturbed = TRUE]
    /\ UNCHANGED <<mark, uploads>>

Next ==
    \/ S3Setup \/ (\E x \in S3Operations : S3Begin(x))
    \/ S3Read \/ S3Stat \/ S3List \/ S3Put \/ S3Mkdir
    \/ S3Create \/ S3Part \/ S3Complete \/ S3Fail \/ S3Abort \/ S3Cancel
    \/ S3Head \/ S3Look \/ S3Delete \/ S3Free \/ S3Copy
    \/ \E p \in Keys : S3Interfere(p)

S3Spec == Init /\ [][Next]_s3vars

-----------------------------------------------------------------------------
TypeOK ==
    /\ object \in [Keys -> Contents] /\ mark \subseteq Keys /\ uploads \subseteq Keys \X BOOLEAN
    /\ s3job.at \in {"setup", "ready", "read", "stat", "list", "put", "mkdir", "create", "part", "complete",
                     "abort", "head", "look", "delete", "free", "copy", "done", "failed"}

Ended == s3job.at \in {"done", "failed"}
WasFile == s3job.before[o.p] # Void

\* However a stream ends, no upload is left behind for the bucket's owner to pay for:
\* but where its abort fails too, the request is cancelled, or nobody was told its id.
NoUploadLeft == Ended /\ ~s3job.left => uploads = {}

\* However a move or a copy ends, the content of the source is still in the bucket, and a
\* move that failed has it at the source, unless only the answer to its delete was lost;
\* unless somebody interfered.
S3SourceKept ==
    Ended /\ o.op \in {"move", "copy"} /\ WasFile /\ ~s3job.disturbed =>
        /\ s3job.before[o.p] \in {object[o.p], object[o.q]}
        /\ s3job.at = "failed" /\ ~s3job.lost => object[o.p] = s3job.before[o.p]

\* A copy without overwrite replaces no object, unless it came after the check.
S3CopyStep ==
    s3job.at = "copy" /\ o.op = "copy" /\ ~o.overwrite /\ ~s3job.disturbed /\ s3job'.at # "copy" =>
        object[o.q] = Void
S3Unasked == [][S3CopyStep]_s3vars

\* A delete of a directory that reports success, undisturbed, has removed all that is in
\* it: s3.py's comment says of the branch for directories that it deletes all objects
\* below.
DeleteRemoves ==
    s3job.at = "done" /\ o.op = "delete" /\ ~WasFile /\ ~s3job.disturbed => ~DirLike(o.p)
=================================================================================
