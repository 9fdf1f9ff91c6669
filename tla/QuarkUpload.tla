------------------------------- MODULE QuarkUpload -------------------------------
(***************************************************************************)
(* Uploads to Quark (write_upload_file and write_file_stream of            *)
(* adapters/providers/quark.py): announce, offer the hashes, put the parts *)
(* one by one, commit them, finish; and the cache of a directory's         *)
(* children, that only the adapter's own changes invalidate.  Each upload  *)
(* makes a file of its own in one directory.                               *)
(***************************************************************************)
EXTENDS Naturals, Sequences

CONSTANTS MaxUploads, MaxSize,
          PartSize, \* bytes of a part, as the service says
          Unknown

VARIABLES up,      \* the upload that runs
          ups,     \* uploads begun
          held,    \* the service: the files, and what they hold
          tempfiles, \* the uploads whose temporary file is there
          kids,    \* _children_cache of the directory
          lister,  \* a listing of the directory
          broken,  \* history: the uploads that failed,
          misled   \* and whether the cache was filled or left wrong in a known way

quvars == <<up, ups, held, tempfiles, kids, lister, broken, misled>>

Bytes(n) == [i \in 1 .. n |-> i]
Goes(at) == up' = [up EXCEPT !.at = at]
Cloud == <<held, kids, lister>>

\* write_file_stream first writes a temporary file; write_upload_file is given one.
Begin(stream, size) ==
    /\ up.at = "rest" /\ ups < MaxUploads
    /\ ups' = ups + 1
    /\ up' = [at |-> IF stream THEN "spool" ELSE "pre", stream |-> stream, size |-> size,
              left |-> size, parts |-> <<>>]
    /\ tempfiles' = IF stream THEN tempfiles \cup {ups'} ELSE tempfiles
    /\ UNCHANGED <<held, kids, lister, broken, misled>>

Spool == up.at = "spool" /\ Goes("pre") /\ UNCHANGED <<ups, tempfiles, broken, misled, Cloud>>
Pre == up.at = "pre" /\ Goes("hash") /\ UNCHANGED <<ups, tempfiles, broken, misled, Cloud>>

\* /file/update/hash: the service may know the bytes, and has the file then.
Hash ==
    /\ up.at = "hash"
    /\ \/ Goes("parts") /\ UNCHANGED held
       \/ Goes("known") /\ held' = [held EXCEPT ![ups] = Bytes(up.size)]
    /\ UNCHANGED <<ups, tempfiles, kids, lister, broken, misled>>

\* The next part: what is next of the file, as many bytes as a part takes.
Piece == LET sz == IF up.left < PartSize THEN up.left ELSE PartSize
         IN [i \in 1 .. sz |-> up.size - up.left + i]

\* Mutant: the tag of a part that is not full is not kept.
PutFull ==
    /\ up.at = "parts" /\ up.left > 0
    /\ up' = [up EXCEPT !.left = @ - Len(Piece),
                        !.parts = IF Len(Piece) < PartSize THEN @ ELSE @ \o Piece]
    /\ UNCHANGED <<ups, tempfiles, broken, misled, Cloud>>

\* It is authorised and put, and its tag is kept: parts is what the tags stand for, in order.
PutPart ==
    /\ up.at = "parts" /\ up.left > 0
    /\ up' = [up EXCEPT !.left = @ - Len(Piece), !.parts = @ \o Piece]
    /\ UNCHANGED <<ups, tempfiles, broken, misled, Cloud>>

\* The commit names the parts by number and tag; the file is there.
Commit ==
    /\ up.at = "parts" /\ up.left = 0
    /\ Goes("finish")
    /\ held' = [held EXCEPT ![ups] = up.parts]
    /\ UNCHANGED <<ups, tempfiles, kids, lister, broken, misled>>

Finish == up.at = "finish" /\ Goes("known") /\ UNCHANGED <<ups, tempfiles, broken, misled, Cloud>>

\* The temporary file is removed and the directory's children are forgotten.  History: a
\* listing under way has read them already, and will put them back.
End ==
    /\ up.at = "known"
    /\ up' = [at |-> "rest"]
    /\ tempfiles' = tempfiles \ {ups}
    /\ kids' = Unknown
    /\ misled' = (lister # Unknown)
    /\ UNCHANGED <<ups, held, lister, broken>>

\* A request that fails, or data that end, leave everything as it is: the temporary file,
\* and once committed the children without the file.
Fails ==
    /\ up.at \in {"spool", "pre", "hash", "parts", "finish"}
    /\ up' = [at |-> "rest"]
    /\ broken' = broken \cup {ups}
    /\ misled' = (misled \/ up.at = "finish")
    /\ UNCHANGED <<ups, held, tempfiles, kids, lister>>

\* The service has the file, but its answer is lost.
FailsLate ==
    /\ up.at = "hash" \/ (up.at = "parts" /\ up.left = 0)
    /\ held' = [held EXCEPT ![ups] = Bytes(up.size)]
    /\ up' = [at |-> "rest"]
    /\ broken' = broken \cup {ups}
    /\ misled' = TRUE
    /\ UNCHANGED <<ups, tempfiles, kids, lister>>

-----------------------------------------------------------------------------
There == {f \in 1 .. MaxUploads : held[f] # Unknown}

\* _list_children asks the service if nothing is cached ...
List ==
    /\ lister = Unknown /\ kids = Unknown
    /\ lister' = There
    /\ UNCHANGED <<up, ups, held, tempfiles, kids, broken, misled>>

\* ... and caches what it answered, for good.
Keep ==
    /\ lister # Unknown
    /\ kids' = lister /\ lister' = Unknown
    /\ misled' = (misled /\ kids' # There)
    /\ UNCHANGED <<up, ups, held, tempfiles, broken>>

Init ==
    /\ up = [at |-> "rest"] /\ ups = 0 /\ held = [f \in 1 .. MaxUploads |-> Unknown]
    /\ tempfiles = {} /\ kids = Unknown /\ lister = Unknown /\ broken = {} /\ misled = FALSE

Next ==
    \/ \E stream \in BOOLEAN, size \in 0 .. MaxSize : Begin(stream, size)
    \/ Spool \/ Pre \/ Hash \/ PutPart \/ Commit \/ Finish \/ End \/ Fails \/ FailsLate
    \/ List \/ Keep

QuSpec == Init /\ [][Next]_quvars

-----------------------------------------------------------------------------
TypeOK ==
    /\ up.at \in {"rest", "spool", "pre", "hash", "parts", "known", "finish"}
    /\ up.at # "rest" => up.size \in 0 .. MaxSize /\ up.left \in 0 .. up.size
    /\ ups \in 0 .. MaxUploads /\ tempfiles \cup broken \subseteq 1 .. MaxUploads
    /\ kids \in {Unknown} \cup SUBSET (1 .. MaxUploads) /\ misled \in BOOLEAN

\* A file that the service has holds the bytes that were given, in their order, and an
\* upload that said so has made one.
WholeInOrder ==
    \A f \in 1 .. ups :
        /\ held[f] # Unknown => \E n \in 0 .. MaxSize : held[f] = Bytes(n)
        /\ f \in broken \/ held[f] # Unknown \/ (f = ups /\ up.at # "rest")
        /\ f = ups /\ up.at \in {"known", "finish"} => held[f] = Bytes(up.size)

\* The temporary files left are those of the upload that runs and of those that failed.
TempsAccounted == tempfiles \subseteq broken \cup (IF up.at = "rest" THEN {} ELSE {ups})

\* The cached children are those the service has, but during an upload, and where the code
\* leaves them wrong until the next change: an upload failed after its commit, or a listing
\* that read them before put them back after the upload's end.
KidsCached == kids # Unknown /\ up.at = "rest" /\ ~misled => kids = There
=================================================================================
