--------------------------------- MODULE Writers ---------------------------------
(***************************************************************************)
(* The front ends that look and then write: WebDAV's PUT and DELETE, the   *)
(* two uploads of virtual_fs/routes.py, the offline downloads, and         *)
(* write_file_stream of virtual_fs/file_ops.py under them.  One directory; *)
(* its names are "name", "name (1)", ...: 0, 1, ...                        *)
(***************************************************************************)
EXTENDS Naturals, FiniteSets

CONSTANTS Writers,
          MaxName, \* bound on the names
          Nothing

VARIABLES files,  \* the storage: who wrote the file of a name, and whether all of it is there
          store,  \* what the adapter can do
          jobs,   \* the request or task of each writer
          told,   \* the writers whose write or deletion triggered the automation tasks
          ruined  \* history: pairs <<c, d>>: d replaced or removed what c had written

wrvars == <<files, store, jobs, told, ruined>>

Files == 0 .. MaxName
Ops == {"dav", "raw", "upload", "offline", "delete"}
At(c, at) == jobs[c].at = at
Goes(c, at) == jobs' = [jobs EXCEPT ![c].at = at]
Ends(c, how) == jobs' = [jobs EXCEPT ![c].at = how]
Written == {c \in Writers : jobs[c].at \in {"event", "done", "deaf"}}
Present(n) == files[n] # Nothing

\* history: c has seen that nothing is there, and which writers had ended then
Saw(c, at) == jobs' = [jobs EXCEPT ![c].at = at, ![c].sure = TRUE, ![c].before = Written]

-----------------------------------------------------------------------------
(* What is asked.  Only the uploads ask not to overwrite. *)
Ask(c, op, keep, n) ==
    /\ At(c, "idle")
    /\ keep => op \in {"raw", "upload"}
    /\ op = "offline" => n = 0
    /\ jobs' = [jobs EXCEPT ![c] =
            [op |-> op, keep |-> keep, n |-> n, sure |-> FALSE, before |-> {},
             at |-> CASE op = "offline" -> "fetch"
                      [] op = "delete" -> "put"
                      [] op = "dav" \/ (keep /\ store.looks) -> "look"
                      [] OTHER -> "put"]]
    /\ UNCHANGED <<files, store, told, ruined>>

\* run_http_download fetches into a temporary file.
Fetch(c) ==
    /\ At(c, "fetch")
    /\ Goes(c, "allocate")
    /\ UNCHANGED <<files, store, told, ruined>>

\* _allocate_destination: the first name where stat_file finds nothing.
Allocate(c) ==
    /\ At(c, "allocate")
    /\ IF Present(jobs[c].n)
       THEN /\ jobs[c].n < MaxName
            /\ jobs' = [jobs EXCEPT ![c].n = @ + 1]
       ELSE Saw(c, "put")
    /\ UNCHANGED <<files, store, told, ruined>>

\* PUT looks only for its answer.
LookDav(c) ==
    /\ At(c, "look") /\ jobs[c].op = "dav"
    /\ Goes(c, "put")
    /\ UNCHANGED <<files, store, told, ruined>>

\* Mutant: a file that is there does not refuse the upload.
LookNot(c) ==
    /\ At(c, "look") /\ jobs[c].keep
    /\ Saw(c, "put")
    /\ UNCHANGED <<files, store, told, ruined>>

\* An upload that the adapter does not take in one call goes through write_file_stream,
\* which checks again.
Twice(c) == jobs[c].op = "upload" /\ ~store.uploads

\* The check of overwrite=False.
Look(c) ==
    /\ At(c, "look") /\ jobs[c].keep
    /\ IF Present(jobs[c].n) THEN Ends(c, "refused")
       ELSE IF Twice(c) THEN jobs' = [jobs EXCEPT ![c].op = "raw"] ELSE Saw(c, "put")
    /\ UNCHANGED <<files, store, told, ruined>>

\* An error of the check is no answer: the write goes on.
LookFails(c) ==
    /\ At(c, "look")
    /\ IF ~jobs[c].keep THEN Ends(c, "failed")
       ELSE IF Twice(c) THEN jobs' = [jobs EXCEPT ![c].op = "raw"] ELSE Goes(c, "put")
    /\ UNCHANGED <<files, store, told, ruined>>

\* stat_file fails, or the download does: its temporary file stays.
OfflineFails(c) ==
    /\ jobs[c].at \in {"fetch", "allocate"}
    /\ Ends(c, "failed")
    /\ UNCHANGED <<files, store, told, ruined>>

-----------------------------------------------------------------------------
(* The adapter writes in place, or puts the whole file there at the end. *)
Ruins(c, n) == ruined' = IF Present(n) /\ files[n].by # c THEN ruined \cup {<<files[n].by, c>>} ELSE ruined

PutBegins(c) ==
    /\ At(c, "put") /\ jobs[c].op # "delete"
    /\ Goes(c, "putting")
    /\ IF store.inplace
       THEN /\ files' = [files EXCEPT ![jobs[c].n] = [by |-> c, whole |-> FALSE]]
            /\ Ruins(c, jobs[c].n)
       ELSE UNCHANGED <<files, ruined>>
    /\ UNCHANGED <<store, told>>

\* Two that write in place at once leave neither's file, or whichever ended last.
PutEnds(c, whole) ==
    /\ At(c, "putting")
    /\ LET n == jobs[c].n
           mine == ~store.inplace \/ files[n] = [by |-> c, whole |-> FALSE]
       IN /\ mine => whole
          /\ Ruins(c, n)
          /\ files' = [files EXCEPT ![n] = [by |-> c, whole |-> whole]]
    /\ Goes(c, "event")
    /\ UNCHANGED <<store, told>>

\* A failure leaves what is there.
PutFails(c) ==
    /\ jobs[c].at \in {"put", "putting"}
    /\ Ends(c, "failed")
    /\ UNCHANGED <<files, store, told, ruined>>

Delete(c) ==
    /\ At(c, "put") /\ jobs[c].op = "delete"
    /\ files' = [files EXCEPT ![jobs[c].n] = Nothing]
    /\ Ruins(c, jobs[c].n)
    /\ Goes(c, "event")
    /\ UNCHANGED <<store, told>>

\* trigger_tasks, before the answer.  A download then removes its temporary file.
Trigger(c) ==
    /\ At(c, "event")
    /\ told' = told \cup {c}
    /\ Ends(c, "done")
    /\ UNCHANGED <<files, store, ruined>>

\* If it fails the caller is told that the write failed.
TriggerFails(c) ==
    /\ At(c, "event")
    /\ Ends(c, "deaf")
    /\ UNCHANGED <<files, store, told, ruined>>

Idle == [op |-> "dav", keep |-> FALSE, n |-> 0, sure |-> FALSE, before |-> {}, at |-> "idle"]

\* store.looks: the adapter has exists (FTP, S3, Google Drive, OneDrive and Telegram have
\* not); store.uploads: it has write_upload_file.
Init ==
    /\ files = [n \in Files |-> Nothing]
    /\ store \in [looks : BOOLEAN, uploads : BOOLEAN, inplace : BOOLEAN]
    /\ jobs = [c \in Writers |-> Idle]
    /\ told = {} /\ ruined = {}

Next == \E c \in Writers :
    \/ \E op \in Ops, keep \in BOOLEAN, n \in Files : Ask(c, op, keep, n)
    \/ Fetch(c) \/ Allocate(c) \/ LookDav(c) \/ Look(c) \/ LookFails(c) \/ OfflineFails(c)
    \/ PutBegins(c) \/ \E whole \in BOOLEAN : PutEnds(c, whole)
    \/ PutFails(c) \/ Delete(c) \/ Trigger(c) \/ TriggerFails(c)

WrSpec == Init /\ [][Next]_wrvars

-----------------------------------------------------------------------------
TypeOK ==
    /\ files \in [Files -> [by : Writers, whole : BOOLEAN] \cup {Nothing}]
    /\ store \in [looks : BOOLEAN, uploads : BOOLEAN, inplace : BOOLEAN]
    /\ \A c \in Writers :
        /\ jobs[c].op \in Ops /\ jobs[c].n \in Files /\ jobs[c].before \subseteq Writers
        /\ jobs[c].at \in {"idle", "fetch", "allocate", "look", "put", "putting", "event",
                           "done", "deaf", "refused", "failed"}
    /\ told \subseteq Writers /\ ruined \subseteq Writers \X Writers

Spares(d) == jobs[d].op = "offline" \/ jobs[d].keep
Blind(d) == jobs[d].op # "offline" /\ ~jobs[d].sure

\* A file whose write had ended is replaced or removed only by someone who asked for it, or
\* by one who asked not to but whose look came before the write ended or told it nothing.
KeptUnlessRaced ==
    \A c, d \in Writers : <<c, d>> \in ruined /\ Spares(d) => Blind(d) \/ c \notin jobs[d].before

\* Who is told that a write is done has had the automation tasks triggered, and finds its
\* whole file there, unless another has replaced or removed it or written it together.
DoneIsWhole ==
    \A c \in Writers : At(c, "done") =>
        /\ c \in told
        /\ jobs[c].op # "delete" =>
            \/ files[jobs[c].n] = [by |-> c, whole |-> TRUE]
            \/ \E d \in Writers \ {c} : <<c, d>> \in ruined
=================================================================================
