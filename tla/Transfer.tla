------------------------------- MODULE Transfer -------------------------------
(***************************************************************************)
(* Cross-mount moves and copies: _enqueue_cross_mount_transfer and         *)
(* run_cross_mount_transfer_task of domain/virtual_fs/transfer.py, as run  *)
(* by the workers of the task queue while other requests write and delete  *)
(* at both ends.                                                           *)
(*                                                                         *)
(* One source path and one destination path, on two mounts.  A path is a   *)
(* file (its content is at Root), a directory (its files are at Names,     *)
(* which are numbers so that a listing can sort them), or absent.  A       *)
(* content is the number of the write that made it, so no two are equal.   *)
(* Reading, writing or deleting one path of a mount is one step of the     *)
(* adapter (external); any of them may fail, and some failures look like   *)
(* an answer.                                                              *)
(***************************************************************************)
EXTENDS Integers, FiniteSets, Sequences

CONSTANTS Tasks,
          Names,       \* the names a directory's files may have
          PageSize,    \* page_size of the listing (200 in the code)
          MaxWrites,   \* bound on the writes and deletes of other requests
          MaxFaults,   \* bound on failing operations and on restarts
          None

Root == 0
Entries == Names \cup {Root}

ASSUME NamesAssumption == Names \subseteq Nat \ {0} /\ IsFiniteSet(Names)
ASSUME BoundsAssumption ==
    PageSize \in Nat \ {0} /\ MaxWrites \in Nat /\ MaxFaults \in Nat /\ None \notin Nat

VARIABLES
    mount,     \* [src, dst]: the directory bit and the files of the two paths
    task,      \* each task: what was asked, where its run stands, its jobs
    temp,      \* the files under CROSS_TRANSFER_TEMP_ROOT / task.id
    writes,    \* contents made so far, for fresh contents and MaxWrites
    faults,    \* failures and restarts so far, for MaxFaults
    arrived,   \* history: the contents some task wrote at the destination
    note       \* history of each run: the source it found, what disturbed it, whether its
               \* listing may be short of a file, and a file at the destination unseen

vars == <<mount, task, temp, writes, faults, arrived, note>>

Empty == [e \in Entries |-> None]
Absent == [dir |-> FALSE, file |-> Empty]
Contents == 1 .. 2 * Cardinality(Names) + 2 + MaxWrites

PathExists(m) == m.dir \/ m.file[Root] # None

\* Writing below a path makes its directory; writing the path itself does not.
Put(m, e, c) == [dir |-> m.dir \/ e # Root, file |-> [m.file EXCEPT ![e] = c]]

\* A file and a directory cannot have the same path.
Fits(m, e) == IF e = Root THEN ~m.dir ELSE m.file[Root] = None

Present(m) == {n \in Names : m.file[n] # None}
Sorted(m) == CHOOSE s \in [1 .. Cardinality(Present(m)) -> Present(m)] :
                 \A i, j \in DOMAIN s : i < j => s[i] < s[j]

Ended == {"refused", "done", "failed", "lost"}
Active(t) == task[t].pc \notin Ended \cup {"new", "queued"}

\* History: the runs of the tasks in T are disturbed.
Disturb(T) == [t \in Tasks |-> IF t \in T THEN [note[t] EXCEPT !.quiet = FALSE] ELSE note[t]]

Becomes(t, r) == task' = [task EXCEPT ![t] = r]
Go(t, pc) == Becomes(t, [task[t] EXCEPT !.pc = pc])

\* What is left of a task whose run is over.
Over(r, pc) == [r EXCEPT !.pc = pc, !.page = 1, !.k = 1, !.jobs = <<>>]

\* An exception ends the run: the finally block removes the temporary files.
Fail(t) ==
    /\ Becomes(t, Over(task[t], "failed"))
    /\ temp' = [temp EXCEPT ![t] = Empty]

-----------------------------------------------------------------------------
(* The request. *)

\* _enqueue_cross_mount_transfer: refused at once if the destination exists.
Enqueue(t, op, overwrite) ==
    /\ task[t].pc = "new"
    /\ Becomes(t, [task[t] EXCEPT !.op = op, !.overwrite = overwrite,
            !.pc = IF PathExists(mount.dst) /\ ~overwrite THEN "refused" ELSE "queued"])
    /\ UNCHANGED <<mount, temp, writes, faults, arrived, note>>

-----------------------------------------------------------------------------
(* The run. *)

\* The destination is looked at again when a worker starts the task.
Begin(t) ==
    /\ task[t].pc = "queued"
    /\ Go(t, IF ~PathExists(mount.dst) THEN "stat"
             ELSE IF task[t].overwrite THEN "clear" ELSE "failed")
    /\ note' = [note EXCEPT ![t].quiet = TRUE]
    /\ UNCHANGED <<mount, temp, writes, faults, arrived>>

\* With overwrite, what is at the destination is deleted before anything else.
ClearDst(t) ==
    /\ task[t].pc = "clear"
    /\ mount' = [mount EXCEPT !.dst = Absent]
    /\ Go(t, "stat")
    /\ note' = Disturb(Tasks \ {t})
    /\ UNCHANGED <<temp, writes, faults, arrived>>

\* stat_file(src): a missing source fails the run; a file is the only job.
StatSrc(t) ==
    /\ task[t].pc = "stat"
    /\ IF ~PathExists(mount.src) THEN Fail(t)
       ELSE /\ Becomes(t, [task[t] EXCEPT
                    !.pc = IF mount.src.dir THEN "list" ELSE "download",
                    !.page = 1, !.k = 1,
                    !.jobs = IF mount.src.dir THEN <<>> ELSE <<Root>>])
            /\ UNCHANGED temp
    /\ note' = [note EXCEPT ![t].found = mount.src]
    /\ UNCHANGED <<mount, writes, faults, arrived>>

PageOf(s, page) == SubSeq(s, (page - 1) * PageSize + 1,
                          IF page * PageSize < Len(s) THEN page * PageSize ELSE Len(s))

\* Mutant: the listing ends one page early.
ListPageShort(t) ==
    /\ task[t].pc = "list"
    /\ LET s == Sorted(mount.src) IN
       Becomes(t, [task[t] EXCEPT
                    !.jobs = @ \o PageOf(s, task[t].page),
                    !.page = @ + 1,
                    !.pc = IF (task[t].page + 1) * PageSize >= Len(s) THEN "download" ELSE @])
    /\ UNCHANGED <<mount, temp, writes, faults, arrived, note>>

\* Mutant: the same page is asked for again and again.
ListPageStuck(t) ==
    /\ task[t].pc = "list"
    /\ LET s == Sorted(mount.src) IN
       Becomes(t, [task[t] EXCEPT
                    !.jobs = PageOf(s, 1),
                    !.pc = IF task[t].page * PageSize >= Len(s) THEN "download" ELSE @])
    /\ UNCHANGED <<mount, temp, writes, faults, arrived, note>>

\* One page of the source directory, sorted by name; each page is a listing of
\* the directory as it then is.  A directory that is gone lists as empty; a file
\* in its place is an error.
ListPage(t) ==
    /\ task[t].pc = "list"
    /\ IF mount.src.file[Root] # None THEN Fail(t)
       ELSE LET s == Sorted(mount.src) IN
            /\ Becomes(t, [task[t] EXCEPT
                    !.jobs = @ \o PageOf(s, task[t].page),
                    !.page = @ + 1,
                    !.pc = IF task[t].page * PageSize >= Len(s) THEN "download" ELSE @])
            /\ UNCHANGED temp
    /\ UNCHANGED <<mount, writes, faults, arrived, note>>

Job(t) == task[t].jobs[task[t].k]
JobsLeft(t) == task[t].k <= Len(task[t].jobs)

\* Every job is read to a temporary file before anything is written.
Download(t) ==
    /\ task[t].pc = "download" /\ JobsLeft(t)
    /\ IF mount.src.file[Job(t)] = None THEN Fail(t)
       ELSE /\ temp' = [temp EXCEPT ![t][Job(t)] = mount.src.file[Job(t)]]
            /\ Becomes(t, [task[t] EXCEPT !.k = @ + 1])
    /\ UNCHANGED <<mount, writes, faults, arrived, note>>

\* Then the directories are made; a directory that is there already is no error.
MakeDirs(t) ==
    /\ task[t].pc = "download" /\ ~JobsLeft(t)
    /\ mount' = IF note[t].found.dir /\ mount.dst.file[Root] = None
                THEN [mount EXCEPT !.dst.dir = TRUE] ELSE mount
    /\ Becomes(t, [task[t] EXCEPT !.pc = "upload", !.k = 1])
    /\ note' = Disturb(Tasks \ {t})
    /\ UNCHANGED <<temp, writes, faults, arrived>>

\* Mutant: write_file_stream does not look before it writes.
UploadBlind(t) ==
    /\ task[t].pc = "upload" /\ JobsLeft(t)
    /\ Go(t, "write")
    /\ note' = [note EXCEPT ![t].unseen = FALSE]
    /\ UNCHANGED <<mount, temp, writes, faults, arrived>>

\* write_file_stream: without overwrite a file that is there is a conflict.
Upload(t) ==
    /\ task[t].pc = "upload" /\ JobsLeft(t)
    /\ IF ~task[t].overwrite /\ mount.dst.file[Job(t)] # None THEN Fail(t)
       ELSE Go(t, "write") /\ UNCHANGED temp
    /\ note' = [note EXCEPT ![t].unseen = FALSE]
    /\ UNCHANGED <<mount, writes, faults, arrived>>

\* The write itself, after further awaits.
Write(t) ==
    /\ task[t].pc = "write"
    /\ LET e == Job(t)  c == temp[t][Job(t)] IN
       IF Fits(mount.dst, e)
       THEN /\ mount' = [mount EXCEPT !.dst = Put(@, e, c)]
            /\ arrived' = arrived \cup {c}
            /\ Becomes(t, [task[t] EXCEPT !.pc = "upload", !.k = @ + 1])
            /\ note' = [u \in Tasks |->
                    IF u = t THEN note[t] ELSE [note[u] EXCEPT !.quiet = FALSE, !.unseen = TRUE]]
            /\ UNCHANGED temp
       ELSE Fail(t) /\ UNCHANGED <<mount, arrived, note>>
    /\ UNCHANGED <<writes, faults>>

\* Mutant: the source is deleted when the downloads are complete.
DeleteSrcEarly(t) ==
    /\ task[t].pc = "upload" /\ task[t].op = "move"
    /\ mount' = [mount EXCEPT !.src = Absent]
    /\ Becomes(t, [task[t] EXCEPT !.op = "copy"])
    /\ note' = Disturb(Tasks \ {t})
    /\ UNCHANGED <<temp, writes, faults, arrived>>

\* A move deletes whatever is at the source when the uploads are complete.
DeleteSrc(t) ==
    /\ task[t].pc = "upload" /\ ~JobsLeft(t) /\ task[t].op = "move"
    /\ mount' = [mount EXCEPT !.src = Absent]
    /\ temp' = [temp EXCEPT ![t] = Empty]
    /\ Becomes(t, Over(task[t], "done"))
    /\ note' = Disturb(Tasks \ {t})
    /\ UNCHANGED <<writes, faults, arrived>>

EndCopy(t) ==
    /\ task[t].pc = "upload" /\ ~JobsLeft(t) /\ task[t].op = "copy"
    /\ temp' = [temp EXCEPT ![t] = Empty]
    /\ Becomes(t, Over(task[t], "done"))
    /\ UNCHANGED <<mount, writes, faults, arrived, note>>

(* Failures. *)

\* Any adapter call of the run may raise.
Fault(t) ==
    /\ Active(t) /\ faults < MaxFaults
    /\ Fail(t)
    /\ faults' = faults + 1
    /\ UNCHANGED <<mount, writes, arrived, note>>

\* ... and may have been carried out although it raised.
LostAnswer(t) ==
    /\ faults < MaxFaults
    /\ \/ /\ task[t].pc = "clear"
          /\ mount' = [mount EXCEPT !.dst = Absent]
          /\ UNCHANGED arrived
       \/ /\ task[t].pc = "write" /\ Fits(mount.dst, Job(t))
          /\ mount' = [mount EXCEPT !.dst = Put(@, Job(t), temp[t][Job(t)])]
          /\ arrived' = arrived \cup {temp[t][Job(t)]}
       \/ /\ task[t].pc = "upload" /\ ~JobsLeft(t) /\ task[t].op = "move"
          /\ mount' = [mount EXCEPT !.src = Absent]
          /\ UNCHANGED arrived
    /\ Fail(t)
    /\ note' = [u \in Tasks |->
            IF u = t THEN note[t] ELSE [note[u] EXCEPT !.quiet = FALSE, !.unseen = TRUE]]
    /\ faults' = faults + 1
    /\ UNCHANGED writes

\* A failure that is taken for an answer, and the run goes on: an exists that answers
\* False, a delete that leaves what is there, a listing that is empty, a mkdir and a look
\* of write_file_stream whose errors are swallowed.
Misled(t) ==
    /\ faults < MaxFaults
    /\ \/ task[t].pc = "queued" /\ PathExists(mount.dst) /\ Go(t, "stat")
       \/ task[t].pc = "clear" /\ Go(t, "stat")
       \/ task[t].pc = "list" /\ Go(t, "download")
       \/ /\ task[t].pc = "download" /\ ~JobsLeft(t)
          /\ Becomes(t, [task[t] EXCEPT !.pc = "upload", !.k = 1])
       \/ task[t].pc = "upload" /\ JobsLeft(t) /\ ~task[t].overwrite /\ Go(t, "write")
       \/ /\ task[t].pc = "upload" /\ ~JobsLeft(t) /\ task[t].op = "move"
          /\ Becomes(t, Over(task[t], "done"))
    /\ temp' = IF task'[t].pc = "done" THEN [temp EXCEPT ![t] = Empty] ELSE temp
    /\ note' = [note EXCEPT ![t].quiet = FALSE,
                            ![t].short = @ \/ task[t].pc = "list",
                            ![t].unseen = @ \/ task'[t].pc = "write"]
    /\ faults' = faults + 1
    /\ UNCHANGED <<mount, writes, arrived>>

-----------------------------------------------------------------------------
(* Everyone else. *)

\* Another request writes a file at either end.
OtherWrite(side, e) ==
    /\ writes < MaxWrites
    /\ Fits(mount[side], e)
    /\ mount' = [mount EXCEPT ![side] = Put(@, e, 2 * Cardinality(Names) + 2 + writes + 1)]
    /\ writes' = writes + 1
    /\ note' = [t \in Tasks |-> [note[t] EXCEPT !.quiet = FALSE, !.unseen = @ \/ side = "dst"]]
    /\ UNCHANGED <<task, temp, faults, arrived>>

\* Another request deletes a file at either end.
OtherDelete(side, e) ==
    /\ writes < MaxWrites
    /\ mount[side].file[e] # None
    /\ mount' = [mount EXCEPT ![side].file[e] = None]
    /\ writes' = writes + 1
    /\ note' = [t \in Tasks |-> [note[t] EXCEPT !.quiet = FALSE,
            !.short = @ \/ (side = "src" /\ task[t].pc = "list")]]
    /\ UNCHANGED <<task, temp, faults, arrived>>

\* The process restarts: the queue and its tasks are gone, their files are not.
Restart ==
    /\ faults < MaxFaults
    /\ \E t \in Tasks : task[t].pc \notin Ended
    /\ task' = [t \in Tasks |-> IF task[t].pc \in Ended THEN task[t]
                                ELSE Over(task[t], "lost")]
    /\ faults' = faults + 1
    /\ UNCHANGED <<mount, temp, writes, arrived, note>>

-----------------------------------------------------------------------------
\* Initial contents: name n has content n at the source, and its own at the
\* destination.
Populated(S, base) == [dir |-> TRUE, file |-> [e \in Entries |->
                          IF e \in S THEN base + Cardinality({n \in Names : n <= e}) ELSE None]]
SingleFile(c) == [dir |-> FALSE, file |-> [Empty EXCEPT ![Root] = c]]

Init ==
    /\ \E s \in {Populated(Names, 0), Populated({}, 0), SingleFile(2 * Cardinality(Names) + 1)},
          d \in {Populated(Names, Cardinality(Names)), Absent,
                 SingleFile(2 * Cardinality(Names) + 2)} :
            mount = [src |-> s, dst |-> d]
    /\ task = [t \in Tasks |-> [op |-> "copy", overwrite |-> FALSE, pc |-> "new",
                                page |-> 1, jobs |-> <<>>, k |-> 1]]
    /\ temp = [t \in Tasks |-> Empty]
    /\ writes = 0 /\ faults = 0
    /\ arrived = {}
    /\ note = [t \in Tasks |-> [found |-> Absent, quiet |-> FALSE,
                                unseen |-> FALSE, short |-> FALSE]]

Step(t) ==
    \/ Begin(t) \/ ClearDst(t) \/ StatSrc(t) \/ ListPage(t) \/ Download(t)
    \/ MakeDirs(t) \/ Upload(t) \/ Write(t) \/ DeleteSrc(t) \/ EndCopy(t)

Failure(t) == Fault(t) \/ LostAnswer(t) \/ Misled(t)

Next ==
    \/ \E t \in Tasks, op \in {"move", "copy"}, ow \in BOOLEAN : Enqueue(t, op, ow)
    \/ \E t \in Tasks : Step(t) \/ Failure(t)
    \/ \E side \in {"src", "dst"}, e \in Entries : OtherWrite(side, e) \/ OtherDelete(side, e)
    \/ Restart

Spec == Init /\ [][Next]_vars

\* A worker takes each queued task and carries its run on: the task queue's
\* promise while it has workers.
FairSpec == Spec /\ \A t \in Tasks : WF_vars(Step(t))

-----------------------------------------------------------------------------
(* Properties. *)

TypeOK ==
    /\ mount \in [{"src", "dst"} -> [dir : BOOLEAN, file : [Entries -> Contents \cup {None}]]]
    /\ \A side \in {"src", "dst"} : mount[side].dir => mount[side].file[Root] = None
    /\ \A t \in Tasks : /\ task[t].op \in {"move", "copy"} /\ task[t].overwrite \in BOOLEAN
                        /\ task[t].jobs \in Seq(Entries)
                        /\ task[t].k \in 1 .. Len(task[t].jobs) + 1
    /\ temp \in [Tasks -> [Entries -> Contents \cup {None}]]
    /\ writes \in 0 .. MaxWrites /\ faults \in 0 .. MaxFaults
    /\ arrived \subseteq Contents

\* A move deletes no content that was at the source when its run began unless it
\* has been written at the destination: with exceptions that the code does not close,
\* only a content written since is lost, or one that the listing did not have, because
\* another request deleted a file between two of its pages or because a listing that
\* failed was taken for an empty one.
MoveLosesOnlyLateWrites ==
    [][\A t \in Tasks : task[t].op = "move" /\ ~note[t].short /\ mount'.src = Absent
            /\ task'[t] # task[t] =>
            \A e \in Entries : mount.src.file[e] # None
                               /\ mount.src.file[e] = note[t].found.file[e]
                               => mount.src.file[e] \in arrived]_vars

\* A run nobody disturbs, and none of whose failures is taken for an answer, does what
\* its name says: the destination becomes the source, with nothing of what was there
\* before, and the source is gone after a move and untouched after a copy.
UndisturbedIsExact ==
    \A t \in Tasks : task[t].pc = "done" /\ note[t].quiet =>
        /\ mount.dst = note[t].found
        /\ mount.src = IF task[t].op = "move" THEN Absent ELSE note[t].found

\* Without overwrite a task replaces no file at the destination, but for one that
\* another actor wrote between the last look at it and the write, or that a failing look
\* did not see.
OverwriteAsked ==
    [][\A t \in Tasks : ~task[t].overwrite /\ ~note[t].unseen /\ task'[t] # task[t] =>
            \A e \in Entries : mount.dst.file[e] # None =>
                mount'.dst.file[e] = mount.dst.file[e]]_vars

\* No run that ends, in success or by an error at any step, leaves a temporary
\* file; a restart of the process may.
TempGone == \A t \in Tasks : task[t].pc \in {"done", "failed"} => temp[t] = Empty

\* A run does what its name says unless it is disturbed, and leaves nothing of its own
\* behind however it ends.
RunsExact == TypeOK /\ UndisturbedIsExact /\ TempGone

\* Every queued transfer ends, however the directory changes under its listing.
TransferEnds == \A t \in Tasks : task[t].pc = "queued" ~> task[t].pc \in Ended
=============================================================================
