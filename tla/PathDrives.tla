------------------------------- MODULE PathDrives -------------------------------
(***************************************************************************)
(* The providers that address files by path: local, ftp, sftp, webdav,     *)
(* dropbox, onedrive, alist and foxel (domain/adapters/providers).  Each   *)
(* operation of a provider is the list of calls it makes to its service; a *)
(* call may take what the service says and put more calls in front of      *)
(* those left, and between two calls someone else may change the files.    *)
(* Any call may fail for a reason of its own (the connection, a timeout, a *)
(* quota), and one that was done may have its answer lost.                 *)
(*                                                                         *)
(* A file's content is the path it was found at, New for what the          *)
(* operation writes, Blank for nothing at all, or Other for what somebody  *)
(* else writes.  Move, rename and copy of the local provider are           *)
(* MovePath's.                                                             *)
(***************************************************************************)
EXTENDS RemoteTree, TLC

CONSTANTS DrivesUsed, New, Blank, Other,
          CopyPages \* how many entries of a directory a copy's listing has at most

VARIABLES tree,   \* what the service holds
          drive,  \* the provider
          job     \* the operation under way

vars == <<tree, drive, job>>

Contents == Paths \cup {New, Blank, Other}
Waiting == [at |-> "setup"]

-----------------------------------------------------------------------------
(* Calls.  A soft one is tried: what it raises is caught, and alt follows.  *)
(* A deep one makes missing directories on the way.  over says what the     *)
(* service does with something at the destination: refuse, replace it, or,  *)
(* where services differ, either.  may says what else than the whole a      *)
(* success may stand for: part of it, nothing in its place, or a place in   *)
(* the service's queue.                                                     *)

Call(c, p, q) == [do |-> c, p |-> p, q |-> q, soft |-> FALSE, alt |-> <<>>,
                  deep |-> FALSE, over |-> "refuse", may |-> "whole"]
On(c, p) == Call(c, p, p)
Tried(i) == [i EXCEPT !.soft = TRUE]
TriedOr(i, s) == [i EXCEPT !.soft = TRUE, !.alt = s]
Deep(i) == [i EXCEPT !.deep = TRUE]
Over(i, o) == [i EXCEPT !.over = o]
May(i, m) == [i EXCEPT !.may = m]
Each(c, ps) == [i \in 1 .. Len(ps) |-> On(c, ps[i])]
EachTried(c, ps) == [i \in 1 .. Len(ps) |-> Tried(On(c, ps[i]))]

-----------------------------------------------------------------------------
(* local.py *)
LocalRead(o) == <<On("get", o.p)>>
LocalStat(o) == <<On("stat", o.p)>>
LocalList(o) == <<On("listany", o.p)>>
LocalWrite(o) == Each("ensure", Way(Parent(o.p))) \o <<On("put", o.p)>>
LocalMkdir(o) == Each("ensure", Way(o.p))
LocalDelete(o) == <<On("delete", o.p)>>

-----------------------------------------------------------------------------
(* ftp.py: making directories and deleting swallow what goes wrong, and     *)
(* stat takes whatever it finds nothing out about for a file.               *)
FtpMakes(p) == EachTried("mkd", Way(p))
FtpRead(o) == <<On("get", o.p)>>
FtpStat(o) == <<TriedOr(On("stat", o.p), <<On("guess", o.p)>>)>>
FtpList(o) ==
    <<On("cwd", o.p), TriedOr(On("list", o.p), <<TriedOr(On("list", o.p), <<On("nothing", o.p)>>)>>)>>
FtpWrite(o) == FtpMakes(Parent(o.p)) \o <<On("put", o.p)>>
FtpMkdir(o) == FtpMakes(o.p)
FtpDelete(o) == <<TriedOr(On("dele", o.p), <<Tried(On("rmtree", o.p))>>)>>
FtpMove(o) == FtpMakes(Parent(o.q)) \o <<Over(Call("rename", o.p, o.q), "either")>>
\* Its check for an existing file stats it, which never says it is missing.
FtpCopyFile(o) ==
    <<On("get", o.p)>>
    \o (IF o.overwrite THEN FtpMakes(Parent(o.q)) \o <<On("putgot", o.q)>> ELSE <<On("exists", o.q)>>)
FtpCopyDir(o) == FtpMakes(o.q) \o <<On("cwd", o.p), Tried(Call("each", o.p, o.q))>>
FtpCopy(o) == <<Call("copy", o.p, o.q)>>

-----------------------------------------------------------------------------
(* sftp.py *)
SftpMakes(p) == EachTried("mkd", Way(p))
SftpRead(o) == <<On("get", o.p)>>
SftpStat(o) == <<On("stat", o.p)>>
SftpList(o) == <<On("list", o.p)>>
SftpWrite(o) == SftpMakes(Parent(o.p)) \o <<On("put", o.p)>>
SftpMkdir(o) == SftpMakes(o.p)
SftpDelete(o) == <<TriedOr(On("dele", o.p), <<Tried(On("rmtree", o.p))>>)>>

\* Mutant: the source is removed even if the rename was refused.
SftpMoveTried(o) ==
    SftpMakes(Parent(o.q)) \o <<Tried(Call("rename", o.p, o.q)), Tried(On("dele", o.p))>>

SftpMove(o) == SftpMakes(Parent(o.q)) \o <<Call("rename", o.p, o.q)>>

SftpCopyFile(o) ==
    <<On("get", o.p)>> \o (IF o.overwrite THEN <<>> ELSE <<On("free", o.q)>>)
    \o SftpMakes(Parent(o.q)) \o <<On("putgot", o.q)>>
SftpCopyDir(o) == SftpMakes(o.q) \o <<Call("each", o.p, o.q)>>
SftpCopy(o) == <<On("there", o.p), Call("copy", o.p, o.q)>>

-----------------------------------------------------------------------------
(* webdav.py: one request each.  MOVE names no Overwrite header, whose      *)
(* absence means T; MKCOL's 405, something is there, is success, and so is  *)
(* a 207, which says that some of a collection could not be done.           *)
WebdavRead(o) == <<On("get", o.p)>>
WebdavStat(o) == <<On("stat", o.p)>>
WebdavList(o) == <<On("list", o.p)>>
WebdavWrite(o) == <<On("put", o.p)>>
WebdavWriteStream(o) == <<On("put", o.p)>>
WebdavMkdir(o) == <<On("mkcol", o.p)>>

WebdavDelete(o) == <<May(On("deltree", o.p), "part")>>
WebdavMove(o) == <<May(Over(Call("rename", o.p, o.q), "replace"), "part")>>
WebdavCopy(o) ==
    <<May(Over(Call("clone", o.p, o.q), IF o.overwrite THEN "replace" ELSE "refuse"), "part")>>

-----------------------------------------------------------------------------
(* dropbox.py: a missing directory lists as an empty one; copy passes no    *)
(* overwrite on; a stream is a session that shows nothing until its end.    *)
DropboxRead(o) == <<On("get", o.p)>>
DropboxStat(o) == <<On("stat", o.p)>>
DropboxList(o) == <<On("listany", o.p)>>
DropboxWrite(o) == <<Deep(On("put", o.p))>>
DropboxWriteStream(o) == <<On("session", o.p), On("session", o.p), Deep(On("put", o.p))>>
DropboxMkdir(o) == <<Deep(On("mkd", o.p))>>
DropboxDelete(o) == <<On("deltree", o.p)>>
DropboxMove(o) == <<Deep(Call("rename", o.p, o.q))>>
DropboxCopy(o) == <<Deep(Call("clone", o.p, o.q))>>

-----------------------------------------------------------------------------
(* onedrive.py: a move and a copy ask for the destination's directory first; *)
(* a copy is answered before it is made, and overwrite is not passed on; a   *)
(* request whose token was refused is sent again, a stream by then empty.    *)
OnedriveRead(o) == <<On("get", o.p)>>
OnedriveStat(o) == <<On("stat", o.p)>>
OnedriveList(o) == <<On("listany", o.p)>>
OnedriveWrite(o) == <<Deep(On("put", o.p))>>
OnedriveWriteStream(o) == <<May(Deep(On("put", o.p)), "drained")>>
OnedriveMkdir(o) == <<On("mkd", o.p)>>
OnedriveDelete(o) == <<On("deltree", o.p)>>
OnedriveMove(o) == <<On("there", Parent(o.q)), Call("rename", o.p, o.q)>>
OnedriveCopy(o) == <<On("there", Parent(o.q)), Call("accept", o.p, o.q)>>

-----------------------------------------------------------------------------
(* alist.py: files are read through a link asked for first; moves and       *)
(* copies keep the name and rename afterwards.                              *)
AlistRead(o) == <<On("isfile", o.p), On("get", o.p)>>
AlistStat(o) == <<On("stat", o.p)>>
AlistList(o) == <<On("list", o.p)>>
AlistWrite(o) == <<Deep(On("put", o.p))>>
AlistMkdir(o) == <<Deep(On("ensure", o.p))>>
AlistDelete(o) == <<On("remove", o.p)>>

AlistVia(o) == Parent(o.q) \o <<Name(o.p)>>

AlistRenamed(o) ==
    IF Name(o.p) = Name(o.q) THEN <<>> ELSE <<Over(Call("rename", AlistVia(o), o.q), "either")>>

AlistMove(o) ==
    IF Parent(o.p) = Parent(o.q) THEN AlistRenamed(o)
    ELSE <<Over(Call("rename", o.p, AlistVia(o)), "either")>> \o AlistRenamed(o)

\* A file that changes its name is downloaded and uploaded, whatever is there.
AlistCopyFile(o) ==
    IF Name(o.p) # Name(o.q) THEN <<On("isfile", o.p), On("get", o.p), Deep(On("putgot", o.q))>>
    ELSE <<Over(Call("clone", o.p, AlistVia(o)), "either")>>
AlistCopyDir(o) == <<Over(Call("clone", o.p, AlistVia(o)), "either")>> \o AlistRenamed(o)
AlistCopy(o) == <<On("there", o.p), Call("copy", o.p, o.q)>>

-----------------------------------------------------------------------------
(* foxel.py: the other Foxel makes its own checks (MovePath); what crosses  *)
(* its mounts it only queues, and answers success.                          *)
FoxelRead(o) == <<On("get", o.p)>>
FoxelStat(o) == <<On("stat", o.p)>>
FoxelList(o) == <<On("list", o.p)>>
FoxelWrite(o) == <<Deep(On("put", o.p))>>
FoxelMkdir(o) == <<Deep(On("ensure", o.p))>>
FoxelDelete(o) == <<On("deltree", o.p)>>
FoxelMove(o) == <<May(Deep(Call("rename", o.p, o.q)), "queue")>>
FoxelCopy(o) ==
    <<May(Over(Deep(Call("clone", o.p, o.q)), IF o.overwrite THEN "replace" ELSE "refuse"), "queue")>>

-----------------------------------------------------------------------------
(* Which calls an operation makes. *)

Local(o) == CASE o.op = "read" -> LocalRead(o) [] o.op = "stat" -> LocalStat(o)
    [] o.op = "list" -> LocalList(o) [] o.op = "mkdir" -> LocalMkdir(o)
    [] o.op = "delete" -> LocalDelete(o) [] OTHER -> LocalWrite(o)
Ftp(o) == CASE o.op = "read" -> FtpRead(o) [] o.op = "stat" -> FtpStat(o)
    [] o.op = "list" -> FtpList(o) [] o.op = "mkdir" -> FtpMkdir(o)
    [] o.op = "delete" -> FtpDelete(o) [] o.op = "move" -> FtpMove(o)
    [] o.op = "copy" -> FtpCopy(o) [] OTHER -> FtpWrite(o)
Sftp(o) == CASE o.op = "read" -> SftpRead(o) [] o.op = "stat" -> SftpStat(o)
    [] o.op = "list" -> SftpList(o) [] o.op = "mkdir" -> SftpMkdir(o)
    [] o.op = "delete" -> SftpDelete(o) [] o.op = "move" -> SftpMove(o)
    [] o.op = "copy" -> SftpCopy(o) [] OTHER -> SftpWrite(o)
Webdav(o) == CASE o.op = "read" -> WebdavRead(o) [] o.op = "stat" -> WebdavStat(o)
    [] o.op = "list" -> WebdavList(o) [] o.op = "mkdir" -> WebdavMkdir(o)
    [] o.op = "delete" -> WebdavDelete(o) [] o.op = "move" -> WebdavMove(o)
    [] o.op = "copy" -> WebdavCopy(o) [] o.op = "write" -> WebdavWrite(o)
    [] OTHER -> WebdavWriteStream(o)
Dropbox(o) == CASE o.op = "read" -> DropboxRead(o) [] o.op = "stat" -> DropboxStat(o)
    [] o.op = "list" -> DropboxList(o) [] o.op = "mkdir" -> DropboxMkdir(o)
    [] o.op = "delete" -> DropboxDelete(o) [] o.op = "move" -> DropboxMove(o)
    [] o.op = "copy" -> DropboxCopy(o) [] o.op = "write" -> DropboxWrite(o)
    [] OTHER -> DropboxWriteStream(o)
Onedrive(o) == CASE o.op = "read" -> OnedriveRead(o) [] o.op = "stat" -> OnedriveStat(o)
    [] o.op = "list" -> OnedriveList(o) [] o.op = "mkdir" -> OnedriveMkdir(o)
    [] o.op = "delete" -> OnedriveDelete(o) [] o.op = "move" -> OnedriveMove(o)
    [] o.op = "copy" -> OnedriveCopy(o) [] o.op = "write" -> OnedriveWrite(o)
    [] OTHER -> OnedriveWriteStream(o)
Alist(o) == CASE o.op = "read" -> AlistRead(o) [] o.op = "stat" -> AlistStat(o)
    [] o.op = "list" -> AlistList(o) [] o.op = "mkdir" -> AlistMkdir(o)
    [] o.op = "delete" -> AlistDelete(o) [] o.op = "move" -> AlistMove(o)
    [] o.op = "copy" -> AlistCopy(o) [] OTHER -> AlistWrite(o)
Foxel(o) == CASE o.op = "read" -> FoxelRead(o) [] o.op = "stat" -> FoxelStat(o)
    [] o.op = "list" -> FoxelList(o) [] o.op = "mkdir" -> FoxelMkdir(o)
    [] o.op = "delete" -> FoxelDelete(o) [] o.op = "move" -> FoxelMove(o)
    [] o.op = "copy" -> FoxelCopy(o) [] OTHER -> FoxelWrite(o)
Calls(o) == CASE drive = "local" -> Local(o) [] drive = "ftp" -> Ftp(o)
    [] drive = "sftp" -> Sftp(o) [] drive = "webdav" -> Webdav(o)
    [] drive = "dropbox" -> Dropbox(o) [] drive = "alist" -> Alist(o)
    [] drive = "foxel" -> Foxel(o) [] drive = "onedrive" -> Onedrive(o)

\* One thing of a copy that goes thing by thing.
CopyCalls(o) ==
    CASE drive = "ftp" -> IF IsDir(tree, o.p) THEN FtpCopyDir(o) ELSE FtpCopyFile(o)
      [] drive = "sftp" -> IF IsDir(tree, o.p) THEN SftpCopyDir(o) ELSE SftpCopyFile(o)
      [] drive = "alist" -> IF IsDir(tree, o.p) THEN AlistCopyDir(o) ELSE AlistCopyFile(o)

Apart(p, q) == ~Within(p, q) /\ ~Within(q, p)
Operations ==
    [op : {"read", "stat", "write", "upload", "mkdir", "delete"}, p : Paths, q : {<<>>}, overwrite : {FALSE}]
    \cup [op : {"list"}, p : Paths \cup {<<>>}, q : {<<>>}, overwrite : {FALSE}]
    \cup {o \in [op : {"move"}, p : Paths, q : Paths, overwrite : {FALSE}] : Apart(o.p, o.q)}
    \cup {o \in [op : {"copy"}, p : Paths, q : Paths, overwrite : BOOLEAN] : Apart(o.p, o.q)}

Setup ==
    /\ job = Waiting
    /\ drive' \in DrivesUsed
    /\ tree' \in {t \in [Paths -> Paths \cup {Dir, None}] :
            Sound(t) /\ \A p \in Paths : t[p] \in {None, p} \cup (IF Len(p) = 1 THEN {Dir} ELSE {})}
    /\ job' = [at |-> "ready"]

Begin(o) ==
    /\ (drive = "local" => o.op \notin {"move", "copy"})
    /\ job' = [at |-> "run", o |-> o, todo |-> Calls(o), got |-> None,
               owed |-> <<>>, before |-> tree, disturbed |-> FALSE, broken |-> FALSE, partly |-> FALSE]
    /\ UNCHANGED <<tree, drive>>

Doing(calls) == job.at = "run" /\ job.todo # <<>> /\ Head(job.todo).do \in calls
this == Head(job.todo)
later == Tail(job.todo)

Raised == IF this.soft THEN [job EXCEPT !.todo = this.alt \o later]
          ELSE [job EXCEPT !.at = "failed", !.todo = <<>>]
Raise == job' = Raised /\ UNCHANGED <<tree, drive>>
Goes(more) == job' = [job EXCEPT !.todo = more \o later] /\ UNCHANGED <<tree, drive>>
\* The files become t, not all that was asked for if short; the answer may be lost.
Does(t, short) ==
    /\ tree' = t
    /\ \/ job' = [job EXCEPT !.todo = later, !.partly = @ \/ short]
       \/ drive # "local" /\ job' = [Raised EXCEPT !.broken = TRUE, !.partly = @ \/ short]
    /\ UNCHANGED drive
Becomes(t) == Does(t, FALSE)
Gets(x) == job' = [job EXCEPT !.todo = later, !.got = x] /\ UNCHANGED <<tree, drive>>

\* What asks and changes nothing.
Holds(c) ==
    CASE c.do = "cwd" -> IsDir(tree, c.p) [] c.do = "isfile" -> IsFile(tree, c.p)
      [] c.do = "there" -> There(tree, c.p) [] c.do = "free" -> ~There(tree, c.p)
      [] c.do = "exists" -> FALSE [] c.do = "session" -> TRUE
Check == /\ Doing({"cwd", "isfile", "there", "free", "exists", "session"})
         /\ IF Holds(this) THEN Goes(<<>>) ELSE Raise

Kind(t, p) == IF IsDir(t, p) THEN "dir" ELSE "file"
Entries(t, p) == {<<Name(q), Kind(t, q)>> : q \in Children(t, p)}

Get == Doing({"get"}) /\ IF IsFile(tree, this.p) THEN Gets(tree[this.p]) ELSE Raise
Stat == Doing({"stat"}) /\ IF There(tree, this.p) THEN Gets(Kind(tree, this.p)) ELSE Raise
Guess == Doing({"guess"}) /\ Gets(Kind(tree, this.p))
List == Doing({"list"}) /\ IF IsDir(tree, this.p) THEN Gets(Entries(tree, this.p)) ELSE Raise
ListAny == Doing({"listany"}) /\ IF IsFile(tree, this.p) THEN Raise ELSE Gets(Entries(tree, this.p))
Nothing == Doing({"nothing"}) /\ Gets({})

Makes(p) == Becomes(Put(tree, p, Dir))
Mkd ==
    /\ Doing({"mkd"})
    /\ IF Room(tree, this.p, this.deep) /\ ~There(tree, this.p) THEN Makes(this.p) ELSE Raise
Mkcol ==
    /\ Doing({"mkcol"})
    /\ IF There(tree, this.p) THEN Goes(<<>>) ELSE IF Room(tree, this.p, FALSE) THEN Makes(this.p) ELSE Raise
Ensure ==
    /\ Doing({"ensure"})
    /\ IF IsDir(tree, this.p) THEN Goes(<<>>)
       ELSE IF Room(tree, this.p, this.deep) /\ ~There(tree, this.p) THEN Makes(this.p) ELSE Raise
Store ==
    /\ Doing({"put", "putgot"})
    /\ IF Room(tree, this.p, this.deep) /\ ~IsDir(tree, this.p)
       THEN \E content \in IF this.do = "putgot" THEN {job.got}
                           ELSE {New} \cup (IF this.may = "drained" THEN {Blank} ELSE {}) :
                Does(Put(tree, this.p, content), content = Blank)
       ELSE Raise

Dele == Doing({"dele"}) /\ IF IsFile(tree, this.p) THEN Becomes(Without(tree, this.p)) ELSE Raise
Rmd == /\ Doing({"rmd"})
       /\ IF IsDir(tree, this.p) /\ Children(tree, this.p) = {} THEN Becomes(Without(tree, this.p)) ELSE Raise

\* What a service may leave out of a whole: members of a directory, with all they hold.
Leaves(c) == IF c.may = "part" THEN SUBSET Children(tree, c.p) ELSE {{}}
Left(s) == UNION {Below(p) : p \in s}

Deltree ==
    /\ Doing({"deltree", "remove"})
    /\ IF There(tree, this.p) \/ this.do = "deltree"
       THEN \E left \in Leaves(this) : Does(Dropped(tree, this.p, Left(left)), left # {})
       ELSE Raise

\* What is below goes first; whether it is caught is as for the whole.
Rmtree ==
    /\ Doing({"rmtree"})
    /\ IF IsDir(tree, this.p)
       THEN LET As(c, p) == [On(c, p) EXCEPT !.soft = this.soft]
                below == SetToSeq(Children(tree, this.p)) IN
            Goes([i \in 1 .. Len(below) |-> As(IF IsDir(tree, below[i]) THEN "rmtree" ELSE "dele", below[i])]
                 \o <<As("rmd", this.p)>>)
       ELSE Raise
Delete ==
    /\ Doing({"delete"})
    /\ IF IsDir(tree, this.p) THEN Goes(<<On("rmtree", this.p)>>) ELSE Becomes(Without(tree, this.p))

\* A service's own move or copy: the files t, with what is left out of it, if anything.
Replaces(c) ==
    IF ~There(tree, c.q) THEN {TRUE}
    ELSE CASE c.over = "refuse" -> {FALSE} [] c.over = "replace" -> {TRUE}
           [] c.over = "either" -> {FALSE} \cup {IsFile(tree, c.q) /\ IsFile(tree, c.p)}
Feasible(c) == There(tree, c.p) /\ Room(tree, c.q, c.deep) /\ Fits(tree, c.p, c.q)
Carried(c, left) ==
    LET t == Grafted(tree, c.p, c.q)
        there == [r \in Paths |-> IF Within(c.q, r) /\ c.p \o Rest(c.q, r) \in Left(left) THEN None ELSE t[r]] IN
    IF c.do = "rename" /\ c.p # c.q THEN Dropped(there, c.p, Left(left)) ELSE there
Transfer ==
    /\ Doing({"rename", "clone"})
    /\ \E yes \in Replaces(this) :
        IF yes /\ Feasible(this) THEN \E left \in Leaves(this) : Does(Carried(this, left), left # {})
        ELSE Raise

\* What is only accepted is owed until the service makes it, all or some of it, or gives
\* it up: a copy that onedrive.py asks for, and what another Foxel has to carry between two
\* of its mounts, where it looks for the destination first and for the source only later,
\* removes the one before it writes and the other after all is written.
Owes == job' = [job EXCEPT !.todo = later, !.owed = <<this>>] /\ UNCHANGED <<tree, drive>>
Accept ==
    \/ Doing({"accept"}) /\ IF Feasible(this) THEN Owes ELSE Raise
    \/ /\ Doing({"rename", "clone"}) /\ this.may = "queue"
       /\ TRUE \in Replaces(this)
       /\ Owes
Honour ==
    /\ job.at \in {"run", "done"} /\ job.owed # <<>>
    /\ LET c == job.owed[1]
           some == [c EXCEPT !.do = "clone"] IN
       \/ tree' = tree /\ job' = [job EXCEPT !.owed = <<>>, !.partly = TRUE]
       \/ /\ TRUE \in Replaces(c) /\ Feasible(c)
          /\ \/ tree' = Carried(c, {}) /\ job' = [job EXCEPT !.owed = <<>>]
             \/ \E left \in SUBSET Children(tree, c.p) :
                    /\ tree' = Carried(some, left)
                    /\ job' = [job EXCEPT !.owed = <<>>, !.partly = TRUE]
             \/ c.may = "queue" /\ tree' = Without(tree, c.q)
                /\ job' = [job EXCEPT !.owed = <<>>, !.partly = TRUE]
    /\ UNCHANGED drive

Copy == /\ Doing({"copy"})
        /\ Goes(CopyCalls([job.o EXCEPT !.p = this.p, !.q = this.q]))
\* The listing is one page, and what is not on it is passed over.
CopyEach ==
    /\ Doing({"each"})
    /\ \E size \in CopyPages :
        LET all == SetToSeq(Children(tree, this.p))
            below == SubSeq(all, 1, IF size < Len(all) THEN size ELSE Len(all)) IN
        /\ job' = [job EXCEPT
               !.todo = [i \in 1 .. Len(below) |-> Call("copy", below[i], this.q \o <<Name(below[i])>>)] \o later,
               !.partly = @ \/ size < Len(all)]
        /\ UNCHANGED <<tree, drive>>

\* Any call to the service may fail before it is done.
Error ==
    /\ job.at = "run" /\ job.todo # <<>> /\ this.do \notin {"exists", "nothing"}
    /\ job' = [Raised EXCEPT !.broken = TRUE]
    /\ UNCHANGED <<tree, drive>>

Finish == /\ job.at = "run" /\ job.todo = <<>>
          /\ job' = [job EXCEPT !.at = "done"]
          /\ UNCHANGED <<tree, drive>>

\* Where an operation has business: in alist.py also where a move passes through.
Scope(o) ==
    (IF o.p = <<>> THEN {} ELSE Below(o.p)) \cup (IF o.q = <<>> THEN {} ELSE Below(o.q))
    \cup (IF drive = "alist" /\ o.q # <<>> THEN Below(AlistVia(o)) ELSE {})

\* Somebody else writes a file or removes something there: once in an operation, which
\* is compared with what was before it no more.
Interfere(p) ==
    /\ job.at = "run" /\ ~job.disturbed /\ p \in Scope(job.o)
    /\ \/ Room(tree, p, FALSE) /\ ~IsDir(tree, p) /\ tree' = Put(tree, p, Other)
       \/ There(tree, p) /\ tree' = Without(tree, p)
    /\ job' = [job EXCEPT !.disturbed = TRUE, !.before = tree']
    /\ UNCHANGED drive

Init == tree = [p \in Paths |-> None] /\ drive = None /\ job = Waiting

Works ==
    \/ Check \/ Get \/ Stat \/ Guess \/ List \/ ListAny \/ Nothing
    \/ Mkd \/ Mkcol \/ Ensure \/ Store \/ Dele \/ Rmd \/ Deltree \/ Rmtree \/ Delete
    \/ Transfer \/ Accept \/ Honour \/ Copy \/ CopyEach

Next ==
    \/ Setup \/ (job.at = "ready" /\ \E o \in Operations : Begin(o)) \/ Works \/ Error \/ Finish
    \/ \E p \in Paths : Interfere(p)

Spec == Init /\ [][Next]_vars

-----------------------------------------------------------------------------
TypeOK ==
    /\ tree \in [Paths -> Contents \cup {Dir, None}] /\ Sound(tree)
    /\ drive \in DrivesUsed \cup {None}
    /\ job.at \in {"setup", "ready", "run", "done", "failed"}

\* What an operation that reports success has made of the files t.
Copied(t, o, t2) == \A r \in Paths :
    IF ~Within(o.q, r) THEN t2[r] = WithParents(t, o.q)[r]
    ELSE LET s == o.p \o Rest(o.q, r) IN
         IF There(t, s) THEN t2[r] = t[s] ELSE t2[r] \in {None, t[r]}
Contract(o, t, t2, got) ==
    CASE o.op \in {"write", "upload"} -> t2 = Put(t, o.p, New)
      [] o.op = "mkdir" -> t2 = IF There(t, o.p) THEN t ELSE Put(t, o.p, Dir)
      [] o.op = "delete" -> t2 = Without(t, o.p)
      [] o.op = "move" -> t2 = Without(Grafted(t, o.p, o.q), o.p)
      [] o.op = "copy" -> Copied(t, o, t2)
      [] o.op = "read" -> t2 = t /\ got = t[o.p]
      [] o.op = "stat" -> t2 = t /\ There(t, o.p) /\ got = Kind(t, o.p)
      [] o.op = "list" -> t2 = t /\ got = Entries(t, o.p)

\* Where the code's answer is known to be no answer: errors ftp.py and sftp.py
\* swallow, ftp's stat, and in alist.py what passes through a place that is taken (a
\* copy of a directory beside itself is one such: it may rename the directory).
Swallowed ==
    \/ /\ drive \in {"ftp", "sftp"} /\ job.o.op \in {"mkdir", "delete", "copy"}
       /\ job.broken \/ \E a \in Paths : /\ IsFile(job.before, a)
                                       /\ Within(a, IF job.o.op = "copy" THEN job.o.q ELSE job.o.p)
                                       /\ job.o.op # "delete"
    \/ drive = "ftp" /\ (job.o.op = "stat" \/ (job.o.op = "list" /\ job.broken))
PassesOver ==
    /\ drive = "alist" /\ job.o.op \in {"move", "copy"} /\ Name(job.o.p) # Name(job.o.q) /\ There(job.before, AlistVia(job.o))
    /\ \/ job.o.op = "move" /\ Parent(job.o.p) # Parent(job.o.q)
       \/ job.o.op = "copy" /\ IsDir(job.before, job.o.p)

\* Where success stands for less: what is accepted or queued and not made yet, or not
\* wholly; a stream onedrive.py sent twice; a WebDAV server's 207; what a copy's listing
\* in ftp.py and sftp.py cut off.
Unfinished ==
    \/ drive \in {"onedrive", "foxel"} /\ job.o.op \in {"move", "copy"} /\ (job.owed # <<>> \/ job.partly)
    \/ drive = "onedrive" /\ job.o.op = "upload" /\ job.partly
    \/ drive = "webdav" /\ job.o.op \in {"move", "copy", "delete"} /\ job.partly
    \/ drive \in {"ftp", "sftp"} /\ job.o.op = "copy" /\ job.partly

\* An operation that reports success, alone on its files, has done what it was
\* asked to, exactly: whatever failed on the way and was tried again or passed over.
SuccessIsExact ==
    job.at = "done" /\ ~job.disturbed /\ ~Swallowed /\ ~PassesOver /\ ~Unfinished =>
        Contract(job.o, job.before, tree, job.got)

Possible(o, t) ==
    CASE o.op = "read" -> IsFile(t, o.p) [] o.op \in {"stat", "delete"} -> There(t, o.p)
      [] o.op = "list" -> IsDir(t, o.p)
      [] o.op \in {"write", "upload"} -> Room(t, o.p, FALSE) /\ ~IsDir(t, o.p)
      [] o.op = "mkdir" -> Room(t, o.p, FALSE) /\ ~IsFile(t, o.p)
      [] OTHER -> /\ There(t, o.p) /\ Room(t, o.q, FALSE) /\ Fits(t, o.p, o.q)
                  /\ ~There(t, o.q) \/ (o.overwrite /\ IsFile(t, o.p) /\ IsFile(t, o.q))

\* What the code refuses although it could be done: ftp.py's copies of files without
\* overwrite, dropbox.py's copies with it, its and onedrive.py's mkdir of what is there,
\* and in alist.py what meets something on its way, which AList may refuse.
Refuses ==
    \/ drive = "ftp" /\ job.o.op = "copy" /\ ~job.o.overwrite
    \/ drive = "dropbox" /\ job.o.op = "copy" /\ There(job.before, job.o.q)
    \/ drive \in {"dropbox", "onedrive"} /\ job.o.op = "mkdir" /\ There(job.before, job.o.p)
    \/ drive = "alist" /\ job.o.op \in {"move", "copy"} /\ (PassesOver \/ There(job.before, job.o.q))

\* An operation that is possible succeeds when no call fails and nobody interferes.
PossibleSucceeds ==
    job.at = "failed" /\ ~job.disturbed /\ ~job.broken /\ ~Refuses => ~Possible(job.o, job.before)

\* However a move or a copy ends, alone, no file of the source is lost: it is at the
\* source, at the destination, or where the move had got to.
SourceKept ==
    job.at \in {"done", "failed"} /\ job.o.op \in {"move", "copy"} /\ ~job.disturbed =>
        \A s \in Below(job.o.p) : IsFile(job.before, s) => \E r \in Paths : tree[r] = job.before[s]

\* At each of its steps an operation changes nothing but what it is about, or makes
\* directories on the way there.
OwnStep ==
    job.at = "run" /\ job'.disturbed = job.disturbed =>
        \A r \in Paths : tree'[r] # tree[r] =>
            \/ r \in Scope(job.o)
            \/ tree[r] = None /\ tree'[r] = Dir
KeepsToItself == [][OwnStep]_vars

\* A copy that was not asked to overwrite replaces no file, not even one that appears
\* while it runs: but for alist.py, which uploads over it, and sftp.py, whose check and
\* whose write are apart.
UnaskedStep ==
    job.at = "run" /\ job.o.op = "copy" /\ ~job.o.overwrite /\ job'.disturbed = job.disturbed =>
        \A r \in Paths : IsFile(tree, r) /\ tree'[r] # tree[r] =>
            drive = "alist" \/ (drive = "sftp" /\ job.disturbed)
UnaskedKept == [][UnaskedStep]_vars
=================================================================================
