------------------------------ MODULE MCDrives ------------------------------
(***************************************************************************)
(* The models of storage providers, side by side: a behaviour is one of    *)
(* those of turn, while the others rest.                                   *)
(***************************************************************************)
EXTENDS TLC, Integers, Sequences, FiniteSets

CONSTANTS DrivesUsed, New, Other, CopyPages, Dir, None, IdDrivesUsed, Callers, MaxId,
          MaxEvents, Alias, Nil, Gone, MaxParts, Void, Users, MaxMessage,
          PageSize, Batch, Length, MaxJobs, Nobody, TokenKinds, Requesters,
          MaxRequests, MaxTrouble, NoToken, Streamers, MaxSize, SegmentSize,
          MaxBreaks, Blank, MaxUploads, MaxUploadSize, PartSize, Unknown

VARIABLES turn, \* the component that runs
    tree, drive, job,
    service, item, kids, ways, call, spent, doubt,
    object, mark, uploads, s3job,
    channel, known, lock, active, online, work, jobs, odd,
    kind, token, aged, held, refresh, saved, valid, serial, kills, req, begun,
    trouble, owed, lostone, unsaved,
    stream,
    up, ups, quarkheld, tempfiles, uploadkids, lister, broken, misled

(* Two directories or files, and what is in them. *)
Paths == {<<"d">>, <<"e">>, <<"d", "d">>, <<"d", "e">>, <<"e", "d">>, <<"e", "e">>}
Routes == {<<"x">>, <<"y">>, <<"x", "x">>}
Keys == {<<"d">>, <<"e">>, <<"d", "f">>}

(* What the constants stand for: bounds, and values that nothing else is. *)
ASSUME TokensAssumption ==
    /\ IsFiniteSet(Requesters) /\ NoToken \notin Requesters /\ NoToken \notin Nat
    /\ NoToken \notin TokenKinds
ASSUME StreamsAssumption ==
    /\ Streamers \subseteq {"local", "ftp", "sftp", "alist", "googledrive", "onedrive", "s3", "telegram",
                            "pikpak", "quark", "dropbox", "foxel", "webdav"}
    /\ MaxSize \in Nat /\ SegmentSize \in Nat \ {0} /\ Blank \notin Int
ASSUME QuarkAssumption ==
    /\ MaxUploads \in Nat /\ MaxUploadSize \in Nat /\ PartSize \in Nat \ {0}
    /\ \A s \in SUBSET (1 .. MaxUploads) : Unknown # s
    /\ \A n \in 0 .. MaxUploadSize : Unknown # [i \in 1 .. n |-> i]

PD == INSTANCE PathDrives
ID == INSTANCE IdDrives
SB == INSTANCE S3Bucket
TG == INSTANCE Telegram
TK == INSTANCE Tokens
BS == INSTANCE ByteStreams
QU == INSTANCE QuarkUpload WITH kids <- uploadkids, held <- quarkheld, MaxSize <- MaxUploadSize

pathvars == <<tree, drive, job>>
idvars == <<service, item, kids, ways, call, spent, doubt>>
s3vars == <<object, mark, uploads, s3job>>
telegramvars == <<channel, known, lock, active, online, work, jobs, odd>>
tokensvars == <<kind, token, aged, held, refresh, saved, valid, serial, kills,
               req, begun, trouble, owed, lostone, unsaved>>
bytesvars == <<stream>>
quarkvars == <<up, ups, quarkheld, tempfiles, uploadkids, lister, broken, misled>>

Components == {"path", "id", "s3", "telegram", "tokens", "bytes", "quark"}

Init ==
    /\ turn \in Components
    /\ PD!Init
    /\ ID!Init
    /\ SB!Init
    /\ TG!Init
    /\ TK!Init
    /\ BS!Init
    /\ QU!Init

Next ==
    \/ /\ turn = "path" /\ PD!Next
       /\ UNCHANGED <<turn, idvars, s3vars, telegramvars, tokensvars,
                        bytesvars, quarkvars>>
    \/ /\ turn = "id" /\ ID!Next
       /\ UNCHANGED <<turn, pathvars, s3vars, telegramvars, tokensvars,
                        bytesvars, quarkvars>>
    \/ /\ turn = "s3" /\ SB!Next
       /\ UNCHANGED <<turn, pathvars, idvars, telegramvars, tokensvars,
                        bytesvars, quarkvars>>
    \/ /\ turn = "telegram" /\ TG!Next
       /\ UNCHANGED <<turn, pathvars, idvars, s3vars, tokensvars, bytesvars,
                        quarkvars>>
    \/ /\ turn = "tokens" /\ TK!Next
       /\ UNCHANGED <<turn, pathvars, idvars, s3vars, telegramvars, bytesvars,
                        quarkvars>>
    \/ /\ turn = "bytes" /\ BS!Next
       /\ UNCHANGED <<turn, pathvars, idvars, s3vars, telegramvars,
                        tokensvars, quarkvars>>
    \/ /\ turn = "quark" /\ QU!Next
       /\ UNCHANGED <<turn, pathvars, idvars, s3vars, telegramvars,
                        tokensvars, bytesvars>>

vars == <<turn, pathvars, idvars, s3vars, telegramvars, tokensvars, bytesvars,
          quarkvars>>
Spec == Init /\ [][Next]_vars

Sym == Permutations(Callers)

-----------------------------------------------------------------------------
\* local.py, ftp.py, sftp.py, webdav.py, dropbox.py, alist.py, foxel.py, onedrive.py: an
\* operation that reports success, alone on its files, has done exactly what it was asked
\* to; one that is possible succeeds; however a move or a copy ends, no file of its source
\* is lost; no step changes anything but what its operation is about, and a copy not asked
\* to overwrite replaces no file.
PathDrivesExact ==
    /\ [](turn = "path" => PD!TypeOK /\ PD!SuccessIsExact /\ PD!PossibleSucceeds /\ PD!SourceKept)
    /\ PD!KeepsToItself /\ PD!UnaskedKept

\* googledrive.py, quark.py, pikpak.py: a call that ran alone and succeeded has done what it
\* was asked to; a cached directory lists what it holds, and a cached path leads to a
\* directory of that path.
IdDrivesExact == turn = "id" => ID!TypeOK /\ ID!KidsTrue /\ ID!WaysTrue /\ ID!CleanIsExact

\* s3.py: no multipart upload stays behind a stream that ended; however a move or a copy
\* ends, the content of its source is still there; a copy not asked to overwrite replaces
\* no object; but for the failures and lost answers S3Bucket names.
BucketKept ==
    /\ [](turn = "s3" => SB!TypeOK /\ SB!NoUploadLeft /\ SB!S3SourceKept)
    /\ SB!S3Unasked

\* telegram.py: a stream that ends as if complete is complete; the lock of the downloads is
\* held by one that goes on; a cached message is still in the channel; the pages of the
\* channel bring each file once.
ChannelServed ==
    turn = "telegram" => TG!TypeOK /\ TG!StreamWhole /\ TG!LockHeldByOne /\ TG!KnownTrue /\ TG!WalkComplete

\* alist.py, dropbox.py, foxel.py, googledrive.py, onedrive.py, pikpak.py: one more try,
\* where there is one, is enough when a token ended; with the lock, nobody logs in when
\* another just did; the refresh token saved is the one the service will take.
TokensRenewed == turn = "tokens" => TK!TypeOK /\ TK!OnceMoreIsEnough /\ TK!NoNeedlessLogin /\ TK!SavedIsCurrent

\* stream_file of every provider: the answer has the range asked for, and a body that ends as
\* if complete is what its headers say.
StreamsExact == turn = "bytes" => BS!TypeOK /\ BS!AnswerIsRight /\ BS!BodyIsExact

\* quark.py: an uploaded file holds the bytes that were given, in order; the temporary files
\* left are those of uploads that failed; after an upload the cached directory has the file.
QuarkUploadsWhole == turn = "quark" => QU!TypeOK /\ QU!WholeInOrder /\ QU!TempsAccounted /\ QU!KidsCached
=============================================================================
