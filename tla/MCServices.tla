----------------------------- MODULE MCServices -----------------------------
(***************************************************************************)
(* The services that share nothing, side by side: a behaviour is one of    *)
(* those of turn, while the others rest.                                   *)
(***************************************************************************)
EXTENDS TLC, Naturals, Sequences, FiniteSets

CONSTANTS Clients, MaxSets, MaxFailures, Env, None, Names, Uids, Tokens,
          MaxAccountRequests, S3Clients, Uploads, Parts, Chunks,
          MaxGatewayCalls, MaxRestarts, Absent, Ranks, MountRanks, SelfRank,
          UpRank, PageSizes, DirPages, MaxChanges, MaxPages, Start, Viewers, Stamps,
          MaxVersions, MaxViews, Missing, Watchers, MaxStates, Silent,
          MaxNotices, RemotePage, MaxSyncs, Writers, MaxName, Nothing, MaxRows,
          MaxEdits, Gone, MaxCalls, MaxPerTurn, MaxChatRequests, MaxRounds,
          Admins, Plugins, Builtin, MaxPluginRequests, p1, p2

VARIABLES turn, \* the component that runs
    stored, cached, setting, sets, failures, doubtful,
    users, unused, valid, issued, asking, requests, uses, doubled,
    dirs, metas, temp, part, info, blob, final, gwcall, gwcalls, restarts,
    ended, stray, gwmixed,
    held, mounts, depth, allowed, walk, changes,
    kind, native, version, stampof, thumbs, torn, view, views,
    room, sockets, desk, shown, mail, states, apart, mixed,
    site, rows, sync, syncs, disturbed,
    files, store, jobs, told, ruined,
    db, used, file, last, was, edits,
    calls, page, chat, runs, agreed, unheard, gap,
    dir, backup, row, types, ops, asked, loose, hurt

(* p1 drops a type in its second version; that of p2 takes one of p1. *)
Provides == (p1 :> <<{"a", "b"}, {"a"}>>) @@ (p2 :> <<{"c"}, {"a", "c"}>>)
\* Those who call are alike, in every component.
Symmetry == Permutations(Clients)
SectionSets == {{"users", "shares", "providers", "models", "defaults"}, {"users"},
                {"shares", "providers"}, {"models", "defaults"}}

(* What the constants stand for: numbers, and values that nobody writes. *)
ASSUME SettingsAssumption ==
    /\ MaxSets \in Nat /\ MaxFailures \in Nat
    /\ None # Env /\ None \notin 1 .. MaxSets /\ Env \notin 1 .. MaxSets
ASSUME AccountsAssumption ==
    /\ MaxAccountRequests \in Nat /\ None \notin Uids
    /\ None \notin [name : Names, pass : Nat, admin : BOOLEAN, disabled : BOOLEAN]
ASSUME GatewayAssumption == MaxGatewayCalls \in Nat /\ Chunks \in Nat \ {0} /\ Absent \notin Nat
ASSUME ThumbsAssumption == MaxVersions \in Nat \ {0} /\ Missing \notin {"image", "video", "other"}
ASSUME RoomAssumption == MaxStates \in Nat /\ Silent \notin 0 .. MaxStates
ASSUME NoticesAssumption ==
    /\ MaxNotices \in Nat /\ RemotePage \in Nat \ {0} /\ MaxSyncs \in Nat
    /\ Absent \notin BOOLEAN /\ Absent \notin [popup : BOOLEAN, dismissed : BOOLEAN]
ASSUME WritersAssumption ==
    MaxName \in Nat /\ Nothing \notin [by : Writers, whole : BOOLEAN]
ASSUME AgentAssumption == MaxCalls \in Nat /\ MaxPerTurn \in Nat /\ MaxChatRequests \in Nat
ASSUME PluginsAssumption ==
    /\ MaxPluginRequests \in Nat /\ Nothing \notin Plugins /\ "builtin" \notin Plugins
    /\ Nothing \notin 0 .. 2
    /\ Nothing \notin [id : Nat, v : {1, 2},
                       loaded : SUBSET (Builtin \cup UNION {Provides[p][v] : p \in Plugins, v \in {1, 2}})]

ST == INSTANCE Settings WITH call <- setting
AC == INSTANCE Accounts WITH call <- asking, MaxRequests <- MaxAccountRequests
GW == INSTANCE S3Gateway WITH calls <- gwcalls, call <- gwcall, mixed <- gwmixed, MaxCalls <- MaxGatewayCalls
LS == INSTANCE Listing
TH == INSTANCE Thumbs
VR == INSTANCE VideoRoom
NT == INSTANCE Notices
WR == INSTANCE Writers
BK == INSTANCE Backup
AG == INSTANCE Agent WITH torn <- gap, desk <- chat, MaxRequests <- MaxChatRequests
PL == INSTANCE Plugins WITH MaxRequests <- MaxPluginRequests

settingsvars == <<stored, cached, setting, sets, failures, doubtful>>
accountsvars == <<users, unused, valid, issued, asking, requests, uses, doubled>>
gatewayvars == <<dirs, metas, temp, part, info, blob, final, gwcall, gwcalls,
                restarts, ended, stray, gwmixed>>
listingvars == <<held, mounts, depth, allowed, walk, changes>>
thumbsvars == <<kind, native, version, stampof, thumbs, torn, view, views>>
roomvars == <<room, sockets, desk, shown, mail, states, apart, mixed>>
noticesvars == <<site, rows, sync, syncs, disturbed>>
writersvars == <<files, store, jobs, told, ruined>>
backupvars == <<db, used, file, last, was, edits>>
agentvars == <<calls, page, chat, runs, agreed, unheard, gap>>
pluginsvars == <<dir, backup, row, types, ops, asked, loose, hurt>>

Components == {"settings", "accounts", "gateway", "listing", "thumbs", "room",
               "notices", "writers", "backup", "agent", "plugins"}

Init ==
    /\ turn \in Components
    /\ ST!Init
    /\ AC!Init
    /\ GW!Init
    /\ LS!Init
    /\ TH!Init
    /\ VR!Init
    /\ NT!Init
    /\ WR!Init /\ (turn # "writers" => ~store.looks /\ ~store.uploads /\ ~store.inplace)
    /\ BK!Init
    /\ AG!Init
    /\ PL!Init

Next ==
    \/ /\ turn = "settings" /\ ST!Next
       /\ UNCHANGED <<turn, accountsvars, gatewayvars, listingvars,
                        thumbsvars, roomvars, noticesvars, writersvars,
                        backupvars, agentvars, pluginsvars>>
    \/ /\ turn = "accounts" /\ AC!Next
       /\ UNCHANGED <<turn, settingsvars, gatewayvars, listingvars,
                        thumbsvars, roomvars, noticesvars, writersvars,
                        backupvars, agentvars, pluginsvars>>
    \/ /\ turn = "gateway" /\ GW!Next
       /\ UNCHANGED <<turn, settingsvars, accountsvars, listingvars,
                        thumbsvars, roomvars, noticesvars, writersvars,
                        backupvars, agentvars, pluginsvars>>
    \/ /\ turn = "listing" /\ LS!Next
       /\ UNCHANGED <<turn, settingsvars, accountsvars, gatewayvars,
                        thumbsvars, roomvars, noticesvars, writersvars,
                        backupvars, agentvars, pluginsvars>>
    \/ /\ turn = "thumbs" /\ TH!Next
       /\ UNCHANGED <<turn, settingsvars, accountsvars, gatewayvars,
                        listingvars, roomvars, noticesvars, writersvars,
                        backupvars, agentvars, pluginsvars>>
    \/ /\ turn = "room" /\ VR!Next
       /\ UNCHANGED <<turn, settingsvars, accountsvars, gatewayvars,
                        listingvars, thumbsvars, noticesvars, writersvars,
                        backupvars, agentvars, pluginsvars>>
    \/ /\ turn = "notices" /\ NT!Next
       /\ UNCHANGED <<turn, settingsvars, accountsvars, gatewayvars,
                        listingvars, thumbsvars, roomvars, writersvars,
                        backupvars, agentvars, pluginsvars>>
    \/ /\ turn = "writers" /\ WR!Next
       /\ UNCHANGED <<turn, settingsvars, accountsvars, gatewayvars,
                        listingvars, thumbsvars, roomvars, noticesvars,
                        backupvars, agentvars, pluginsvars>>
    \/ /\ turn = "backup" /\ BK!Next
       /\ UNCHANGED <<turn, settingsvars, accountsvars, gatewayvars,
                        listingvars, thumbsvars, roomvars, noticesvars,
                        writersvars, agentvars, pluginsvars>>
    \/ /\ turn = "agent" /\ AG!Next
       /\ UNCHANGED <<turn, settingsvars, accountsvars, gatewayvars,
                        listingvars, thumbsvars, roomvars, noticesvars,
                        writersvars, backupvars, pluginsvars>>
    \/ /\ turn = "plugins" /\ PL!Next
       /\ UNCHANGED <<turn, settingsvars, accountsvars, gatewayvars,
                        listingvars, thumbsvars, roomvars, noticesvars,
                        writersvars, backupvars, agentvars>>

vars == <<turn, settingsvars, accountsvars, gatewayvars, listingvars,
          thumbsvars, roomvars, noticesvars, writersvars, backupvars, agentvars,
          pluginsvars>>
Spec == Init /\ [][Next]_vars

-----------------------------------------------------------------------------
\* config/service.py: a setting, once cached, is what its row says, but for the races
\* and failures that Settings names.
SettingsServed == turn = "settings" => ST!TypeOK /\ ST!CacheIsTable

\* auth/service.py, user/service.py: nobody becomes an administrator by registering but
\* the first user; no request undoes what another wrote to an account, but an edit that
\* had read it before; a reset token sets one password, but for two confirmations at once.
AccountsKept ==
    /\ [](turn = "accounts" => AC!TypeOK /\ AC!TokenOnce)
    /\ AC!FirstIsAdmin /\ AC!OnlyEditsUndo

\* mapping/s3_api.py: a part of an upload is what its description and its ETag say, a
\* completed upload is its parts in order, and one that has ended leaves nothing on the
\* disk but parts sent meanwhile; across restarts.
UploadsWhole ==
    turn = "gateway" => GW!TypeOK /\ GW!PartIsWhole /\ GW!CompletedIsParts /\ GW!EndedLeavesNothing

\* virtual_fs/listing.py, mapping/s3_api.py: the pages of a directory bring each entry
\* once, but where mounts are merged in; those of a bucket each key once, whatever is made
\* and deleted between them, unless between the pages read for one of them.
WalksExact == turn = "listing" => LS!TypeOK /\ LS!WalkIsExact /\ LS!KeysWalkIsExact

\* virtual_fs/thumbnail.py: a thumbnail is cached under the stamp of what it shows, and a
\* viewer is shown the file as it was when he asked, or later.
ThumbsFresh == turn = "thumbs" => TH!TypeOK /\ TH!FiledRight /\ TH!ServedIsFresh

\* video_rooms/api.py, ws.py: everybody who watches sees the state of the room, but after
\* the overlaps VideoRoom names.
RoomInStep == turn = "room" => VR!TypeOK /\ VR!InStep

\* notices/service.py: no synchronisation brings a dismissed notice back, and what pops up
\* after one is the newest notice to pop up.
NoticesKept ==
    /\ [](turn = "notices" => NT!TypeOK /\ NT!PopupIsNewest)
    /\ NT!StaysDismissed

\* virtual_fs/file_ops.py, routes.py, offline_downloads/service.py: who asked not to
\* overwrite replaces no file that he could have seen; a write that is done has its whole
\* file there, and the automation tasks know.
WritesKept == turn = "writers" => WR!TypeOK /\ WR!KeptUnlessRaced /\ WR!DoneIsWhole

\* backup/service.py: an export with the tables its tables refer to can always be brought
\* back, and an import leaves alone what the file does not name, but what goes with a
\* table replaced.
BackupsRestore == turn = "backup" => BK!TypeOK /\ BK!Restores /\ BK!SparesOthers

\* agent/service.py: no call changes anything before its user approved it, a call is run
\* once unless its result got lost, and between requests every call is answered or awaits
\* its user.
CallsAnswered == turn = "agent" => AG!TypeOK /\ AG!AskedFirst /\ AG!RunOnce /\ AG!AllAnswered

\* plugins/service.py, loader.py: the processor types are those of the installed plugins,
\* and their files those of their rows, after a failed update too.
PluginsWhole == turn = "plugins" => PL!TypeOK /\ PL!TypesAreInstalled /\ PL!FilesAreRows
=============================================================================
