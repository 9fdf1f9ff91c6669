# Foxel: models and proofs

Foxel is a self-hosted cloud storage server: a FastAPI application on one
asyncio event loop, a relational database behind Tortoise ORM, and storage
adapters that put local disks and remote drives into one virtual tree. This
directory holds TLA+ models of its core logic, the TLC configurations that check
them on small instances, and TLAPS proofs of what matters most.

Everything runs on one event loop. Code between two `await`s that really suspend
is atomic; a database query, an adapter call or an HTTP request suspends. Putting
into an unbounded `asyncio.Queue` does not. Every model takes its steps from
that rule: one action per stretch of code between two suspensions.

## The system

| Component | State it keeps | Operations | What is hard |
|---|---|---|---|
| Task queue (`domain/tasks/task_queue.py`) | FIFO of tasks and sentinels, task table, worker list, concurrency | add, resize, worker loop, start, stop | resizing and stopping with sentinels that share the FIFO with tasks; tasks that add tasks; everything is lost with the process |
| Automation scheduler (`domain/tasks/scheduler.py`, `service.py`) | in-memory cron items, reload and stop events, `AutomationTask` rows | start, stop, refresh, one pass a second, create/update/delete task, triggers | the pass works on a snapshot while rows change; a reload recomputes due times |
| Virtual file system (`domain/virtual_fs`) | the adapters' trees | move, rename, copy, delete, write, listing, cross-mount transfer | check-then-act over adapter calls; overwrite by delete-then-move; page merging |
| Adapters (`domain/adapters`) | `StorageAdapter` rows, runtime instances, usage cache | create, update, delete, refresh, resolve | registry rebuilt across awaits |
| Provider drivers (`domain/adapters/providers`) | tokens, directory id caches, upload sessions | auth refresh, list, upload | double-checked refresh, caches raced by invalidation |
| Permissions (`domain/permission`, `role`, `user`) | roles, path rules, 5-minute result cache | check, filter, set rules, clear cache | a check that was in flight writes its stale result after the cache was cleared |
| Configuration (`domain/config`) | `Configuration` rows, process cache | get, set | get and set interleave |
| Auth (`domain/auth`) | users, password reset tokens | register, login, reset | token consumption across awaits |
| Video rooms (`domain/video_rooms`) | `VideoRoom` rows, sockets per room | join, control, broadcast, disconnect | each socket has its own copy of the room's state |
| Offline downloads (`domain/offline_downloads`) | queue tasks, temporary files | create, run | two downloads of one name |
| Notices (`domain/notices`) | `Notice` rows | sync, popup, dismiss | sync races dismissal |
| Thumbnails and streams (`virtual_fs/thumbnail.py`, `stream_file` of each provider) | thumbnail files by stamp | get or create, stream a range | the file changes between stat and read; headers and body agree over thirteen services |
| Sharing (`domain/share`) | `ShareLink` rows | create, access, expire | |
| Backup (`domain/backup`) | all rows | export, import (replace, merge) | cascades, caches left behind |
| Agent (`domain/agent`) | chat messages, pending tool calls | chat loop, approve, reject | tool call ids across rounds |
| Processors (`domain/processors`) | plug-in registry, scans | process file, scan directory | |
| Vector index (`domain/ai`) | vector collections | index, remove, search | delete-then-upsert across awaits |
| Plugins (`domain/plugins`) | plugin rows and files | install, update, remove | |
| S3 and WebDAV mapping (`domain/virtual_fs/mapping`) | multipart uploads | put, multipart, list | |
| Email, audit, recent files | rows | record, send | |
| Web client (`web/`) | browser state | | |

## Modules

| Module | Models | Extended by |
|---|---|---|
| `TaskExecutor` | what the task queue promises, with no queue in it | |
| `TaskQueue` | `domain/tasks/task_queue.py` and the lifespan around it | `MCTaskQueue`, `TaskQueueProofs` |
| `Scheduler` | `domain/tasks/scheduler.py` and the requests of `domain/tasks/service.py` | `MCScheduler`, `SchedulerProofs` |
| `PermissionCache` | the caches of `domain/permission/service.py`, and their writers in `domain/user`, `domain/role` and `domain/backup` | `MCPermissionCache` |
| `Transfer` | moves and copies between two mounts, `domain/virtual_fs/transfer.py` | `MCTransfer`, `TransferProofs` |
| `MovePath` | move, rename and copy within one mount, over the local adapter | `MCMovePath`, `MovePathProofs` |
| `AdapterRegistry` | the instances of `domain/adapters/registry.py`, the usage cache of `domain/adapters/service.py` | `MCAdapterRegistry`, `AdapterRegistryProofs` |
| `Settings` | the settings' rows and their process-wide cache, `domain/config/service.py` | instantiated by `MCServices` |
| `Accounts` | registration, changes of accounts, password resets, `domain/auth/service.py` and `domain/user/service.py` | `MCServices` |
| `S3Gateway` | the S3 interface's multipart uploads, `virtual_fs/mapping/s3_api.py` | `MCServices` |
| `Listing` | pages of a directory with mounts merged in, `virtual_fs/listing.py`, and all who walk them; the S3 interface's pages of keys | `MCServices` |
| `Thumbs` | `virtual_fs/thumbnail.py` | `MCServices` |
| `VideoRoom` | `domain/video_rooms`: the room's row, its sockets, the broadcasts | `MCServices` |
| `Notices` | `domain/notices/service.py` | `MCServices` |
| `Writers` | WebDAV's PUT and DELETE, the two uploads, the offline downloads, `write_file_stream` under them | `MCServices` |
| `Backup` | export and import over the foreign keys, `domain/backup/service.py` | `MCServices` |
| `Agent` | the chat with tools, `domain/agent/service.py` | `MCServices` |
| `Plugins` | `domain/plugins` and the processors' registry | `MCServices` |
| `RemoteTree` | the tree of files a storage service keeps | `PathDrives` |
| `PathDrives` | the providers that address files by path: local, FTP, SFTP, WebDAV, Dropbox, OneDrive, AList, Foxel | `MCDrives` |
| `IdDrives` | those that address them by identifier: Google Drive, Quark, PikPak | `MCDrives` |
| `S3Bucket` | the provider for S3 | `MCDrives`, `MCS3Bucket` |
| `Telegram` | the provider on a Telegram channel | `MCDrives` |
| `Tokens` | how six providers come by their tokens | `MCDrives` |
| `ByteStreams` | ranges and bodies of `stream_file`, every provider | `MCDrives` |
| `QuarkUpload` | uploads in parts to Quark | `MCDrives` |

`ServicesProofs` and `FilesProofs` extend `MCServices` and prove its properties of the components one by
one: the first of `Settings`, `Accounts`, `Plugins` and `Agent`, the second of those that serve and write
files, `Thumbs`, `VideoRoom`, `Writers` and `S3Gateway`, and of `Notices`. `DrivesProofs` does so with
`MCDrives`, for `Tokens`, `QuarkUpload`, `ByteStreams` and `S3Bucket`.

Each `MC...` module gives the constants of its component their values. The
definitions named "mutant" in a module are variants of the definition that
follows them, wrong the way a change to the code could be; no specification uses
them, and each breaks one of the properties.

`MCServices` and `MCDrives` check several components side by side that share no
state: the variable `turn` is chosen once, the component it names runs, and the
others rest in their initial states. A behaviour is therefore one of one component,
and the states of a run are the sum of the components' states, not their product.
The properties of such a run are one conjunction for each component, of the named
properties of its module (`SettingsServed` is `TypeOK` and `CacheIsTable` of
`Settings`, when it is its turn); action properties need no turn, since
nothing of a component changes while it rests.

### How the modules fit together

- `TaskQueue` implements `TaskExecutor` (`INSTANCE TaskExecutor WITH life <- phase`;
  status, submitted and promised are the same variables): the queue's contents,
  the pool and the setting are hidden. What the rest of the system may rely on is
  the abstract module.
- `Scheduler` is a client of the queue. `add_task` never suspends, so in
  `Scheduler` a pass over the due items is one step, and the tasks it queues are
  counted in `enqueued`.
- The run of a cross-mount transfer is a task of the queue. `Transfer` assumes of
  the queue that a worker takes each queued task (its fairness), and lets two
  workers run two transfers at once. `Restart` is `ProcessEnds` of the queue.
- `MovePath` is what a request does when both ends are on one mount; `Transfer`
  is what it queues when they are not.
- `PermissionCache`, `AdapterRegistry` and `Settings` are three caches of three
  parts of the database. A backup import changes them all and clears none; each
  module has it as an action `Import`. What the import does to the tables is `Backup`.
- `MovePath`, `Transfer`, `Writers` and `S3Gateway` call an adapter; `PathDrives`,
  `IdDrives` and `S3Bucket` are what the adapters do. `MovePath` has the local
  provider's move, rename and copy; all else of it is in `PathDrives`.
- A provider's token (`Tokens`) and the bytes it sends (`ByteStreams`) are apart
  from its files: an operation awaits the token before its first call, and a stream
  changes no file.
- `Plugins` registers and removes the processor types that the scheduler's tasks and
  `Listing`'s `process_file` name.

### TaskQueue

`queue` is `_queue` (0 is the sentinel), `status` is the status in `_tasks`,
`job` maps the live workers of `_worker_tasks` to the task each executes,
`concurrency` and `workerSeq` are `_concurrency` and `_worker_seq`. `phase` is
the lifespan of the process (`main.py`). `submitted` gives the ids; `promised` is
history: the tasks that, when they were added, had more live workers than
sentinels queued before them.

`AddTask` is `add_task`; `StartWorker`, `SetConcurrency` and `StopWorker` are the
functions of those names, each with `EnsureWorkerCount`; `TakeTask`,
`TakeSentinel` and `FinishTask` are the three places a worker's loop resumes;
`StopReturns` is the `gather` in `stop_worker`; `ProcessEnds` is a restart or a
crash. A task being executed may add tasks, also while the service stops.

### Scheduler

`rows` is the table, `items` the scheduled items with their `next_run`, `reload`
and `stop` the two events, `snap` what a reload under way has read, `loop` where
the coroutine is suspended. `since` in an item, and `enqueued`, are history: when
the item was built, and how often each due time of a row was queued. `MakePass`
and `FinishLoad` end with the whole pass. `FinishLoad` reads the clock twice, as the code
does: once to build the items (`scheduler.py:49`), and for its pass again (`:91`), when it may have gone on. `Create`, `UpdateRead`, `UpdateSave`,
`Delete` are the requests up to their database call; `Refresh` is the rest of
them. `LoadFails` is a query that raises.

A schedule is a set of due times; croniter is `NextAfter`, the first due time
after a given one. Sleeping one second is `Wake`, and `Tick` may come any number
of times between two steps of the loop, so the loop may be late.

### PermissionCache

`user`, `roles`, `live` and `rules` are the tables; `context` and `cache` are
`_context_cache` and `_cache`. A request that misses takes the steps `Request`,
`ReadUser`, `ReadRoles`, `ReadRules` and `Answer`, one for each query it awaits;
`ServeFromContext` is one that does not await. An administrator's operation is
the list of the statements it awaits and the users whose cache it clears at the
end; two operations interleave by statement, and one that the database refuses
(`StatementRefused`) ends without clearing.

`Walk` is the search up the ancestors, through the result cache and the rules. A
rule is the set of paths it matches, its answer and its place in the order.
`Reference` is the answer with no cache in the way: the nearest ancestor with a
matching rule decides.

Each entry has its age, which decides whether it is valid, and, as history, the
ticks since the oldest query it rests on (`born`). `tainted` is history too: rows
of the user changed since, or a request that had begun before a change stored its
answer after it.

### Transfer

`mount` holds the two paths: each a file, a directory of files, or absent. The
content of a file is the number of the write that made it, so that no two writes
are confused. `task` has where the run stands, the jobs it listed and the next
one; `temp` is the run's directory under `data/tmp/cross_transfer`. The steps
follow the code: look again (`Begin`), delete the destination (`ClearDst`), look
at the source (`StatSrc`), list it page by page (`ListPage`), read everything to
temporary files (`Download`), make directories (`MakeDirs`), look at each
destination and write it (`Upload`, `Write`), delete the source (`DeleteSrc`).
`Failure` is a failing adapter call at any of them, of three kinds. `Fault` raises and
ends the run. `LostAnswer` raises too, but the call was carried out. `Misled` is a failure the code takes
for an answer and goes on: `exists` answers `False` on errors (SFTP, WebDAV, Dropbox, AList), FTP's listing is
empty when its commands fail, FTP's delete swallows its errors, `ensure_dir` and the look of `write_file_stream`
pass over exceptions. `OtherWrite` and `OtherDelete` are other requests at either end. `note` is history: what the run
found at the source, whether anyone disturbed it or it was misled, whether there may be a file at
the destination that its last look did not see (`unseen`), and whether its listing may be short of a file
(`short`): another actor deleted between two pages, or a failed listing came as an empty one. `arrived`
is the set of contents written to the destination.

Nested directories are one level deep: a file's path relative to the source
is one name. A delete at either end is all or nothing; partial deletes are in `PathDrives`.

### MovePath

`tree` maps every path to a directory, a content or nothing. A request looks
(`Look`), deletes the destination it may overwrite (`PreDelete`), finds that both
paths are one (`Noop`) or calls the adapter (`Move`, `Rename`, `Copy`).
`AdapterMove`, `AdapterRename` and `AdapterCopy` are the local adapter's methods
with what `os.replace`, `os.rename` and `shutil` do to files, directories, empty
directories and paths inside each other. The adapter runs them in a thread; a
call is taken as one step. `saw` and `solo` are history: the tree a request first
saw, and whether it has been alone since.

### AdapterRegistry

`row` is the table, `instances` is `_instances`, `usage` is `_usage_cache`. A row
is its version and one of three kinds: enabled, not enabled, or enabled but its
factory raises. A request that misses clears the registry (`Miss`), awaits the
query (`QueryRows`) and fills the registry (`Fill`); `StoreUsage` is the end of
the awaited `get_usage`. What is cached has two versions: that of the row read before, whose name, type and
paths it carries (`named`), and that of the instance that was asked (`got`). An administrator's save or delete, and the upsert or
removal after it, are two steps. `raced` and `mixed` are history: the instance,
or the usage, came from a row that had changed by the time it was put in.

### Settings

`stored` and `cached` are the row and the cache of one setting; a value is the
number of the write that made it, `Env` is the environment's. `get` and `set` are
split at every query; a query may fail, which `get` takes for a missing row. History:
`doubtful`, the cache was filled from what had changed since.

### Accounts

`users` maps an id to name, password, `admin` and `disabled`; `valid` and `issued` are
the reset tokens of the store (each of its methods is one step: its lock is never held
across an await). `call` is the request of each client with what it has read. An
update saves the whole row it read, so an edit that overlaps another one undoes it; a
registration counts the users several queries before it makes one. `uses` and `doubled`
are history: how many passwords a token has set, and which tokens two confirmations held at
once.

### S3Gateway

The disk is `dirs`, `metas`, `part`, `info` (the description of a part) and `temp`;
`blob` and `final` are the content of a completed upload; `call` is the request of each
client. A part's content is a few chunks, each the number of the request it came with, so
that a mixture of two uploads of one part can be seen. `Restart` drops the requests and
keeps the disk. `stray` is history: directories a part made after its upload had ended.

### Listing

`held` is the set of entries the adapter has, `mounts` those of other mounts to be merged
in; an entry is its rank in the order asked for. A walk collects pages: `Browse` (as many
as the total says), `ListAll` (the S3 interface), `Propfind` (one page), `ProcessDir` (the
adapter's own). `Change` adds or removes an entry between two pages. A walk of keys over the S3 interface
(`KeysBegin`) lists the directory anew for every page of keys: `CollectKeys` is one awaited page
of `_list_dir_all`, mounts merged in, `CollectFails` one that fails (a 400 or 404 leaves the request without any
key), and `KeysPage` sorts what was collected, cuts it after `start-after` or the token, and answers.
`mixed` is history: the directory changed between two pages read for the same keys.

### Thumbs

A version of the file has a stamp (size and mtime), and a later version may have the stamp
of an earlier one. `view` is where each request stands; a thumbnail is the set of versions
its bytes were read from, since the file may change between two reads.

### VideoRoom

`room` is the row, `sockets` the registered ones, `desk` where each handler stands, `shown` what
its viewer sees, `mail` the broadcasts under way. `apart` and `mixed` are history: who missed a
broadcast, and whether two changes overlapped.

### Notices

`site` is what the project's site has published; `rows` the table; `sync` the synchronisation
with what it fetched and read. `Publish`, `Withdraw` and `Dismiss` may come between any two of
its queries.

### Writers

`files` maps a name to its content, `jobs` are the requests: WebDAV's PUT and DELETE, an
upload with or without overwrite, an offline download that looks for a free name.
`store` says whether the adapter can look and whether it takes whole files. `told` is the
automation tasks triggered; `ruined` is history: writes another one replaced, removed or mixed with.

### Backup

`db` has two families of tables, accounts with shares and roles and providers with models and
default models; `file` is an export with some sections. An import runs its deletes and
inserts in one transaction, so it is one step with the order of the statements kept (a
sequence of sections): the cascades, and the refusals for a missing parent, come from that
order. `last` and `was` are history: what was imported and into what.

### Agent

`page` is the conversation the browser keeps, `desk` the requests under way, `calls` what the
model asked for; `runs` counts how often each call ran. A model without ids gets the place of a
call in its message for its id. `OpenFails` is a session or list of tools that cannot be had: a stream then ends in `done`
before it has looked at the confirmations, with nothing pending. `torn`, `unheard` and `agreed` are history: a stream broke or had no
tools for the calls confirmed, a result did not reach the page, a call was approved.

### Plugins

`dir` and `backup` are the plugin's directory and the copy an update keeps, `row` its row,
`types` the processor registry with who provides each type, `ops` the requests under way. Steps
end at queries. `QueryFails` is a query that raises, and ends the request with what it has done; `RemoveFiles` may leave
all or some of the files, since the code passes over an `rmtree` that fails. `Restart` loads the installed plugins in the
order of their rows, and may fail to save one. `loose` and
`hurt` are history: types, and files, that a race, a failed module, query or removal, or a restart left in doubt.

### PathDrives

`tree` is the service's files. An operation is the list of calls its provider makes; a
call may put more calls in front of those left (a directory that turns out to be there is
walked). Any call may fail before it is done; any but a local one may be done and its answer lost (`Does`); and someone
else may change a file between two. A call's `may` says what else than the whole its success may stand for: a WebDAV
server's 207 leaves out some members of a directory (`part`), another Foxel queues what crosses its mounts
(`queue`), and OneDrive's stream, sent again after a 401, is empty by then (`drained`, the content `Blank`). OneDrive's copy is only
accepted (`Accept`). What was accepted or queued is made, wholly or not, or given up, later (`Honour`). FTP's and SFTP's copy
lists one page of a directory, of `CopyPages` entries here. `job.before` and `job.partly` are history.

### IdDrives

`service` is one of the three; `item` maps identifiers to name, parent, kind and content; names
need not be unique. `kids` and `ways` are the children cache and the path cache. A request
is two steps, `Serve` and `Receive`, and what is between two requests is one. `doubt` is
history: cached entries known to be wrong, with a reason.

### S3Bucket

`object` maps a key to its content, `mark` says which directories have their own empty object, `uploads` are
the multipart uploads under way at the service, each with whether its id was ever told. A prefix is a directory while a key begins
with it. Any request may fail (`S3Fail`), and each that changes something may be done and its answer lost, its creation of an upload
included. `lost` and `left` are history: the answer to a move's delete was lost; an upload was left behind
by a failed abort, a cancellation or an id that never arrived.

### Telegram

`channel` maps a message to whether it is a file, text, or gone; `known` is the message cache; `lock`, `active` and
`online` are the download lock, the number of the message streamed last and the shared
connection; `work` is each user's stream, listing or delete. `LoadFloods` is a wait Telegram bids, `LoadFails` any other failure in a
download, before its first chunk or after, `AskFails` a failed request for messages; a stream that fails closes the connection under
everybody's downloads. Connecting may fail, and a write or a delete may be done and its answer lost.

### Tokens

`token`, `held` and `aged` are the provider's token, who holds the lock, and whether its time is
out; `refresh` and `saved` are PikPak's refresh token and the one in the row; `valid` is what the
service accepts. `owed` counts the logins there was a reason for. A request has one try only (`once`) in `dropbox.py`, AList's uploads
and Google Drive's writes and streamed bodies; `unasked` is a renewal that PikPak makes without looking at the token again, which keeps
the token it has if it fails. `SaveFails` is a row that cannot be written after a refresh token was exchanged (`unsaved`).

### ByteStreams

`stream` is one request: the range asked for, the file's size, what the service makes of a
range, the headers answered and the bytes sent so far. The parsing of a `Range`
header is modelled by its outcome for every shape of header, provider by provider. The size may be unknown where the code goes on
without it: WebDAV without a Content-Length, FTP where `SIZE` fails.
WebDAV's segments with their three tries are `SegmentEnd` and `BodyBreaks`; the others send
what one answer brings.

### QuarkUpload

`up` is the upload under way, where `parts` is the bytes of the parts whose tags are kept, in order;
`held` is what each file holds at the service, `kids` the cached directory,
`tempfiles` the files in the temporary directory, `lister` a listing under way.

## Runs

| Run | Instance | What it shows |
|---|---|---|
| `taskqueue` | 3 tasks, settings 1 to 3 changed twice, 2 starts | each task once and in order, a promised task keeps a worker to spare and runs, `stop_worker` drains and returns, the queue implements `TaskExecutor` |
| `taskqueue_resize` (violation) | 1 task, settings 1 and 3, changed 3 times | the pool can end at another size than the setting |
| `scheduler` | 2 rows, 2 requests, 2 writes, 3 moments, 1 failed query | no due time queued twice or skipped, no stale row served after its refresh, every change taken up, `stop` returns |
| `permission` | 1 request and 2 administrators with 2 operations; the root and one directory, a rule for each; entries live 2 ticks | the caches differ from the tables only after a race; ages are bounded; stale answers end |
| `transfer` | 2 transfers, 2 names, pages of 1, 1 other write or delete, 1 failure or restart | an undisturbed run is exact, a move loses only what was written late, nothing is overwritten unasked, temporary files go, every run ends |
| `movepath_safety` | 2 requests of any operation on any two paths of 2 names and depth 2, three trees | success means exactly the promised tree; without overwrite nothing is lost; whatever is lost was at the destination |
| `movepath_race` (violation) | the same | the local adapter replaces a file that appeared after the check |
| `movepath_noop` (violation) | 1 request | with overwrite, a path moved onto itself is deleted |
| `services` | one of eleven components at a time, see below | settings are served as stored, no administrator by accident, no lost update but by whole-row saves, uploads whole across restarts, pages that bring each entry once, fresh thumbnails, rooms in step, notices that stay dismissed, writes kept, exports that restore, calls answered and run once, plugins whole |
| `drives` | one of seven groups of providers at a time, see below | success means done exactly, the source is never lost, nothing is left behind at the service, caches are true, one more try suffices after a token ended, bodies are what their headers say |
| `s3_delete` (violation) | 3 keys, 1 operation | a directory of the S3 provider survives its deletion |
| `adapterregistry` | 2 adapters, 2 requests, 1 administrator, 1 write | instances and usage differ from the table only in the races named; a usable adapter is never answered 404; old usage ends |

### Why these bounds

- *TaskQueue.* The interesting case of a resize needs a second change before the
  first one's sentinels are taken, and tasks on both sides of a sentinel: two
  changes and three tasks. A second start shows that nothing of the first life is
  left. `MaxWorkers` in `MCTaskQueue` only names the workers in the fairness; no
  behaviour within the bounds starts more.
- *Scheduler.* A stale reload needs one row to change between query and build; two
  requests are needed for one's refresh to be absorbed by the other's reload. A
  schedule due twice shows lateness by more than one due time.
- *PermissionCache.* One request in flight is enough for every race with a writer,
  since requests share nothing but the caches, and entries outlive the request
  that made them. Two administrators are needed for a refused statement. Two
  levels of path are the least with inheritance and with an answer derived from a
  cached parent. Ages are counted up to `MaxAge = 6`, above the bound
  `AgeBounded` states for the deepest path (5).
- *Transfer.* A page of one file makes a listing of two files two pages, which is
  what the listing race needs. Two transfers are each other's concurrent writers;
  one further write or delete, or one failure of any kind, shows each exception the properties name.
- *MovePath.* Two names and two levels (three, for results) contain every relation
  of two paths: equal, siblings, one inside the other, one in the other's parent.
- *AdapterRegistry.* Two requests are needed for one to clear what the other looks
  for; a second adapter, for a refresh to disturb an adapter nobody asked for.
  With one adapter, two administrators and two writes the invariants hold as well;
  the proofs cover every number.

- *Services.* Two clients in each component, interchangeable (symmetry), since each race is one of two actors, and:
  settings set 3 times and 2 failed queries; 4 account requests, which is a registration, the
  reset of its password and two that meet; 1 upload of 2 parts of 2 chunks (a mixture
  needs two), 4 calls and 1 restart; entries of 3 ranks with 2 mounts, one among them and one behind,
  in pages of 1, 2 and 8 (a page per entry, a short last page, everything on one), whose keys the S3 interface collects in pages of 1 and 2; 3 versions of a
  file with 2 stamps, the least with a stamp that comes back; 4 states of a room, for two
  overlapping changes and one that heals them; 3 notices in pages of 2 and 2 synchronisations; names
  0 and 1 for the first free one; 2 rows a table and 3 edits around an export and an import; 2 calls
  a turn, 3 requests and 2 rounds with the agent, for an approval that arrives twice; 2 plugins, one
  whose second version provides less and two that provide the same type.
- *Drives.* Six paths, two names on two levels, contain every relation of source and destination;
  a copy's listing of 1 entry cuts a directory of 2, and of 2 does not;
  two callers of the identifier drives, interchangeable (symmetry), with 4 identifiers and 2
  operations or changes from outside, which is what a stale answer put back into a cache needs; 3 keys of a bucket, one
  below another; 3 messages, batches of 2 and pages of 1, so that a page fills in the middle of a
  batch; 3 token requests and 2 troubles, the least that defeats one retry; files of up to 3
  bytes in segments of 2, so that the last is short, and 2 broken connections; 3 uploads of up to 3
  bytes in parts of 2.

In these two runs a bound limits the number of operations, not what they may meet: all their
interleavings are checked, with the failures each module's section names. Where a section names none, no call of the model
fails half way.

Deadlock is checked where the system goes on for ever (`permission`,
`adapterregistry`). In the other runs it may stop: every start is used up, the loop
has ended, every request is answered.

## Fairness

The event loop resumes every coroutine that is ready, so a step that follows a
query, an adapter call or a sleep has weak fairness once it can be taken, each
worker, request and administrator of its own. Time passes: `Tick` and `Expire`
are weakly fair. Nobody is obliged to ask, to submit, to change a
setting or to stop; faults and restarts are never fair.

- `TaskQueue`: a task's coroutine ends (nothing in the code bounds it; a handler
  that never returns holds its worker for ever, and then nothing of this holds).
- `PermissionCache`: a query is answered within two ticks, that is, well within
  twice the five minutes an entry lives. `Tick` waits for it, or no age would be
  bounded. The fairness of a request is written out as
  `<>[](under way) => []<><<step>>_vars`.
- `Transfer`: a queued task is taken and its run goes on. This is what `PromisedRuns`
  gives for a task added while the pool has a worker to spare.
- `AdapterRegistry`: queries and `get_usage` return, or fail.

The runs `services` and `drives` check safety only and assume no fairness.

`StaleEnds` and `OldUsageEnds` say that something is eventually so for good. They
rest on the bound on writes: after the last change the caches are right again.

## Properties, by what can go wrong

A property of a run is a conjunction of named parts where one component has several; the
parts are defined, each with its comment, in the component's module.

*A shared FIFO that also carries the order to end.* `PromisedServed` is the
invariant that makes resizing safe: a task added while the pool outnumbered the
sentinels still has a worker to spare in front of any sentinel added later.
`OrderlyStop` (`StopDrains`, `StopReaches`) and `StopCompletes` (in `Progress`) are its
consequences for a stop, `OnceInOrder` (`EachTaskOnce`, `FifoStart`) what a task may rely on.
What the code does not give is a pool of the size asked for: see the findings.

*A snapshot that is acted on after its source has changed.* `NeverStale`,
`StaleOnlyByRace`, `CachesCurrent` (`InstanceCurrent`, `UsageCurrent`), `OverwriteAsked`,
`MoveLosesOnlyLateWrites`, and in the new components `CacheIsTable`, `FiledRight` and
`ServedIsFresh`, `InStep`, `KeptUnlessRaced`, `OnlyEditsUndo`, `KidsTrue` and `WaysTrue`, `KnownTrue`,
`KidsCached` each say: this is right, except in the races the code
leaves open, and those are named exactly. The history variables exist to name
them. Removing one of the exceptions makes TLC show the race.

*A check and an act with an await between.* `FirstIsAdmin`, `TokenOnce`, `StaysDismissed`,
`UnaskedKept`, `S3Unasked`.

*A cache that is emptied to be filled again.* `NoSpurious404`: requests that
empty the registry under each other's feet still find every adapter that is there,
since a request that misses always fills before it looks again, with no await
between the two. `NoNeedlessLogin` is its like for tokens: requests that meet a refused token together
log in once.

*One step of several failing.* `RunsExact`, `SuccessIsExact`, `PossibleSucceeds`, `SourceKept`, `KeepsToItself`,
`CleanIsExact`, `S3SourceKept`, `NoUploadLeft`, `WholeInOrder`, `TempsAccounted`, `FilesAreRows`, `DoneIsWhole`.

*A restart in between.* `PartIsWhole`, `CompletedIsParts`, `EndedLeavesNothing`, `SavedIsCurrent`, `TypesAreInstalled`, `TempGone`.

*What is sent twice, or not at all.* `RunOnce`, `AskedFirst`, `AllAnswered`, `OnceMoreIsEnough`, `StreamWhole`,
`LockHeldByOne`, `BodyIsExact`, `AnswerIsRight`.

*A boundary.* `WalkIsExact`, `KeysWalkIsExact`, `WalkComplete`, `PopupIsNewest`, `DueTimesOnce` (`OncePerDueTime`, `NoGap`), `AgesBounded`.

*What goes with what is replaced.* `Restores`, `SparesOthers`, `AloneIsExact` (`SoloExact`,
`UnaskedLosesNothing`), `LossAtDestination`.

*Things that must end.* `KeepsUp` (`DueTimeServed`, `CatchesUp`, `StopReturns`), `TransferEnds`,
`StaleEnds`, `OldUsageEnds`, `Progress` (`PromisedRuns`, `StopCompletes`).


## Proofs

`TaskQueueProofs`, `AdapterRegistryProofs`, `SchedulerProofs`, `TransferProofs`, `MovePathProofs`,
`ServicesProofs`, `FilesProofs` and `DrivesProofs` are checked for every value of the constants. What they
assume of the constants is named in the modules and evaluated by TLC on the instances: bounds
are naturals; a setting of the pool is at least 1 (the code clamps it); a page has at least one
entry; a schedule is a set of moments up to the bound on time; names of files are finitely many,
with a place in the sorted order; requests for a provider's token are finitely many; so are the calls and requests of a chat, and the
notices; a page of notices has at least one; a part of an upload
has at least one byte (`quark.py` raises otherwise), as has a segment of WebDAV's (a constant of
`webdav.py`), and a part of an S3 upload is read in one chunk or more; streams are those of the thirteen
providers; a path of `MovePath` is a sequence of names, not the root, with its parents a path too, a tree to begin with has
directories above whatever it has, and nobody asks to copy a directory into itself, which `MCMovePath`
leaves out as well (what `shutil.copytree` then copies depends on when it lists each directory); and the values that stand for "nothing", `None`, `Missing`,
`Silent`, `Nothing`, `Absent`, `NoToken`, `Blank`, `Unknown` and the environment's, are none of those that are written.

| Theorem | Property | Argument |
|---|---|---|
| `TaskQueueProofs!TypeCorrect` | `TypeOK` | |
| `RunOnce` | `EachTaskOnce` | inductive with the types and `OnlySubmitted` |
| `StartOrder` | `FifoStart` | from `QueueSorted` |
| `HeadroomKept` | `PromisedServed` | needs `PromisedKnown`, see below |
| `OnceInOrderKept` | `OnceInOrder` | the two above |
| `StopIsDrain` | `StopDrains` | from the headroom of promised tasks and `NoWorkers` |
| `StopIsOrderly` | `OrderlyStop` | `StopDrains`, and `StopReaches` by counting the sentinels in the queue |
| `QueueRefinesExecutor` | `ImplementsExecutor` | initial states map to initial states, each action to an action or a stutter |
| `AdapterRegistryProofs!TypeCorrect` | `TypeOK` | |
| `InstancesCurrent` | `InstanceCurrent` | |
| `UsagesCurrent` | `UsageCurrent` | |
| `CachesAreCurrent` | `CachesCurrent` | the two above |
| `NoMiss` | `NoSpurious404` | |
| `SchedulerProofs!DueTimesKept` | `DueTimesOnce` | from `Ahead`, `Behind` and `NoGap` |
| `StaleNeverQueued` | `NeverStale` | from `SnapFresh` and `ItemsFresh` |
| `TransferProofs!RunsKept` | `RunsExact` | from `Carried` and `Alone` |
| `MovesKeep` | `MoveLosesOnlyLateWrites` | from `Listed` and `Carried` |
| `OverwritesAsked` | `OverwriteAsked` | from `Checked` |
| `MovePathProofs!AloneExact` | `AloneIsExact` | from `Alone` and `Stands`: where a request that was always alone stands |
| `LossStaysThere` | `LossAtDestination` | case by case over the adapter's answers, from `Typed` |
| `ServicesProofs!SettingsTypeCorrect` | `Settings!TypeOK`, a part of `SettingsServed` | |
| `SettingsCacheKept` | `CacheIsTable`, a part of `SettingsServed` | from `CacheExplained` |
| `SettingsAreServed` | `SettingsServed` | the invariant of the two above, beside the other services |
| `EditsAloneUndo` | `OnlyEditsUndo`, a part of `AccountsKept` | from `EditsFresh` |
| `FirstAloneIsAdmin` | `FirstIsAdmin`, a part of `AccountsKept` | from `JoinersMeet` |
| `TokensOnce` | `TokenOnce`, a part of `AccountsKept` | from `TokensHeld` and `OneToken` |
| `AccountsTyped` | `Accounts!TypeOK`, a part of `AccountsKept` | from `AccountRowsInv` |
| `AccountsAreKept` | `AccountsKept` | the invariant of the four above, beside the other services |
| `PluginsAreWhole` | `PluginsWhole` | from `OneRequest`, `TypesRight` and `FilesRight` |
| `CallsAreAnswered` | `CallsAnswered` | from `AgentInv`, see below |
| `FilesProofs!ThumbsAreFresh` | `ThumbsFresh` | from `ViewsRight` |
| `RoomsAreInStep` | `RoomInStep` | from `ViewersRight` and `ChangerRight` |
| `WritesAreKept` | `WritesKept` | from `SeenAreDone` and `MineIsThere` |
| `UploadsStayWhole` | `UploadsWhole` | from `GwInv`, see below |
| `NoticesAreKept` | `NoticesKept` | from `FetchedSoFar` and `ItemsRight` |
| `DrivesProofs!TokensAreRenewed` | `TokensRenewed` | from `Budget`, `RefreshKept` and `SecondTries` |
| `UploadsAreWhole` | `QuarkUploadsWhole` | from `PartsInOrder` and `ListsTrue` |
| `StreamsAreExact` | `StreamsExact` | from `BodySoFar`, and case by case from `AnswersFit` and `AnswersRight` |
| `BucketIsKept` | `BucketKept` | from `BucketInv`, see below |

*TaskQueue.* The inductive invariant `IInv` adds four conjuncts to the stated ones.
`QueueSorted`: tasks lie in the queue in the order of their ids, which gives
`FifoStart`. `OnlySubmitted`: no id above `submitted` is in use, so a new one is
larger than all queued. `PromisedKnown`: promised tasks are in the table, so that
the headroom of a pending one speaks of its place in the queue. `NoWorkers`: a
stopped or unstarted service has no worker. The step that is not obvious is
`HeadroomKept` under `TakeSentinel`: the pool loses one worker and every queued
task loses one sentinel ahead of it, so the difference stays; and under
`EnsureWorkerCount`, where new sentinels are behind every queued task. Both are
lemmas about counting the sentinels of a sequence. `StopReaches` is inductive once `IInv`
holds: `stop_worker` puts a sentinel behind for each worker, taking one costs a sentinel and
a worker, and tasks that running tasks still add cost neither.

*AdapterRegistry.* `IInv` adds: `UnusedUnasked` (an id not yet given has no
usage, and no request asks for it), without which a new row would find the usage of
another; `UsageCleared` (usage left stale, in its figures or in what it says of the row, by a save or a delete
is cleared by the rest of that operation); `FreshVersions` (a version about to be saved is that of no
row and of nothing a request has read), which is what makes a version name one
row; `BuiltSeen` (what a request is about to put in has the row it first read, if
that has not changed), which is `NoSpurious404` one step before the answer.

*Settings.* `CacheExplained` says of a cache that is filled and wrong why it is: a race or a failure
has been noted (`doubtful`), or a set is under way that has saved its row and not yet cached it,
or, where the value of the environment is cached, has just made the row. `CacheIsTable` leaves
out the times when a set is under way, so it is not inductive alone.

*Accounts.* `EditsFresh`: an edit nobody has written under holds the row as it is, but for its
field. `JoinersMeet`: two registrations under way know of each other, and one that is alone and
has found no user is right still, since deletions only make users fewer. `TokensHeld`: a token that
has set a password is dead or its confirmation is about to take it away, and two who hold one
token are known; so the confirmation that sets a second password is one of two. For the
types, `AccountRowsInv` adds that a password is the number of a request made, and that names are unique,
which the unique index gives and no step of a request checks for itself.

*Scheduler.* `Behind`: what was queued of a row was due and lies before the `next` of its item. A
pass moves `next` past what it queues and a reload computes it from the clock, so neither can come
back to it, which is why no due time is queued twice however late the loop is. `NoGap` needs
`Ahead`: an item's `since` is a moment that has passed. For `NeverStale`, `SnapFresh` says that
what a reload has read is the table but for rows whose request has still to say so, unless
another reload has been asked for; `ItemsFresh` says it of the items built from it. `reload` is
cleared before the query, so a change behind the query sets it again. The pass that follows a reload at once
reads the clock anew: it queues what came due since the items were built and nothing before, since every `next` was
computed to be after the first reading. That moment is the exception `CaughtInReload` of `NeverStale`, and only while another reload
is asked for; the next pass comes after the next look at `reload`.

*Transfer.* `Sound` (no path is a file with files below it) and `Old` (no content is of a write to
come) are about the mounts. `Carried`: what a run has read is in its temporary files, what it has
written has arrived, and outside these phases there is no temporary file. `Checked`: without
overwrite the place to be written was free at the last look. `Alone`: how far a run nobody
disturbs, and that was not misled, has brought the destination, phase by phase. `Listed` is the hard one, the pages of a
listing that changes between them: every file as the run found it whose place in the present
listing is on a page already read is among the jobs. Writing a file pushes the others back, so what
was read stays read; deleting one pulls them forward, which is `short`, as is a listing that failed and came
empty. A run that takes a failure for an answer knows no less of what it carries (`MisledKeeps`), and one that loses an answer has
failed, and leaves the mounts as another actor might (`LostKeeps`). It rests on lemmas about
`Sorted`, the strictly increasing sequence of the names present, and a name's rank, the number of
names present up to it. The model defines `Sorted` by what it is (a `CHOOSE`) and not by a recursion,
so that it exists is a lemma too: ranks are a bijection, and its inverse is the sequence.

*MovePath.* `Typed` keeps the tree well formed: whatever there is has directories above it. `Stands` says where a
request is that nobody has interfered with: before its delete the tree is the one it saw, before its act that tree
less the destination, and with its answer it has done what `Kept` says, which is `AloneIsExact` of one
request. What carries it is a lemma for each adapter call, over any tree and any two paths (`Outcome`, `CopyOutcome`): a success
is the graft of the source at one place, the destination or, where `shutil.move` was given a directory, a name
in it, and a failure has at most made directories. They rest on lemmas
about paths: two that begin a third are one inside the other, and a path below the source
goes to one below the destination and comes from nowhere else. `LossAtDestination` needs
no history: every call of the adapter keeps each content or had it at the destination.

*S3Gateway.* A request is known by its number, and files are named by it: `FilesApart`, no number is that of two files, and a part
whose request has not opened its file has one that is nowhere yet. `Sent` says of a part being sent what is on the
disk at each step, chunk by chunk, and `Whole` of one that is not what its description promises; both hold of a part that two
requests never sent at once (`gwmixed`). `UploadsMade`, an upload is made by one request only and
never after it ended, gives that what a request finds of an upload is that upload's. A merge reads part after part while
others may replace them, so `MergedRight` compares what it has read with the descriptions it read before, and holds where no
part was sent by two at once. A restart drops the requests; `Whole` must then hold of what they left, which is why
a description is written last.

*S3Bucket.* `UploadOpen`: a multipart upload is open only while its stream goes on, or was left by one whose abort
failed, that was cancelled, or that never heard the upload's id. `OnTheWay`: request by request, where the objects of a copy or a move are while nobody interferes, so
that the source is deleted only when the destination holds its content.

*Thumbs.* `MadeRight`: a thumbnail being made is of versions not older than the one looked at, whose
stamp it will be filed under. So what is filed is of a version with that stamp or later, which is
`FiledRight`, and what is served from the file is what `ServedIsFresh` allows.

*VideoRoom.* `ViewersRight`: who watches shows the state of the row, or is known to be apart, or is
changing it, or will hear of a broadcast under way, which is a set that only shrinks as it is sent.
`ChangerRight`: a change alone, once saved, is what the row says, and what its viewer shows.
`Overlapping`: while two changes overlap everybody is apart, and one change at a time is alone.

*Writers.* `SeenAreDone`: the writers whose end another one saw are done, and the place that one
found free holds none of theirs. `MineIsThere`: what is being written in place, or is written, is
there unless it is noted as replaced or removed.

*Plugins.* `OneRequest`: a plugin not known to have had two requests at once has one, which knows
the plugin's row and its id; so the `UPDATE` or `DELETE` it makes later meets that row. `TypesRight` and
`FilesRight` are `TypesAreInstalled` and `FilesAreRows` carried through the steps of that one
request, or noted in the histories when a query or a removal of it fails. The two histories are apart, since a restart heals the types and not the files. That
a restart gives a type to an installed plugin whose files have it needs a row of greatest id among those
that claim the type.

*Agent.* The server keeps nothing between requests, so the invariant speaks of the page and of the request it waits for.
`Hearing`: the page has that request's conversation, and of the calls the request has still to do none comes twice
and none has run but unheard. With `ResultsKnown` (of a call that ran the page has the result, will have it, or it
got lost) a second run is one of a lost result, which is `RunOnce`. `Consented`: the ids a request was
sent are those its user agreed to, and no id is of a call still to be made; a call run without being asked about was let run by its
user. `Settled`: while there is no gap, whatever the conversation asks for is answered, awaits the user or is still to be done, and
what awaits the user is of the last message that asks, where alone a confirmation is looked up. Ids that are a place in
a message are left out, as in the properties: two calls may have the same.

*Notices.* `FetchedSoFar`: undisturbed, what has been fetched is the beginning of the site's list, as many items as the pages
read hold. `ItemsRight`: of the items gathered each is as the site has it, and what is not among those left has been written
as the site has it, but for what its user dismissed. So at the end the newest of the popups is the newest there is to pop up. That the
list has every notice at a place is the lemma about ranks of *Transfer* again.

*Tokens.* The three exceptions, a request without a second try (`once`), a lost answer (`lostone`) and a row not
written (`unsaved`), are each there because TLC shows the property false without it. `LoginsAlone`: with the lock one request at a time is in a login. `Budget` is the inductive
form of "nobody logs in needlessly": the logins made, those that renew without looking again, and the
one that is due together have each had a reason. `RefreshKept`: PikPak's
refresh token is with the service, in the adapter or on its way to the row, and nobody else has a newer one.
`SecondTries`: a request that tries again, where no token ended since, holds one that is good or will
find it. The count of those who renew is the cardinality of a set, so the requests must be finitely many.

*QuarkUpload.* `PartsInOrder`: the parts put are the beginning of the file up to what is left of it, so the
last one, however short, completes it. `ListsTrue`: until the file is there, the cache and a listing under
way have what there is. After it the cache is cleared, and a listing that began before is what `misled`
notes.

*ByteStreams.* Two parts. Of the answer alone, provider by provider: `AnswersFit`, its
length is what its range and the file's size give, and what is asked of the service for it is that range; `AnswersRight`, it is the
answer of a service that follows HTTP, where `Deviates` does not say otherwise. Of the body: `BodySoFar`, what
was sent is the run of bytes from the range's beginning, what is left continues it, and the two end where the segment or the answer
does. The case that is not obvious is a connection that breaks in a segment: it is asked for again from its
start, so that the body stays exact only if none of it had been sent, which is what `resent` notes.

### Model-checked only

Liveness (`Progress`, `KeepsUp`, `StaleEnds`, `TransferEnds`, `OldUsageEnds`) is beyond the
prover, as is anything that needs `ENABLED`. `PermissionCache` (`StaleOnlyByRace`, `AgesBounded`)
walks up a list of ancestors with a fold, and `Backup` (`BackupsRestore`) runs the statements of
an import one by one: what a fold gives for every list is an induction over data. `Listing` (`WalksExact`) filters
pages and collected keys with `SelectSeq`, which is the same. Of `drives`, `PathDrives`, `IdDrives` and `Telegram` (`PathDrivesExact`,
`IdDrivesExact`, `ChannelServed`) have no theorem. All these are checked on
the instances above only.

## Findings

1. `taskqueue_resize`. `_ensure_worker_count` compares the setting with
   `len(_worker_tasks)` (`task_queue.py:160`), which counts workers whose
   sentinel is queued but not taken. 3 to 1 to 3 ends with one worker, and 3 to 1 to
   1 with none: then nothing runs until the setting is changed or the process
   restarts. `domain/tasks/types.py:36` and the setting's help text promise the
   size asked for.
2. `movepath_noop`. With overwrite the destination is deleted before source and
   destination are compared (`transfer.py:72`, then `:78`): a path moved onto
   itself is gone, and the answer is `noop`.
3. `movepath_race`. The comment at `transfer.py:88` expects the adapter to refuse
   a destination that appears after the check. The local adapter's `os.replace`
   replaces a file silently.
4. `s3_delete`. `s3.py:210` says of its branch for directories that it deletes all objects
   below. The branch is never taken for a directory: what is under it stays, and the
   answer is success.

### Observations

These are not contradicted by any text of the repository, so no run is
devoted to them; the models contain them.

- A permission answer can be older than the five minutes its comment names
  (`permission/service.py:34`): it is derived from a cached parent and stored with
  a time of its own. `AgeBounded` has the true bound, one time to live per level
  of the path and two more.
- `permission/service.py:339`: the detailed check does not inherit from the
  parent directory, so it can refuse what the actual check allows.
- A backup import leaves the permission caches, the registry and the usage cache
  as they were. Permissions recover when their entries expire; the instances of
  adapters that are gone serve until the next refresh.
- A query that raises in a reload ends the scheduler's loop for good, and `stop`
  raises it again in the lifespan (`scheduler.py:47`).
- A reload computes every `next_run` from the clock, so a due time reached but
  not served yet is dropped when any row changes. Its own pass reads the clock again, so a row
  changed or deleted while the reload read the table may be queued once more as it was, if it comes due in that moment.
- `delete_role` counts the users of a role and deletes it later; an assignment in
  between goes with the cascade.
- A cross-mount transfer with overwrite deletes the destination before it looks
  at the source: a missing source costs the old destination.
- A restart leaves the temporary files of transfers that were running; nothing
  removes them later.
- A failure that looks like an answer is acted upon: a move from an FTP mount whose listing fails copies nothing and deletes the source
  (`ftp.py:132`, `transfer.py:514`); a look that fails lets `write_file_stream` write over what is there (`file_ops.py:68`).
- A usage that is asked for while its adapter is renamed is cached for an hour under the old name and paths (`adapters/service.py:157`).
- *Lists.* Where mounts are merged in, pages after the first are cut from the wrong place
  (`listing.py:201`): an entry may come twice or never. WebDAV's PROPFIND lists one page. A client of the S3
  interface that sends `start-after` again with its continuation token gets the same keys for ever.
  A page of a Telegram channel that is full drops the rest of the batch that filled it.
- *Accounts.* Two registrations on an empty system can both become administrators. Rows are saved
  whole, so an edit undoes what was saved since it read. Two confirmations of one reset token
  may both set a password. Administrators who delete each other at once leave no account, and
  the next to register becomes administrator.
- *Video rooms.* A viewer who joins while a change is being saved, and everyone after two
  overlapping changes, may show an older state until the next change.
- *Agent.* When the result of a call does not reach the page, an approval runs the call again. When the tools cannot be had,
  a stream ends with nothing pending (`agent/service.py:438`): the page forgets the calls it asked about, and they stay unanswered.
- *S3 interface.* A part that is sent while its upload is aborted or completed makes the directory
  anew, and nothing removes or lists it. A directory that changes between two of the pages read for a list of keys repeats or omits one, one whose
  listing answers 404 in the middle is answered as empty.
- *Backup.* Replacing a table takes with it what refers to it: all roles of all accounts, all models of
  all providers, also those whose parents the import brings back.
- *Plugins.* An update with fewer types leaves those of the old version registered until a restart. One whose row cannot be saved
  leaves the new files with the old row, and a removal whose `rmtree` fails leaves files of no row.
- *Providers.* Nothing clears Quark's path cache, so a path goes on leading to a directory
  that was moved away. FTP and SFTP swallow errors of a listing or a removal. AList's move with another name is a
  move and a rename, which may meet a place that is taken. OneDrive's copy, and what another Foxel has to carry between its mounts, is accepted before it is
  made. OneDrive's stream, sent again after a 401, is stored as an empty file (`onedrive.py:100`). FTP's and SFTP's copy of a directory takes 10,000 entries of it
  (`ftp.py:422`, `sftp.py:309`). WebDAV's 207, some of it could not be done, counts as success. WebDAV's body repeats what it had already sent of a segment it asks for
  again. FTP answers a range with the whole file when `SIZE` fails (`ftp.py:523`). AList's uploads and Google Drive's writes and streams do not try again when their token
  has ended. PikPak's refresh token is spent before the next is saved, so a row that cannot be written keeps a dead one (`pikpak.py:287`). An S3 upload whose
  creation loses its answer is never aborted (`s3.py:134`). A Telegram stream that fails closes the connection under other downloads (`telegram.py:636`, `:663`), and a message
  whose delete raised stays cached.

## Not modelled

`PROJECT.json` lists every component with its reason. In short:

- *Vector index and AI models.* Calls to services and libraries whose answers carry no
  protocol; deleting a file's vectors and inserting the new ones has the same races as `Thumbs`, with no
  reader that could tell.
- *Share links, audit, recent files.* A row read, compared and written; no state beyond their table.
- *E-mail.* Sent by a task of the queue; what a queued task may rely on is `TaskQueue`.
- *Path patterns.* A pattern is compiled to a regular expression of Python's library; what remains is
  which characters stand for which, and is best tested.
- *Web client.* User interface.
- Quark's `rename` (`quark.py:848`), which ignores the directory of the destination, and the name under which `write_upload_file` stores at Quark, the browser's where
  it gives one (`quark.py:480`): `IdDrives` and `QuarkUpload` have Quark's move and uploads, under the name asked for.
- What another Foxel does with a transfer it queued is `Transfer`'s matter; `PathDrives` only knows that it is made, made in part, or not.
- Within the modelled components: the event triggers of automation tasks (`trigger_tasks`), mount paths
  and their longest prefix, temporary links and their signatures, the pixels of images and
  videos, the parsing of each service's answers.

## Plan

1. Liveness for the components of `services` and `drives`: a login that waits for the lock gets it, a
   Telegram download that waits for another ends, a room comes back into step after the next change.
2. Proofs: the other components of `drives` (`LockHeldByOne` and `StreamWhole` of `Telegram`, `KidsTrue` of
   `IdDrives`); the walk of keys in `Listing` (`KeysWalkIsExact`), once its collection is a set and not a filtered sequence.
3. A common specification of a cache over a changing table, which `AdapterRegistry` and `Settings`
   implement; two index runs of one file; pattern matching against a reference matcher.
