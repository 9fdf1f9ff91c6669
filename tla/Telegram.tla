-------------------------------- MODULE Telegram --------------------------------
(***************************************************************************)
(* The provider that keeps files as messages of a Telegram channel         *)
(* (domain/adapters/providers/telegram.py): a listing walks the messages   *)
(* from the newest by a cursor, messages are cached for a while, and       *)
(* downloads share one connection, one lock, and the number of the message *)
(* streamed last, which ends the streams of the others.                    *)
(*                                                                         *)
(* Messages are numbered in the order they are sent.  A stream's length is *)
(* counted in chunks; a stream keeps the lock while its client has not     *)
(* asked for the next one.  Any request may fail, also after its effect.   *)
(***************************************************************************)
EXTENDS Naturals, Sequences, SequencesExt, FiniteSets

CONSTANTS Users, MaxMessage, \* the messages there may be
          PageSize, Batch,   \* entries a page asks for, messages a request brings
          Length,            \* chunks of a stream
          MaxJobs, Nobody

VARIABLES channel, \* what each message is
          known,   \* _message_cache: the messages cached
          lock,    \* _download_lock: who holds it
          active,  \* _active_stream_message_id
          online,  \* the shared client is connected
          work,    \* what each user's request is at
          jobs,    \* requests so far, for MaxJobs
          odd      \* history: messages cached although gone, for a known reason

tgvars == <<channel, known, lock, active, online, work, jobs, odd>>

Messages == 1 .. MaxMessage
There == {m \in Messages : channel[m] \in {"file", "text"}}
Unsent == {m \in Messages : channel[m] = "unsent"}
Waits == {"rest", "done", "failed"}
Ready(u) == work[u].at \in Waits
Becomes(u, r) == work' = [work EXCEPT ![u] = r]
At(u, at) == Becomes(u, [work[u] EXCEPT !.at = at])

\* A new request: its kind, and the message it is about.
Start(u, do, m, at) ==
    /\ Ready(u) /\ jobs < MaxJobs /\ channel[1] # "unsent"
    /\ jobs' = jobs + 1
    /\ Becomes(u, [at |-> at, do |-> do, m |-> m, sent |-> 0, cursor |-> 0, got |-> <<>>, page |-> 0,
                   cut |-> {}, throughout |-> There, preempted |-> FALSE, flooded |-> FALSE])

-----------------------------------------------------------------------------
(* list_dir: requests of Batch messages until a page is full. *)

Walk(u) == Start(u, "walk", 0, "batch") /\ UNCHANGED <<channel, known, lock, active, online, odd>>

Older(c) == {m \in There : c = 0 \/ m < c}
NewestFirst(s) == SetToSortSeq(s, >)
Upto(seq, n) == SubSeq(seq, 1, IF n < Len(seq) THEN n ELSE Len(seq))

\* Mutant: the next request begins a message later.
WalkBatchSkips(u) ==
    /\ work[u].at = "batch"
    /\ LET w == work[u]
           batch == Upto(NewestFirst(Older(w.cursor)), Batch)
           files == SelectSeq(batch, LAMBDA m : channel[m] = "file")
           listed == Upto(files, PageSize - w.page) IN
       IF batch = <<>> THEN At(u, "done")
       ELSE Becomes(u, [w EXCEPT !.cursor = batch[Len(batch)] - 1, !.got = @ \o listed,
                                 !.page = (@ + Len(listed)) % PageSize])
    /\ UNCHANGED <<channel, known, lock, active, online, jobs, odd>>

\* A full page ends in the middle of the batch, but its cursor is the batch's end.
WalkBatch(u) ==
    /\ work[u].at = "batch"
    /\ LET w == work[u]
           batch == Upto(NewestFirst(Older(w.cursor)), Batch)
           files == SelectSeq(batch, LAMBDA m : channel[m] = "file")
           listed == Upto(files, PageSize - w.page) IN
       IF batch = <<>> THEN At(u, "done")
       ELSE Becomes(u, [w EXCEPT !.cursor = batch[Len(batch)], !.got = @ \o listed,
                                 !.cut = @ \cup {files[i] : i \in Len(listed) + 1 .. Len(files)},
                                 !.page = (@ + Len(listed)) % PageSize])
    /\ UNCHANGED <<channel, known, lock, active, online, jobs, odd>>

-----------------------------------------------------------------------------
(* Uploads and deletes, each on a connection of its own. *)

Write(u) ==
    /\ Unsent # {}
    /\ LET m == CHOOSE m \in Unsent : \A k \in Unsent : m <= k IN
       /\ \E at \in {"sent", "failed"} : Start(u, "write", m, at)
       /\ channel' = [channel EXCEPT ![m] = "file"]
    /\ UNCHANGED <<known, lock, active, online, odd>>

\* The message's number is the file's name; what was cached is forgotten.
Written(u) ==
    /\ work[u].at = "sent"
    /\ known' = {} /\ odd' = {}
    /\ At(u, "done")
    /\ UNCHANGED <<channel, lock, active, online, jobs>>

\* What raises, be it after the delete, leaves what is cached.
Delete(u, m) ==
    /\ \/ m \in There /\ Start(u, "delete", m, "deleted") /\ UNCHANGED odd
       \/ m \in There /\ Start(u, "delete", m, "failed") /\ odd' = odd \cup (known \cap {m})
       \/ m \notin There /\ Start(u, "delete", m, "failed") /\ UNCHANGED odd
    /\ channel' = IF m \in There THEN [channel EXCEPT ![m] = "gone"] ELSE channel
    /\ UNCHANGED <<known, lock, active, online>>

Deleted(u) ==
    /\ work[u].at = "deleted"
    /\ known' = known \ {work[u].m} /\ odd' = odd \ {work[u].m}
    /\ At(u, "done")
    /\ UNCHANGED <<channel, lock, active, online, jobs>>

\* A cached message expires, or makes room.
Forget(m) ==
    /\ m \in known
    /\ known' = known \ {m} /\ odd' = odd \ {m}
    /\ UNCHANGED <<channel, lock, active, online, work, jobs>>

\* Somebody else deletes a message.
DeleteElsewhere(m) ==
    /\ m \in There /\ jobs < MaxJobs /\ channel[1] # "unsent"
    /\ jobs' = jobs + 1
    /\ channel' = [channel EXCEPT ![m] = "gone"]
    /\ odd' = odd \cup (known \cap {m})
    /\ UNCHANGED <<known, lock, active, online, work>>

-----------------------------------------------------------------------------
(* Looking a message up: stat_file, and the start of a read or a stream.    *)

\* All but a stat of a cached message connect the shared client, which may fail.
Look(u, do, m) ==
    /\ LET connects == ~online /\ ~(do = "stat" /\ m \in known) IN
       \/ Start(u, do, m, IF m \in known THEN "found" ELSE "ask") /\ online' = (online \/ connects)
       \/ connects /\ Start(u, do, m, "failed") /\ UNCHANGED online
    /\ UNCHANGED <<channel, known, lock, active, odd>>

Ask(u) ==
    /\ work[u].at = "ask" /\ online
    /\ At(u, IF work[u].m \in There THEN "told" ELSE "untold")
    /\ UNCHANGED <<channel, known, lock, active, online, jobs, odd>>

\* A request for messages fails: a stream closes the shared client, whoever downloads.
AskFails(u) ==
    /\ work[u].at \in {"batch", "ask"}
    /\ At(u, "failed")
    /\ online' = (online /\ work[u].do # "stream")
    /\ UNCHANGED <<channel, known, lock, active, jobs, odd>>

Told(u) ==
    /\ work[u].at \in {"told", "untold"}
    /\ LET m == work[u].m IN
       IF work[u].at = "told"
       THEN /\ known' = known \cup {m} /\ odd' = IF m \in There THEN odd ELSE odd \cup {m}
            /\ At(u, "found")
       ELSE known' = known \ {m} /\ odd' = odd \ {m} /\ At(u, "failed")
    /\ UNCHANGED <<channel, lock, active, online, jobs>>

\* A message without media is no file.  A stream becomes the active one.
Found(u) ==
    /\ work[u].at = "found"
    /\ LET m == work[u].m IN
       IF channel[m] = "text" THEN At(u, "failed") /\ UNCHANGED active
       ELSE IF work[u].do = "stat" THEN At(u, "done") /\ UNCHANGED active
       ELSE IF work[u].do = "read" THEN At(u, "wait") /\ UNCHANGED active
       ELSE /\ active' = m
            /\ work' = [v \in Users |->
                    IF v = u THEN [work[u] EXCEPT !.at = "wait"]
                    ELSE IF ~Ready(v) /\ work[v].do = "stream" /\ work[v].m # m
                         THEN [work[v] EXCEPT !.preempted = TRUE] ELSE work[v]]
    /\ UNCHANGED <<channel, known, lock, online, jobs, odd>>

-----------------------------------------------------------------------------
(* Downloads, under the lock. *)

Acquire(u) ==
    /\ work[u].at = "wait" /\ lock = Nobody
    /\ lock' = u
    /\ At(u, "load")
    /\ UNCHANGED <<channel, known, active, online, jobs, odd>>

Releases(u) == lock' = IF lock = u THEN Nobody ELSE lock

\* A chunk comes: a stream no longer the active one ends without a word.
Load(u) ==
    /\ work[u].at = "load" /\ online
    /\ LET w == [work[u] EXCEPT !.sent = @ + 1] IN
       IF w.do = "stream" /\ active # w.m THEN Releases(u) /\ At(u, "done")
       ELSE IF w.do = "read" /\ w.sent = Length THEN Releases(u) /\ Becomes(u, [w EXCEPT !.at = "done"])
       ELSE UNCHANGED lock /\ Becomes(u, [w EXCEPT !.at = IF w.do = "read" THEN "load" ELSE "yielded"])
    /\ UNCHANGED <<channel, known, active, online, jobs, odd>>

\* Telegram bids wait: the shared client is closed for everyone, and what has been sent of
\* a stream stays all of it, without an error.
LoadFloods(u) ==
    /\ work[u].at = "load" /\ online
    /\ online' = FALSE
    /\ Releases(u)
    /\ Becomes(u, IF work[u].do = "stream" /\ work[u].sent > 0
                  THEN [work[u] EXCEPT !.at = "done", !.flooded = TRUE] ELSE [work[u] EXCEPT !.at = "failed"])
    /\ UNCHANGED <<channel, known, active, jobs, odd>>

\* Any other failure, as that of a client that was closed, is an error, before the first
\* chunk and after it; a stream closes the client, a read leaves it as it is.
LoadFails(u) ==
    /\ work[u].at = "load"
    /\ online' \in (IF work[u].do = "stream" THEN {FALSE} ELSE {online, FALSE})
    /\ Releases(u)
    /\ At(u, "failed")
    /\ UNCHANGED <<channel, known, active, jobs, odd>>

\* The client has taken its chunk and asks for the next.
Pull(u) ==
    /\ work[u].at = "yielded"
    /\ IF work[u].sent = Length THEN Releases(u) /\ At(u, "done") ELSE UNCHANGED lock /\ At(u, "load")
    /\ UNCHANGED <<channel, known, active, online, jobs, odd>>

\* The client of a stream that has begun goes away.
Close(u) ==
    /\ work[u].at \in {"load", "yielded"} /\ work[u].do = "stream" /\ work[u].sent > 0
    /\ Releases(u)
    /\ At(u, "failed")
    /\ UNCHANGED <<channel, known, active, online, jobs, odd>>

Init ==
    /\ channel = [m \in Messages |-> "unsent"]
    /\ known = {} /\ lock = Nobody /\ active = 0 /\ online = FALSE
    /\ work = [u \in Users |-> [at |-> "rest"]]
    /\ jobs = 0 /\ odd = {}

\* A channel to begin with, perhaps with room for one message more.
Setup(kinds) ==
    /\ channel[1] = "unsent"
    /\ \E last \in {"unsent", "file"} : channel' = [kinds EXCEPT ![MaxMessage] = last]
    /\ UNCHANGED <<known, lock, active, online, work, jobs, odd>>

Next ==
    \/ \E kinds \in [Messages -> {"file", "text"}] : Setup(kinds)
    \/ \E u \in Users :
        \/ Walk(u) \/ WalkBatch(u) \/ Write(u) \/ Written(u) \/ Deleted(u)
        \/ Ask(u) \/ AskFails(u) \/ Told(u) \/ Found(u) \/ Acquire(u)
        \/ Load(u) \/ LoadFloods(u) \/ LoadFails(u) \/ Pull(u) \/ Close(u)
        \/ \E m \in Messages : Delete(u, m)
        \/ \E m \in Messages, do \in {"stat", "read", "stream"} : Look(u, do, m)
    \/ \E m \in Messages : Forget(m) \/ DeleteElsewhere(m)

TgSpec == Init /\ [][Next]_tgvars

-----------------------------------------------------------------------------
TypeOK ==
    /\ channel \in [Messages -> {"unsent", "file", "text", "gone"}]
    /\ known \subseteq Messages /\ odd \subseteq known /\ lock \in Users \cup {Nobody}
    /\ \A u \in Users : work[u].at \in Waits \cup {"batch", "sent", "deleted", "ask", "told", "untold", "found",
                                                   "wait", "load", "yielded"}

\* A stream that ends as if complete is complete, unless a stream of another message was
\* begun meanwhile or Telegram bade it wait: a second viewer of the same file, or someone
\* who looks at other files, does not cut it off.
StreamWhole == \A u \in Users :
    work[u].at = "done" /\ work[u].do = "stream" /\ ~work[u].preempted /\ ~work[u].flooded =>
        work[u].sent = Length

\* The lock is always held by a download that goes on when its client does: nobody waits
\* for one that has ended.
LockHeldByOne ==
    /\ lock # Nobody => work[lock].at \in {"load", "yielded"}
    /\ \A u \in Users : work[u].at \in {"load", "yielded"} => lock = u

\* With no request under way, a cached message is still there, but where it was read
\* before a delete and cached after it, somebody else deleted it, or the answer to its
\* delete was lost.
KnownTrue == (\A u \in Users : Ready(u)) => \A m \in known : m \in There \/ m \in odd

\* A walk of the pages lists no message twice, and each file that was there throughout
\* once: but those that a page, full, had no room for in the batch that filled it, which
\* no page ever lists.
WalkComplete == \A u \in Users :
    work[u].at = "done" /\ work[u].do = "walk" =>
        LET got == work[u].got IN
        /\ \A i, j \in DOMAIN got : i < j => got[i] > got[j]
        /\ \A m \in There \cap work[u].throughout :
                channel[m] = "file" => m \in {got[i] : i \in DOMAIN got} \cup work[u].cut
=================================================================================
