--------------------------------- MODULE Thumbs ---------------------------------
(***************************************************************************)
(* thumbnail.py: get_or_create_thumb for one file and one size, by several *)
(* requests at once, while the file changes.  A thumbnail is filed under   *)
(* the stamp, size and mtime, that stat_file gave; a version of the file   *)
(* may have the stamp of an earlier one.  What a thumbnail is made of is   *)
(* the set of versions its bytes were read from.                           *)
(***************************************************************************)
EXTENDS Naturals, FiniteSets

CONSTANTS Viewers, Stamps, MaxVersions, MaxViews, Missing

VARIABLES kind,    \* "image", "video" or "other", by its name, or Missing before it is known
          native,  \* what the adapter offers: no thumbnails, some, or these alone for videos
          version, \* the file's
          stampof, \* the stamp of each version so far
          thumbs,  \* CACHE_ROOT: by stamp, the versions a thumbnail is made of
          torn,    \* stamps whose file was cut off by a crash
          view, views

thvars == <<kind, native, version, stampof, thumbs, torn, view, views>>

Over == {"rest", "done", "failed"}
Goes(v, r) == view' = [view EXCEPT ![v] = r]
At(v, at) == Goes(v, [view[v] EXCEPT !.at = at])
Is(v, at) == view[v].at = at
File == <<kind, native, version, stampof>>
Store == <<thumbs, torn>>
Stamp == stampof[version]
\* The bytes read now are of this version.
Reads(v, at) == Goes(v, [view[v] EXCEPT !.at = at, !.of = @ \cup {version}])

ThumbSetup(k, n, s) ==
    /\ kind = Missing
    /\ kind' = k /\ native' = n /\ stampof' = [stampof EXCEPT ![1] = s]
    /\ UNCHANGED <<version, Store, view, views>>

\* get_thumbnail of routes.py: only what may have a thumbnail gets so far.
View(v) ==
    /\ kind # Missing /\ (kind # "other" \/ native # "none")
    /\ view[v].at \in Over /\ views < MaxViews
    /\ views' = views + 1
    /\ Goes(v, [at |-> "stat", under |-> Missing, of |-> {}, hit |-> FALSE, then |-> version])
    /\ UNCHANGED <<File, Store>>

\* stat_file, and at once the look into the cache: a file that is there is served as it is.
Stat(v) ==
    /\ Is(v, "stat")
    /\ Goes(v, IF thumbs[Stamp] # {}
               THEN [view[v] EXCEPT !.at = "done", !.hit = TRUE, !.under = Stamp, !.of = thumbs[Stamp], !.then = version]
               ELSE [view[v] EXCEPT !.under = Stamp, !.then = version, !.at = IF native = "none" THEN "read" ELSE "native"])
    /\ UNCHANGED <<File, Store, views>>

\* The adapter's own thumbnail, or none; an error is the request's, and for its own kind
\* of file there is no other way.
Native(v) ==
    /\ Is(v, "native")
    /\ \/ Reads(v, "store")
       \/ At(v, IF kind = "other" \/ (kind = "video" /\ native = "only") THEN "failed" ELSE "read")
       \/ At(v, "failed")
    /\ UNCHANGED <<File, Store, views>>

\* An image is read whole.
ReadImage(v) ==
    /\ Is(v, "read") /\ kind = "image"
    /\ Reads(v, "store") \/ At(v, "failed")
    /\ UNCHANGED <<File, Store, views>>

\* A video: its head, its tail, a frame; if none comes, a service's transcoded stream or a
\* longer tail; if it is black, a longer head.
ReadHead(v) ==
    /\ Is(v, "read") /\ kind = "video"
    /\ Reads(v, "tail") \/ At(v, "failed")
    /\ UNCHANGED <<File, Store, views>>
ReadTail(v) ==
    /\ Is(v, "tail")
    /\ Reads(v, "frame") \/ At(v, "failed")
    /\ UNCHANGED <<File, Store, views>>
Frame(v) ==
    /\ Is(v, "frame")
    /\ At(v, "store") \/ At(v, "black") \/ At(v, "again")
    /\ UNCHANGED <<File, Store, views>>
FrameAgain(v) ==
    /\ Is(v, "again")
    /\ \/ Goes(v, [view[v] EXCEPT !.at = "store", !.of = {version}])
       \/ Reads(v, "store") \/ Reads(v, "black")
       \/ At(v, "failed")
    /\ UNCHANGED <<File, Store, views>>
FrameBlack(v) ==
    /\ Is(v, "black")
    /\ At(v, "store") \/ Reads(v, "store")
    /\ UNCHANGED <<File, Store, views>>

\* Mutant: the thumbnail is filed under the file's stamp now.
StoreThumbNow(v) ==
    /\ Is(v, "store")
    /\ thumbs' = [thumbs EXCEPT ![Stamp] = view[v].of]
    /\ torn' = torn \ {Stamp}
    /\ At(v, "done")
    /\ UNCHANGED <<File, views>>

\* The file is written in one go.
StoreThumb(v) ==
    /\ Is(v, "store")
    /\ thumbs' = [thumbs EXCEPT ![view[v].under] = view[v].of]
    /\ torn' = torn \ {view[v].under}
    /\ At(v, "done")
    /\ UNCHANGED <<File, views>>

\* A crash in the middle of it leaves part of the file, that is served from then on.
Crash(v) ==
    /\ Is(v, "store")
    /\ thumbs' = [thumbs EXCEPT ![view[v].under] = view[v].of]
    /\ torn' = torn \cup {view[v].under}
    /\ view' = [u \in Viewers |-> IF view[u].at \in Over THEN view[u] ELSE [view[u] EXCEPT !.at = "failed"]]
    /\ UNCHANGED <<File, views>>

Rewrite(s) ==
    /\ kind # Missing /\ version < MaxVersions
    /\ version' = version + 1 /\ stampof' = [stampof EXCEPT ![version'] = s]
    /\ UNCHANGED <<kind, native, Store, view, views>>

Init ==
    /\ kind = Missing /\ native = "none" /\ version = 1
    /\ stampof = [n \in 1 .. MaxVersions |-> Missing]
    /\ thumbs = [s \in Stamps |-> {}] /\ torn = {}
    /\ view = [v \in Viewers |-> [at |-> "rest", hit |-> FALSE]] /\ views = 0

Next ==
    \/ \E k \in {"image", "video", "other"}, n \in {"none", "some", "only"}, s \in Stamps : ThumbSetup(k, n, s)
    \/ \E v \in Viewers :
        \/ View(v) \/ Stat(v) \/ Native(v) \/ ReadImage(v) \/ ReadHead(v) \/ ReadTail(v) \/ Frame(v)
        \/ FrameAgain(v) \/ FrameBlack(v) \/ StoreThumb(v) \/ Crash(v)
    \/ \E s \in Stamps : Rewrite(s)

ThSpec == Init /\ [][Next]_thvars

-----------------------------------------------------------------------------
TypeOK ==
    /\ version \in 1 .. MaxVersions /\ torn \subseteq {s \in Stamps : thumbs[s] # {}}
    /\ \A s \in Stamps : thumbs[s] \subseteq 1 .. version
    /\ \A v \in Viewers : view[v].at \in Over \cup {"stat", "native", "read", "tail", "frame", "again", "black", "store"}

\* A thumbnail is filed under the stamp of a version it is made of, or of one that was
\* replaced while it was made: it never gets under a stamp the file had only later.
FiledRight == \A s \in Stamps :
    thumbs[s] # {} => \E n \in 1 .. version :
        stampof[n] = s /\ \A m \in thumbs[s] : m >= n

\* A viewer is given a thumbnail of the file as it was when he asked, or later: an older
\* one only if that had the same stamp, or one whose thumbnail was made while it changed.
ServedIsFresh == \A v \in Viewers :
    Is(v, "done") => \A m \in view[v].of :
        m >= view[v].then \/ \E n \in 1 .. m : stampof[n] = view[v].under /\ stampof[view[v].then] = view[v].under
=================================================================================
